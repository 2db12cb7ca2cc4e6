SPECIFICATION Spec
CONSTANTS
  short = short
  long = long
  MaxRuns = 2
  MaxPacks = 1
  Signers = {}
  SigLen <- MCSigLen
  NoSigner = none
  Faults = {"power"}
INVARIANT AlwaysOpens
CHECK_DEADLOCK FALSE
