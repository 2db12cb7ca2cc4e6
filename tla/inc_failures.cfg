SPECIFICATION FailuresSpec
CONSTANTS
  short = short
  long = long
  MaxRuns = 4
  MaxPacks = 1
  Signers = {short, long}
  SigLen <- MCSigLen
  NoSigner = none
  Faults = {"kill", "write"}
  MachineRuns = 3
INVARIANTS
  AlwaysOpens
  NewestStateIntact
  CheckpointSound
  SignatureCovers
  RestoreBringsBack
PROPERTIES
  SealedNeverRewritten
  RemovalReported
  ImplementsSessionLog
  SealedKeptOnLoss
CHECK_DEADLOCK FALSE
