SPECIFICATION Spec
CONSTANTS
  Capacity = 1
  MaxUnits = 3
  MaxRuns = 3
  MaxReads = 0
  Faults = {"kill"}
INVARIANT NoStaleVolumes
CHECK_DEADLOCK FALSE
