SPECIFICATION Spec
CONSTANTS
  NumNames = 2
  Inner = {2}
  Contents <- MCContents
  MinChunk = 1
  MaxChunk = 3
  MaxPack = 4
  MaxEdits = 2
  MaxRuns = 2
  Faults = {"read", "write", "output", "damage"}
INVARIANTS UnreadLinksKept
CHECK_DEADLOCK FALSE
