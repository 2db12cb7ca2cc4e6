SPECIFICATION ExtractionSpec
CONSTANTS
  MaxEntries = 2
  MaxBlocks = 2
  MaxMembers = 2
  Faults = {"damage", "truncate", "io", "kill"}
  NumNames = 2
  Inner = {2}
  Contents <- MCContents
  MinChunk = 1
  MaxChunk = 3
  MaxPack = 4
  MaxEdits = 2
  MaxRuns = 2
  BackupFaults = {"read", "write", "output", "damage"}
INVARIANTS
  TypeOK
  StreamAligned
  OnlyVerifiedPublished
  ResultsFaithful
  TruncationNoticed
  NoTempLeft
  SessionsLoad
  ChunksStoredOnce
  UpToDate
  UnreadKept
  RestoredExactly
CHECK_DEADLOCK FALSE
