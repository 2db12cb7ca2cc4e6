SPECIFICATION OutputSpec
CONSTANTS
  Capacity = 2
  MaxUnits = 4
  MaxRuns = 3
  MaxReads = 1
  Faults = {"kill", "write"}
  ArchiveUnits = 4
  FirstPart = 1
  MaxPart = 2
  GrowEvery = 2
  MaxParts = 3
  UploadSlots = 2
  MaxUploads = 2
  MaxResumes = 1
  StoreFaults = {"request", "reply", "signal", "kill"}
INVARIANTS
  JoinedIsOneArchive
  ClosedSetIsWhole
  ObjectWhole
  NoUploadLeft
  AnswerTrue
  OneVersionRead
PROPERTY TransfersEnd
CHECK_DEADLOCK FALSE
