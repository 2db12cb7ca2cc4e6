SPECIFICATION OutputSpec
CONSTANTS
  Capacity = 1
  MaxUnits = 0
  MaxRuns = 0
  MaxReads = 0
  Faults = {}
  ArchiveUnits = 4
  FirstPart = 1
  MaxPart = 2
  GrowEvery = 2
  MaxParts = 4
  UploadSlots = 2
  MaxUploads = 1
  MaxResumes = 0
  StoreFaults = {}
INVARIANT PartsBounded
CHECK_DEADLOCK FALSE
