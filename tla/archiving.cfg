SPECIFICATION ArchivingSpec
CONSTANTS
  SolidMemberMaxSize = 2
  MaxSolidStreamSize = 3
  InlineStreamThreshold = 4
  OverflowSize = 2
  MaxDirectorySize = 3
  Processors = 2
  Workers = {w1, w2}
  ResultLookahead = 1
  Idle = idle
  Exited = exited
  MaxBlocks = 7
  PipelineDepth = 4
  Depth = 2
  ParallelBlocks = 6
  DecryptDepth = 1
  DecryptBlocks = 3
INVARIANTS
  OkMeansComplete
  BuffersOwned
  EntriesInOrder
  InFlightBounded
  NothingLost
  ListingsAgree
  GroupsReadable
PROPERTIES
  BlocksInOrder
  ParallelWritesAll
  DecryptsAsSequential
  WindsDown
CHECK_DEADLOCK FALSE
