SPECIFICATION Spec
CONSTANTS
  SolidMemberMaxSize = 2
  MaxSolidStreamSize = 3
  InlineStreamThreshold = 4
  OverflowSize = 2
  MaxDirectorySize = 3
  Processors = 2
  Workers = {w1, w2}
  ResultLookahead = 1
  Idle = idle
  Exited = exited
  ConcurrentInputs <- MCConcurrentInputs
  StreamingInputs <- MCStreamingInputs
INVARIANT ResultsBounded
CHECK_DEADLOCK FALSE
