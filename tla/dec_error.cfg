SPECIFICATION Spec
CONSTANTS
  Workers = {w1, w2}
  Depth = 1
  MaxBlocks = 2
  Idle = idle
  Exited = exited
INVARIANT SameAsSequential
CHECK_DEADLOCK FALSE
