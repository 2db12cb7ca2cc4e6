SPECIFICATION Spec
CONSTANTS
  MaxBlocks = 7
  PipelineDepth = 4
PROPERTY Returns
CHECK_DEADLOCK FALSE
