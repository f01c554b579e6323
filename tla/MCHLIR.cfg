SPECIFICATION Spec
CONSTANTS
  Bodies <- FlatBodies
  NONE = NONE
INVARIANTS BlocksTerminated FlowPreserved
PROPERTY ClosedBlocksFinal
CHECK_DEADLOCK FALSE
