SPECIFICATION Spec
CONSTANTS
  Bodies <- BranchInBranchBodies
  NONE = NONE
INVARIANT BlocksTerminated
CHECK_DEADLOCK FALSE
