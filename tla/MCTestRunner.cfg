SPECIFICATION Spec
CONSTANTS
  NumTests = 3
  MaxThreads = 2
  Rows = 1
  Results = {"RUNNING", "PASSED"}
  NONE = NONE
INVARIANTS
  TypeOK
  RunOnce
  AllRunAtReturn
  FinalReport
PROPERTIES
  StatusForward
  Completes
  ImplementsTestRun
CHECK_DEADLOCK FALSE
