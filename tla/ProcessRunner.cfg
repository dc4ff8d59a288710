SPECIFICATION Spec
CONSTANTS
  PipeSize = 1
  MaxLines = 2
  MaxAttempts = 2
INVARIANTS
  RunnerTypeOK
  OutputIsComplete
  TimeoutLeavesNothing
PROPERTIES
  HangIsCaught
CHECK_DEADLOCK FALSE
