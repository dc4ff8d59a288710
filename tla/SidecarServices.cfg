SPECIFICATION Spec
CONSTANTS
  Threads = {a, b}
  MaxPid = 2
  MaxCalls = 2
SYMMETRY Symmetry
INVARIANTS
  ServiceTypeOK
  TwoOnlyByRace
  StartedNamesTheServer
  StopLeavesNothing
  BystanderNeedsStalePid
CHECK_DEADLOCK FALSE
