CONSTANTS
  Jobs = {j1}
  NoJob = NoJob
  MaxEvents = 0
  Runs = {r1, r2, r3}
  NoRun = NoRun
SPECIFICATION Spec
CHECK_DEADLOCK FALSE
INVARIANTS
  TypeOK
  OverlapNeedsStaleRelease
  RunIsCovered
  ClaimNotLeaked
  RunningStatusIsHonest
PROPERTIES
  ClaimEventuallyFree
