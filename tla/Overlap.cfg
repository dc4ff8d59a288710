CONSTANTS
  Jobs = {j1}
  NoJob = NoJob
  MaxEvents = 0
  Runs = {r1, r2}
  NoRun = NoRun
SPECIFICATION Spec
CHECK_DEADLOCK FALSE
INVARIANTS
  PipelineAndUpdateNeverOverlap
