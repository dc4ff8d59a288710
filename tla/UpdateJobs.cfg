CONSTANTS
  Jobs = {j1, j2}
  NoJob = NoJob
  MaxEvents = 1
SPECIFICATION JobSpec
CHECK_DEADLOCK FALSE
INVARIANTS
  JobTypeOK
  OneJobAtATime
  AnnouncedMeansRecorded
  IdleReportIsFinal
PROPERTIES
  AcceptedJobCompletes
  ImplementsJobSlot
