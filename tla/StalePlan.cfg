SPECIFICATION XSpec
CONSTANTS
  Jobs <- StaleJobs
  Calls <- StaleCalls
  NoModel = NoModel
  PlannedProgram = PlannedProgram
INVARIANTS
  StalePlanNeverDispatches
CHECK_DEADLOCK FALSE
