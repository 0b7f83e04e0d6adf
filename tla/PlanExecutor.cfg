SPECIFICATION RunsSpec
CONSTANTS
  Jobs <- AllJobs
  Calls <- ExecCalls
  NoModel = NoModel
  PlannedProgram = PlannedProgram
INVARIANTS
  TypeOK
  UnitsExact
  WithinBudget
  VictimAlwaysExists
  MissingStaysExact
  AcceptedPlanIsSound
  RejectsExactlyInfeasible
  BeladyBestInSlots
  XTypeOK
  CallsGetTheirBuffers
  OwnedIsExact
  OutcomeContract
  DeviceWithinBudget
PROPERTIES
  ImplementsProgramRun
  ExecutionEnds
CHECK_DEADLOCK FALSE
