SPECIFICATION Spec
CONSTANTS
  Callers = {x, y}
  Locals = {t, u}
  MaxTemps = 2
  Nothing = Nothing
  Starts <- MCStarts
INVARIANTS
  TypeOK
  NothingDeadIsEvaluated
  LoweredIsPlannable
  GraphMeansRecording
  SuccessIsImmediate
  FailureTouchesNothing
  BuffersOwnedOnce
CHECK_DEADLOCK FALSE
