SPECIFICATION Spec
CONSTANTS
  Callers = {x}
  Locals = {t, u}
  MaxTemps = 2
  Nothing = Nothing
  Starts <- CopyStarts
INVARIANTS
  CopyNeverClobbers
CHECK_DEADLOCK FALSE
