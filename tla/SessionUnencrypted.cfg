SPECIFICATION Spec
CONSTANTS
  Callers = {x, y}
  Locals = {t}
  MaxTemps = 1
  Nothing = Nothing
  Starts <- UnencryptedStarts
INVARIANTS
  UnencryptedOperandRefused
CHECK_DEADLOCK FALSE
