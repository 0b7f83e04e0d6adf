SPECIFICATION Spec
CONSTANTS
  Variables = {x, y}
  Sessions = {s1, s2}
  MaxStatements = 3
  MaxRuns = 3
  Nothing = Nothing
SYMMETRY Interchangeable
INVARIANTS
  TypeOK
  EffectsInOrder
  FailedRunChangesNothing
CHECK_DEADLOCK FALSE
