SPECIFICATION Spec
CONSTANTS
  Programs <- InPlacePrograms
  Tables <- MCTables
INVARIANTS
  InPlaceUpdateTolerated
CHECK_DEADLOCK FALSE
