SPECIFICATION Spec
CONSTANTS
  Programs <- MCPrograms
  Tables <- MCTables
INVARIANTS
  TypeOK
  RefusesOnlyInexpressible
PROPERTIES
  ImplementsSemantics
CHECK_DEADLOCK FALSE
