SPECIFICATION Spec
CONSTANTS
  Addresses = {a, b}
  Entities = {x, y}
  Libraries = {lib}
  Catalogue <- WholeOnly
  BuiltIn = BuiltIn
  Nothing = Nothing
  MaxContexts = 2
  MaxBuffers = 2
  Reuse = TRUE
INVARIANTS
  OwnerTagSeparates
CHECK_DEADLOCK FALSE
