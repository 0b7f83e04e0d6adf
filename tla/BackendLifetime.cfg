SPECIFICATION Spec
CONSTANTS
  Addresses = {a, b, c}
  Entities = {x, y, z}
  Libraries = {lib}
  Catalogue <- MCCatalogue
  BuiltIn = BuiltIn
  Nothing = Nothing
  MaxContexts = 3
  MaxBuffers = 3
  Reuse = FALSE
SYMMETRY Symmetry
INVARIANTS
  TypeOK
  CallsReachLoadedCode
  FreedOnceUnheld
  NothingLeaks
  OwnerTagSeparates
CHECK_DEADLOCK FALSE
