SPECIFICATION KernelsSpec
CONSTANTS
  Backends = {"engine", "toyfhe", "cheddar"}
  Buffers = {a, b}
  Parameters <- MCParameters
  Messages <- MCMessages
  Doubles <- MCDoubles
  Scalars <- MCScalars
  MaxOps = 2
  Lost = Lost
  Handles = {a, b}
  Nothing = Nothing
  Width = 4
  Values <- MCValues
  Factors <- MCFactors
  Distances <- MCDistances
  MaxCalls = 2
  Staged <- MCStaged
  HalfDegree = 8
  RotationKeys <- MCRotationKeys
  FreshLevel = 1
  Levels <- MCLevels
  Vectors <- MCVectors
  ScalarsOnVectors = FALSE
SYMMETRY Interchangeable
INVARIANTS
  TypeOK
  ScaleDiscipline
  NoiseBounded
  DecryptsRight
  GuardsCatchAssertions
PROPERTIES
  ImplementsKernelContract
CHECK_DEADLOCK FALSE
