SPECIFICATION Spec
CONSTANTS
  Lattices <- TwoLattices
  Origins <- SomeOrigins
  BdryPhases <- SomePhases
  PI = 8
\* a call in the wrong direction ends the program
CHECK_DEADLOCK FALSE
INVARIANT TwistsRight
