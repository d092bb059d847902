CONSTANTS
  a1 = a1
  a2 = a2
  p1 = p1
  p2 = p2
  Objects <- TwoObjects
  Pipes <- TwoPipes
  Hwm = 1
  Uses <- ThreeKinds
CHECK_DEADLOCK FALSE
SYMMETRY Symmetric
SPECIFICATION Spec
INVARIANTS
  NoThreadGoesWild
  PipesAreOwned
  StopRemembers
PROPERTY
  KeepsPromise
