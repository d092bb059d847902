CONSTANTS
  m1 = m1
  m2 = m2
  b1 = b1
  b2 = b2
  b3 = b3
  Messages = {m1, m2}
  Buffers = {b1, b2, b3}
  MaxPast = 1
  MaxWire = 1
  MaxRefs = 3
  MaxTyped = 2
  Values <- SomeValues
  Uses <- PlainAndRough
CHECK_DEADLOCK FALSE
SYMMETRY Symmetric
SPECIFICATION Spec
INVARIANTS
  NotReleasedInUse
  ReleasedUnlessOverwritten
  RemainingCounts
  ReadsWhatWasWritten
  SignalsAreSignals
