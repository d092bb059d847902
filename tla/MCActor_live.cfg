CONSTANTS
  a1 = a1
  a2 = a2
  p1 = p1
  p2 = p2
  Objects <- TwoObjects
  Pipes <- OnePipe
  Hwm = 3
  Uses <- Plain
CHECK_DEADLOCK FALSE
SPECIFICATION FairSpec
PROPERTIES
  WaitsEnd
  ThreadsEnd
