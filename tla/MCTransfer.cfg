CONSTANTS
  short = short
  long = long
  Msgs = {short, long}
  Size <- OneAndThree
  Hwm = 2
  MaxLeft = 2
CHECK_DEADLOCK FALSE
SPECIFICATION FairTransferSpec
INVARIANTS
  NeverStarves
PROPERTIES
  DeliversWholeUninterrupted
  TerminateReturns
