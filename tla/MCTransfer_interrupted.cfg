CONSTANTS
  short = short
  long = long
  Msgs = {short, long}
  Size <- OneAndThree
  Hwm = 1
  MaxLeft = 2
CHECK_DEADLOCK FALSE
SPECIFICATION TransferSpec
PROPERTY
  DeliversWhole
