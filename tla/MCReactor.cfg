CONSTANTS
  s1 = s1
  f1 = f1
  Sockets <- OneSocket
  Fds <- OneFd
  Masks <- InOrPri
  MaxCalls = 2
  MaxItems = 3
  MaxDepth = 2
  MaxLater = 2
  Uses <- FourKinds
CHECK_DEADLOCK FALSE
SPECIFICATION Spec
INVARIANTS
  PollerStaysSound
  HonoursCallers
  NothingUndefined
PROPERTY
  ImplementsDispatcher
