CONSTANTS
  s1 = s1
  s2 = s2
  f1 = f1
  t1 = t1
  t2 = t2
  Sockets <- TwoSockets
  Fds <- OneFd
  Masks <- InAndPri
  Timers <- OneTimer
  Delays = {0}
  Times = {0}
  Hour = 1
  MaxLate = 1
  MaxCalls = 2
  MaxItems = 3
  Uses <- ItemUses
CHECK_DEADLOCK FALSE
SYMMETRY Symmetric
SPECIFICATION Spec
INVARIANTS
  NothingUndefined
  HonoursCallers
  PollerStaysSound
PROPERTIES
  DispatchStartsClean
  ImplementsDispatcher
