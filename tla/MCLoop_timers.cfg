CONSTANTS
  s1 = s1
  s2 = s2
  f1 = f1
  t1 = t1
  t2 = t2
  Sockets <- OneSocket
  Fds <- NoKeys
  Masks <- InMask
  Timers <- TwoTimers
  Delays = {0,1}
  Times = {0,1}
  Hour = 2
  MaxLate = 1
  MaxCalls = 2
  MaxItems = 1
  Uses <- TimerUses
CHECK_DEADLOCK FALSE
SPECIFICATION FairSpec
INVARIANTS
  WakesForEarliest
  NoFurtherThanDelay
PROPERTIES
  DueTimersFire
