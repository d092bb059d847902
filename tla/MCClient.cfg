CONSTANTS
  s1 = s1
  s2 = s2
  f1 = f1
  Sockets <- MCSockets
  Fds <- MCFds
  Masks <- MCMasks
  MaxItems = 3
  TheSocket = s1
  Stdin = f1
  MaxLines = 3
  MaxInbox = 2
CHECK_DEADLOCK FALSE
SPECIFICATION FairClientSpec
INVARIANTS
  IndexSound
  IndexComplete
  KeepsItsTurns
  LosesNoLine
PROPERTIES
  ImplementsWatchSet
  ReadsOn
