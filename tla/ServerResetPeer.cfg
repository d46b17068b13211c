CONSTANTS
  SqEntries = 4
  CqEntries = 4
  RingEntries = 2
  Fds = {5, 6}
  ListenFd = 4
  ResetFds = {6}
  MaxChunks = 0
  PoolSize = 3
  Greetings = 0
SPECIFICATION Spec
INVARIANT AddressInitialized
CHECK_DEADLOCK FALSE
