CONSTANTS
  SqEntries = 4
  CqEntries = 6
  RingEntries = 1
  Fds = {65535}
  ListenFd = 4
  ResetFds = {}
  MaxChunks = 2
  PoolSize = 3
  Greetings = 1
SPECIFICATION Spec
PROPERTIES HelloSpec ConnectionsStayRead
CHECK_DEADLOCK FALSE
