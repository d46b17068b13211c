CONSTANTS
  SqEntries = 4
  CqEntries = 4
  RingEntries = 2
  Fds = {5, 6}
  ListenFd = 4
  ResetFds = {}
  MaxChunks = 0
  PoolSize = 3
  Greetings = 0
SPECIFICATION Spec
INVARIANT PacketFromSender
CHECK_DEADLOCK FALSE
