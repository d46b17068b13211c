CONSTANTS
  SqEntries = 3
  CqEntries = 3
  RingEntries = 2
  Fds = {5, 65535}
  ListenFd = 4
  ResetFds = {65535}
  MaxChunks = 0
  PoolSize = 2
  Greetings = 1
SPECIFICATION FairSpec
INVARIANTS
  TypeOK
  PoolConserved
  RingConserved
  NoStrandedWork
  GoesDownForCause
PROPERTIES
  HelloSpec
  LogBuffersLent
  StaysListening
  LogBuffersReturn
  InputAnswered
CHECK_DEADLOCK FALSE
