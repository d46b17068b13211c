CONSTANTS
  BufSize = 6
  StampLen = 1
  WordsLen = 1
  MaxPayload = 6
SPECIFICATION Spec
INVARIANTS LogsThisMessage ShortLinesWhole
