CONSTANTS
  BufSize = 3
  MaxInput = 5
SPECIFICATION FairSpec
INVARIANT PrintsWhatWasTyped
PROPERTY InputEndsProgram
\* The program ends.
CHECK_DEADLOCK FALSE
