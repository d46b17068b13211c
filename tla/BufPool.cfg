\* Five buffers: every order in which they can be popped and put back.
CONSTANTS
  Entries = 5
  NULL = NULL
SPECIFICATION Spec
INVARIANTS
  TypeOK
  FreelistHoldsTheRest
PROPERTY LendsOnce
