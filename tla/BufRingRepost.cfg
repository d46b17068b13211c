CONSTANT Entries = 4
SPECIFICATION Spec
INVARIANT EveryBufferInUse
