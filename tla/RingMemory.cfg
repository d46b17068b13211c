CONSTANTS
  Entries = 4
  CounterMod = 8
SPECIFICATION Spec
INVARIANTS TypeOK EntriesWhole
PROPERTY RingSpec
