CONSTANT Entries = 4
SPECIFICATION Spec
INVARIANTS
  TypeOK
  SlotsAccountedFor
PROPERTY LostBuffersStayLost
