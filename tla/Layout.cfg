CONSTANT
  Types <- DeclaredTypes
SPECIFICATION Spec
INVARIANTS AssertionsHold ViewsFit
\* A declaration that is laid out stays so.
CHECK_DEADLOCK FALSE
