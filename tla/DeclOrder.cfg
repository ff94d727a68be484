CONSTANTS
  A = A
  B = B
  C = C
  Order <- Names
  Definitions <- AllDefinitions
SPECIFICATION DeclSpec
INVARIANTS
  HeaderDeclaresFirst
  CompleteUnlessCyclic
  CodecDeclaresFirst
CHECK_DEADLOCK FALSE
