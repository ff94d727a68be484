CONSTANTS
  Null = Null
  MaxCount = 2
  Structs <- Rects
SPECIFICATION Spec
INVARIANT
  PointersFit
CHECK_DEADLOCK FALSE
