CONSTANTS
  Null = Null
  MaxCount = 2
  Structs <- Colors
SPECIFICATION Spec
INVARIANT
  EveryArmFits
CHECK_DEADLOCK FALSE
