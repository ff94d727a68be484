CONSTANTS
  Null = Null
  MaxCount = 2
  Structs <- AllStructs
SPECIFICATION Spec
INVARIANTS
  DecoderInStep
  LiveFieldsArrive
  OneArmFits
CHECK_DEADLOCK FALSE
