SPECIFICATION Spec
CONSTANTS
  Type <- MCType
  Root <- MCRoot
  Abi <- MCAbi
  WireSize <- MCWireSize
  Streams <- MCStreams
INVARIANTS
  SentAsMeant
  DecoderInBounds
  StreamArrives
CHECK_DEADLOCK FALSE
