SPECIFICATION Spec
CONSTANTS
  Methods <- IndexBuffer
  MaxCount = 2
  Null = Null
INVARIANT OmittedOutputsAreSkipped
