SPECIFICATION Spec
CONSTANTS
  Methods <- Footprints
  MaxCount = 2
  Null = Null
INVARIANT ReplyAlwaysFits
