SPECIFICATION Spec
CONSTANTS
  Methods <- PrivateData
  MaxCount = 2
  Null = Null
INVARIANT OnlyRoomIsSent
