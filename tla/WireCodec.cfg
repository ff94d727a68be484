SPECIFICATION Spec
CONSTANTS
  Methods <- AllMethods
  MaxCount = 4
  Null = Null
INVARIANT SizeIsExact
INVARIANT ArgsArrive
INVARIANT HonestNeverFatal
INVARIANT ReplyFits
INVARIANT ResultsArrive
INVARIANT ResultsInBuffer
