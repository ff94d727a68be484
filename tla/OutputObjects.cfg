SPECIFICATION Spec
CONSTANTS
  Methods <- MCMethods
  Interfaces = {"I"}
  Iids = {"A", "B"}
  Data = {1, 2}
  Cap = 2
  MaxCalls = 2
INVARIANT NamedByItsIid
INVARIANT AnswersArrive
INVARIANT WrappersResolve
INVARIANT OneWrapper
INVARIANT MemoAnswersAsCall
INVARIANT TestsFillTheRefs
CHECK_DEADLOCK FALSE
