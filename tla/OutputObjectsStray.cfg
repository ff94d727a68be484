SPECIFICATION Spec
CONSTANTS
  Methods <- MCStrayMethods
  Interfaces = {"I"}
  Iids = {"A", "B"}
  Data = {1, 2}
  Cap = 2
  MaxCalls = 2
INVARIANT NamedByItsIid
CHECK_DEADLOCK FALSE
