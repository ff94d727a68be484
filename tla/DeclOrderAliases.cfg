CONSTANTS
  A = A
  B = B
  C = C
  Order <- Names
  Definitions <- AllDefinitions
SPECIFICATION DeclSpec
INVARIANT DependenciesFirst
CHECK_DEADLOCK FALSE
