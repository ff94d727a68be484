SPECIFICATION Spec
CONSTANTS
  Names <- MCNames
  Registries <- MCRegistries
  Stem <- MCStem
INVARIANT SlotsAgree
INVARIANT OneVtableServesTheFamily
INVARIANT QueriesMatchUpcasts
INVARIANT FilesAsListed
CHECK_DEADLOCK FALSE
