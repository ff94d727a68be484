SPECIFICATION PinsSpec
CONSTANTS
  Name = {n1, n2}
  Guid = {g1, g2}
  NoGuid = NoGuid
  MaxId = 3
SYMMETRY NameAndGuidSymmetry
INVARIANTS
  PinsTypeOK
  NeverReassigned
  BuildIsInjective
