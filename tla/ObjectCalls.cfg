CONSTANTS
  x1 = x1
  x2 = x2
  t1 = t1
  t2 = t2
  r1 = r1
  r2 = r2
  Thread = {t1, t2}
  Ring = {r1, r2}
  RingOf <- TwoRings
  Id = {x1, x2}
  NoId = NoId
  Roots = {}
  MaxLog = 3
  MaxStaged = 1
  MaxOuts = 1
  MaxEdges = 1
SPECIFICATION Spec
CHECK_DEADLOCK FALSE
SYMMETRY SideAndIdSymmetry
INVARIANTS TypeOK RingsNeverStuck OutputsAnswered ReleaseWaitsForUses OnlyFailuresLoseCalls
PROPERTIES IdLifeCycle ImplementsContract
CONSTRAINTS OneCallerWaits OneThreadStages
