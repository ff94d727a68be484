CONSTANTS
  x1 = x1
  x2 = x2
  t1 = t1
  t2 = t2
  r1 = r1
  r2 = r2
  Thread = {t1, t2}
  Ring = {r1, r2}
  RingOf <- TwoRings
  Id = {x1}
  NoId = NoId
  Roots = {}
  MaxLog = 3
  MaxStaged = 0
  MaxOuts = 1
  MaxEdges = 0
SPECIFICATION Spec
CHECK_DEADLOCK FALSE
INVARIANT FirstUseOfFailedIsFatal
