CONSTANTS
  Words = {a, b}
  LongWords = {b}
  Docs = {d1, d2}
  CK_max = 2
  InitDummies = 3
  MaxDummies = 3
  MaxLabels = 6
SYMMETRY Symmetry
SPECIFICATION Spec
INVARIANTS
  SnapshotOpens
CHECK_DEADLOCK FALSE
