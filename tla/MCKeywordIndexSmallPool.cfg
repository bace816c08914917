CONSTANTS
  Words = {a, b, c}
  LongWords = {}
  Docs = {d1}
  CK_max = 1
  InitDummies = 1
  MaxDummies = 2
  MaxLabels = 5
SYMMETRY Symmetry
SPECIFICATION Spec
INVARIANTS
  TypeOK
  DummyReserve
CHECK_DEADLOCK FALSE
