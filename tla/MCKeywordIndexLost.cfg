CONSTANTS
  Words = {a, b}
  LongWords = {}
  Docs = {d1, d2}
  CK_max = 2
  InitDummies = 3
  MaxDummies = 3
  MaxLabels = 6
SYMMETRY Symmetry
SPECIFICATION Spec
INVARIANTS
  NoPostingLost
CHECK_DEADLOCK FALSE
