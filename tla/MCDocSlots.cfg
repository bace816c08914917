CONSTANTS
  DocIds = {d1, d2}
  Contents = {x, y}
  Unindexed = {y}
  NoDoc = NoDoc
  doc_CK_max = 1
  retrieval_threshold = 2
  retrieval_limit = 2
  MaxVersion = 3
SYMMETRY Symmetry
SPECIFICATION Spec
INVARIANTS
  TypeOK
  VersionsInStep
  EmptyOnlyAsUploaded
PROPERTIES
  ImplementsDocStore
CHECK_DEADLOCK FALSE
