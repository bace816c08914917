CONSTANTS
  Words = {a, b}
  Docs = {d1, d2}
  NoDoc = NoDoc
  MaxUpdates = 3
  retrieval_limit = 2
  MAX_TERMS = 16
  MAX_INDEX_SIZE = 305
  MAX_DOC_SIZE = 305
  MAX_RESULT_DOCS = 100
  MAX_FILE_SIZE = 305
  Client_id = 1
  OtherClient_id = 255
SPECIFICATION Spec
SYMMETRY Symmetry
INVARIANTS
  TypeOK
  IndexExact
  AnswersExact
  RepliesExact
  RoundTrips
CHECK_DEADLOCK FALSE
