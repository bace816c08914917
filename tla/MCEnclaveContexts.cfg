CONSTANTS
  Clients = {c1, c2, c3, c4}
  NoClient = NoClient
  kInactiveContextCacheMax = 2
  OneEdbPerClient = TRUE
  MaxEdbs = 4
  MaxUpdates = 3
SYMMETRY Symmetry
SPECIFICATION Spec
INVARIANTS
  TypeOK
  ServedByOwnContext
  ServedUpToDate
  NeverStranded
  OneContextPerEdb
PROPERTIES
  SealNeverForgets
