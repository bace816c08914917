CONSTANTS
  Clients = {c1, c2}
  NoClient = NoClient
  kInactiveContextCacheMax = 1
  OneEdbPerClient = FALSE
  MaxEdbs = 2
  MaxUpdates = 3
SYMMETRY Symmetry
SPECIFICATION Spec
INVARIANT
  ServedByOwnContext
