CONSTANTS
  Clients = {c1, c2}
  NoClient = NoClient
  kInactiveContextCacheMax = 1
  OneEdbPerClient = FALSE
  MaxEdbs = 1
  MaxUpdates = 3
SYMMETRY Symmetry
SPECIFICATION Spec
INVARIANT
  ResumerReadsItsWrites
