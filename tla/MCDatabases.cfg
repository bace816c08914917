CONSTANTS
  Clients = {1, 2}
  NoClient = 0
  kInactiveContextCacheMax = 0
  OneEdbPerClient = FALSE
  MaxEdbs = 2
  MaxUpdates = 1
  MaxQueue = 2
  MaxDeletes = 1
  MaxRestarts = 1
SPECIFICATION DbSpec
INVARIANTS
  DbTypeOK
  DeletedStays
  SealedIsStored
  CatalogCovers
PROPERTIES
  NumbersNotReused
  ShutdownCompletes
CHECK_DEADLOCK FALSE
