CONSTANTS
  NumEnclaves = 2
  NumClients = 3
  Workers = {w1, w2, w3}
SPECIFICATION Spec
INVARIANTS
  TypeOK
  EnclaveExclusive
  BusyIffServing
  NobodyTurnedAway
  MapNotRaced
  LateClientsShareFirst
  NoLostWakeup
PROPERTIES
  EveryCallReturns
  WorkersJoined
CHECK_DEADLOCK FALSE
