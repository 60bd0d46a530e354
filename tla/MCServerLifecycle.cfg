SPECIFICATION FairSpec
CONSTANTS
  Serves = {s1}
  Closers = {k1}
  Conns = {c1, c2, c3}
  NoConn = NoConn
  MaxConnections = 2
  IdleTimeout = FALSE
INVARIANTS
  TypeOK
  SlotAccounting
  CloseStopsService
PROPERTIES
  ShutdownCompletes
  PeerGoneFreesSlot
CHECK_DEADLOCK FALSE
