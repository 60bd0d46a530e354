SPECIFICATION Spec
CONSTANTS
  Serves = {s1, s2}
  Closers = {k1}
  Conns = {c1, c2}
  NoConn = NoConn
  MaxConnections = 1
  IdleTimeout = TRUE
SYMMETRY ConnSymmetry
INVARIANT CloseWaitsForGoroutines
CHECK_DEADLOCK FALSE
