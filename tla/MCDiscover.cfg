SPECIFICATION FairSpec
CONSTANTS
  AddrSpace = 16
  Network = 8
  HostBits = 3
  Speaks <- MCSpeaks
  Flaky = {14}
  Pairs = 3
  maxAttemptsPerHost = 2
  Workers = {w1, w2}
INVARIANTS TypeOK ResultsExact PoliteToHosts
PROPERTY AllEnd
CHECK_DEADLOCK FALSE
