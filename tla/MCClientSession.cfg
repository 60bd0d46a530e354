SPECIFICATION FairSpec
CONSTANTS
  g1 = g1
  g2 = g2
  Callers <- MCCallers
  Calls <- MCCalls
  NoCaller = NoCaller
  RefMod = 3
  Attempts = 2
  MaxRefs = 3
  MaxConns = 2
INVARIANTS
  AnswersMatched
  AbandonedStaysOutOfStep
  ConnOwned
  SessionStable
PROPERTIES
  FailedConnectKeepsSession
  CallReturns
CHECK_DEADLOCK FALSE
