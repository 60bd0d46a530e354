SPECIFICATION Spec
CONSTANTS
  c1 = c1
  Clients <- MCClients
  Sent <- MCSent
  Tsdus <- MCTsdus
  TpduStarts <- MCTpduStarts
  Connects <- MCConnects
  Segments <- MCSegments
  ISNs <- MCISNs
  SeqSpace = 100
  Links <- MCLinks
  MaxBlocks = 6
INVARIANTS
  
  
  ListedAsCompleted
CHECK_DEADLOCK FALSE
