SPECIFICATION FairSpec
CONSTANTS
  Sessions = {s1, s2}
  NoSession = NoSession
  Requests <- MCRequests
  InitRegions <- MCRegions
  Registers <- MCRegisters
  HostWrites <- MCHostWrites
  MaxPDUSize = 30
  None = None
INVARIANTS
  TypeOK
  ReadsOneState
  AnswerFitsPDU
  WireFaithful
PROPERTIES
  AtomicJobs
  ProtectedFromClients
  JobAnswered
CHECK_DEADLOCK FALSE
