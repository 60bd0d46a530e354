SPECIFICATION Spec
CONSTANTS
  Calls <- MCLongCalls
  PDUSizes = {31}
  AreaSize = 5
  Peer = "server"
  MaxCalls = 1
  MaxConns = 1
  MaxOthers = 0
  Byte <- MCByte
INVARIANTS
  WriteFitsPDU
CHECK_DEADLOCK FALSE
