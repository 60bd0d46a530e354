SPECIFICATION Spec
CONSTANTS
  Calls <- MCLongCalls
  PDUSizes = {26}
  AreaSize = 5
  Peer = "foreign"
  MaxCalls = 1
  MaxConns = 1
  MaxOthers = 0
  Byte <- MCByte
INVARIANTS
  DataInPlace
CHECK_DEADLOCK FALSE
