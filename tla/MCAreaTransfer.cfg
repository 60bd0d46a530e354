SPECIFICATION Spec
CONSTANTS
  Calls <- MCCalls
  PDUSizes = {26, 30}
  AreaSize = 5
  Peer = "foreign"
  MaxCalls = 2
  MaxConns = 2
  MaxOthers = 1
  Byte <- MCByte
INVARIANTS
  TypeOK
  SuccessIsExact
  WriteIsPrefix
  NoLostUpdate
CHECK_DEADLOCK FALSE
