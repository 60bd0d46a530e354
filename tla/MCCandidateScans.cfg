SPECIFICATION FairSpec
CONSTANTS
  N = 3
  ReqParallelism = 2
  SafetyMode = "normal"
  MaxAttempts = {2}
  Data = {0, 1}
INVARIANTS TypeOK ResultIsTrue PoliteToTarget
 
CHECK_DEADLOCK FALSE
