SPECIFICATION Spec
CONSTANTS
  Requests <- MCRequests
  Data = {0, 1, 2}
  Failures = {"timeout", "rejected"}
INVARIANTS TypeOK SpansExact 
CHECK_DEADLOCK FALSE
