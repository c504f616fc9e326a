SPECIFICATION Spec
CONSTANTS
  e1 = e1
  e2 = e2
  e3 = e3
  None = None
  Endpoint <- MCEndpoint
  Client <- MCClient
  Caller = {c1}
  Option <- MCOption
  MaxCalls = 1
INVARIANT CreateKeyOnce
CHECK_DEADLOCK FALSE
