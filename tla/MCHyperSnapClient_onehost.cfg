SPECIFICATION Spec
CONSTANTS
  e1 = e1
  e2 = e2
  None = None
  Endpoint <- MCEndpoint
  Key <- OneHost
  Configs <- TwoRoutes
  Samples = {600}
  MaxFailures = 8
  Caller = {c1}
  Request <- ThreeAttempts
  Transport = {TRUE}
  MaxCalls = 1
PROPERTY MovesOn
CHECK_DEADLOCK FALSE
