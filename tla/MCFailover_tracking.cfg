SPECIFICATION Spec
CONSTANTS
  e1 = e1
  e2 = e2
  None = None
  Endpoint <- MCEndpoint
  Key <- MCKey
  Configs <- TwoRoutes
  Samples = {40}
  MaxFailures = 8
  Caller = {c1}
  Option <- ThreeAttempts
  Setup <- Signed
  Timeout = 1
  MaxCalls = 1
PROPERTY ServiceErrorsTracked
CHECK_DEADLOCK FALSE
