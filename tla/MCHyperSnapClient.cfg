SPECIFICATION Spec
CONSTANTS
  e1 = e1
  e2 = e2
  None = None
  Endpoint <- MCEndpoint
  Key <- TwoHosts
  Configs <- MCConfigs
  Samples = {600}
  MaxFailures = 8
  Caller = {c1, c2}
  Request <- MCRequest
  Transport = {TRUE, FALSE}
  MaxCalls = 1
INVARIANTS
  TypeOK
  PostAppliedOnce
  QuarantineDeserved
PROPERTIES
  MovesOn
  KeepsContract
CHECK_DEADLOCK FALSE
