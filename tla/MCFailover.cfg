SPECIFICATION Spec
CONSTANTS
  e1 = e1
  e2 = e2
  None = None
  Endpoint <- MCEndpoint
  Key <- MCKey
  Configs <- MCConfigs
  Samples = {600}
  MaxFailures = 8
  Caller = {c1, c2}
  Option <- MCOption
  Setup <- MCSetup
  Timeout = 1
  MaxCalls = 1
INVARIANTS
  TypeOK
  AppliedOnce
  TransportTimeBounded
  QuarantineDeserved
PROPERTIES
  MovesOn
  KeepsContract
CHECK_DEADLOCK FALSE
