SPECIFICATION HSpec
CONSTANTS
  e1 = e1
  e2 = e2
  Endpoint <- MCEndpoint
  Key <- MCKey
  Configs <- MCConfigs
  Samples <- MCSamples
  MaxFailures = 7
CONSTRAINT ClimbWithOneSample
INVARIANTS
  SelectDecides
  AverageWithinSamples
  PrefersFaster
  PoolTypeOK
  QuarantineEarned
PROPERTIES
  FallbackEndsFirst
