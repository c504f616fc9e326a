SPECIFICATION SignedSpec
CONSTANTS
  None = None
  Endpoint <- MCEndpoint
  Client <- MCClient
  Caller = {c1}
  Option <- MCOption
  MaxCalls = 2
  Second = 2
  Day = 2
  MaxExpires = 3
  Skew = 1
  Account <- MCAccount
  Asked <- MCAsked
  LinkAsked <- MCLinkAsked
  Lifetime = {0, 1, 3, 4}
  Requested <- MCRequested
  MaxCallTime = 4
  MaxTime = 9
INVARIANTS
  TypeOK
  RotationCovers
  EveryAttemptVerifies
  ObjectAddressed
  LinkAccepted
  LinkBound
PROPERTIES
  KeepsContract
CHECK_DEADLOCK FALSE
