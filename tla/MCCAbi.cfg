SPECIFICATION CAbiSpec
CONSTANTS
  t1 = t1
  t2 = t2
  t3 = t3
  b1 = b1
  b2 = b2
  b3 = b3
  Token <- MCToken
  Number <- MCNumber
  Thread <- MCThread
  Block <- MCBlock
  ConfigText <- MCConfigText
  Default <- MCDefault
  Null = Null
CONSTRAINT ThirdWithDefault
INVARIANTS
  CAbiTypeOK
  BlocksOwnedOnce
  OutputsReadable
  EndpointReadsBack
  OnlyRacesMisuse
PROPERTIES
  OutlivesHandle
CHECK_DEADLOCK FALSE
