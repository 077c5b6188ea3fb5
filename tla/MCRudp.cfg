SPECIFICATION Spec
CONSTANTS
  Hosts = {"tsp1", "tsp2"}
  RTTENGINE_TMIN = 2
  RTTENGINE_TMAX = 9
  RTTENGINE_MAXRTT = 3
  RTTENGINE_MAXRT = 8
  RTOs <- MCRTOs
  MaxExchanges = 3
INVARIANTS
  TypeOK
  RightAnswer
  SendsBounded
  BackoffNeedsPeer
  RetransmitInTime
PROPERTIES
  ExchangeEnds
