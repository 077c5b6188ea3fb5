SPECIFICATION Spec
CONSTANTS
  Original = orig
  b1 = b1
  b2 = b2
  b3 = b3
  Brokers = {b1, b2, b3}
  IPv6Brokers = {b3}
  MAX_REDIRECT_BROKERS_IN_LIST = 2
  retry_delay = 1
  retry_delay_max = 5
  CLIENT_VERSION_INDEX_OLDEST = 3
  UINT8 = 256
  Confs <- RotationConfs
  Redirections <- MCRedirections
  BrokerFiles <- RotationFiles
  LastServerFiles <- MCLastServerFiles
  Outcomes <- NoServerReachable
  ResourceFaults = FALSE
  FailedCap = 0
PROPERTIES
  EveryServerTried
INVARIANTS
  BackoffSchedule
