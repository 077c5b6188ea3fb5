SPECIFICATION Spec
CONSTANTS
  Original = orig
  b1 = b1
  b2 = b2
  b3 = b3
  Brokers = {b1, b2}
  IPv6Brokers = {}
  MAX_REDIRECT_BROKERS_IN_LIST = 2
  retry_delay = 1
  retry_delay_max = 4
  CLIENT_VERSION_INDEX_OLDEST = 3
  UINT8 = 256
  Confs <- OneTransport
  Redirections <- MCRedirections
  BrokerFiles <- NoBrokerFile
  LastServerFiles <- NoLastServer
  Outcomes <- NoServerReachable
  ResourceFaults = FALSE
  FailedCap = 8
INVARIANT
  DelayDoubled
