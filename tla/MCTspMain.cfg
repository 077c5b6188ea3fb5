SPECIFICATION Spec
CONSTANTS
  Original = orig
  b1 = b1
  b2 = b2
  b3 = b3
  Brokers = {b1, b2}
  IPv6Brokers = {b2}
  MAX_REDIRECT_BROKERS_IN_LIST = 2
  retry_delay = 1
  retry_delay_max = 2
  CLIENT_VERSION_INDEX_OLDEST = 3
  UINT8 = 4
  Confs <- SafetyConfs
  Redirections <- MCRedirections
  BrokerFiles <- MCBrokerFiles
  LastServerFiles <- MCLastServerFiles
  Outcomes <- AllOutcomes
  ResourceFaults = TRUE
  FailedCap = 0
INVARIANTS
  TypeOK
  BrokerPointerSafe
  ServerDesignated
  DelayInitialised
  WaitBounded
  OldVersionOverTcp
PROPERTIES
  StopEnds
  VersionFallbackEnds
