SPECIFICATION Spec
CONSTANTS
  Configs <- MCConfigs
  Servers <- MCServers
  Keys <- MCKeys
  Offers <- MCOffers
  Answers <- MCAnswers
  Redirections <- MCRedirections
  Leftovers <- MCLeftovers
  Locals = {"l1", "l2"}
  MaxSessions = 2
  MaxKills = 1
  MaxFailures = 1
  BUFFER_LEN = 8
  BUFFER_GROWTH = 16
  MAX_ALLOC = 1000
INVARIANTS
  TunnelAsGranted
  NothingLeft
  KeyRemembered
  OutcomeAsAssumed
