SPECIFICATION Spec
CONSTANTS
  Payloads <- MCPayloads
  Leftovers <- MCLeftovers
  LongAddresses = {"long"}
  MAX_REDIRECT_BROKERS_IN_LIST = 3
  ECHO_REQUEST_ATTEMPTS = 1
  ECHO_REQUEST_TIMEOUT = 3
  Rtts = {1, 3}
  needV6 = FALSE
  MaxRedirects = 2
INVARIANTS
  SortedByEcho
  FreedOnlyUncreated
PROPERTY HandlingEnds
