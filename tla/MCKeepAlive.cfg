SPECIFICATION Spec
CONSTANTS
  Loops = {"TunMainLoop", "tspPerformTunnelLoop"}
  Keepalives = {TRUE, FALSE}
  Lifetimes = {TRUE, FALSE}
  Intervals <- MCIntervals
  KA_ECHO_REPLY_TIMEOUT = 2
  KA_NUM_CONSEC_TIMEOUT = 3
  Faults = TRUE
INVARIANTS
  TypeOK
  FreedAfterThread
  TimeoutJustified
  InsertedLast
PROPERTIES
  StopEnds
  SilenceDetected
