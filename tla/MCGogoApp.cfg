SPECIFICATION Spec
CONSTANTS
  AutoConnects = {TRUE}
  Prompts = {TRUE}
  Supporteds = {TRUE, FALSE}
  MonitorIds = {1, 2}
  MaxPid = 3
  MaxPending = 1
  MaxDeaths = 1
INVARIANTS
  ClientsBounded
PROPERTIES
  ReplacedMonitorEnds
  Reconnects
