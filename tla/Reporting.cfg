SPECIFICATION Spec
CONSTANTS
  Clients = {"public"}
  Methods = {"call"}
  None = none
  Interval = 1
  Heartbeat = 1
  Quiet = 2
  MaxAge = 1
  MaxRequests = 2
  MaxHttp = 1
  MaxCycles = 2
  MaxTime = 3
  MaxFaults = 1
CHECK_DEADLOCK FALSE
INVARIANTS ReportingInv
PROPERTIES SilenceIsBounded LoopGoesOn
