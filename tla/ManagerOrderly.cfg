CONSTANTS
  Jobs = {j1, j2}
  NoJob = none
  MaxPipelines = 4
  MaxThreads = 4
  MaxSlow = 0
  Ends = {"returns"}
  Operators = {o1}
  Main = main
  Monitor = monitor
  Ops = {"start", "stop", "restart", "restart_all", "offline", "online"}
  MaxCalls = 4
  Limit = 2
  Early = FALSE
  MaxAttempt = 2
SPECIFICATION Spec
INVARIANTS NoOrphan ThreadFields
CHECK_DEADLOCK FALSE
