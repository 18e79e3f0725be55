CONSTANTS
  Jobs = {j1}
  NoJob = none
  MaxPipelines = 4
  MaxThreads = 5
  MaxSlow = 0
  Ends = {"returns", "raises", "raisesWhenTold"}
  Operators = {o1}
  Main = main
  Monitor = monitor
  Ops = {"start", "stop", "restart"}
  MaxCalls = 1
  Limit = 1
  Early = FALSE
  MaxAttempt = 2
SPECIFICATION Spec
INVARIANTS NoOrphan
CHECK_DEADLOCK FALSE
