CONSTANTS
  Jobs = {j1}
  NoJob = none
  MaxPipelines = 4
  MaxThreads = 5
  MaxSlow = 1
  Ends = {"raises", "raisesWhenTold"}
  Operators = {o1, o2}
  Main = main
  Monitor = monitor
  Ops = {"start", "stop", "shutdown"}
  MaxCalls = 1
  Limit = 2
  Early = TRUE
  MaxAttempt = 2
SPECIFICATION Spec
PROPERTIES RunningNotReplaced CrashedJobRestarted
CHECK_DEADLOCK FALSE
