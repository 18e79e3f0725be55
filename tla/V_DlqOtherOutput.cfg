CONSTANTS
  j1 = j1
  j2 = j2
  a = a
  s1 = s1
  s2 = s2
  NoEntry = NoEntry
  Jobs = {j1, j2}
  Docs = {a}
  Owner <- OneFeed
  Sinks = {s1, s2}
  Sink <- TwoOutputs
  ApiOps = {}
  Retention = 0
  MaxAttempts = 1
  OwnSecond = TRUE
  MaxClock = 3
  MaxRev = 2
  MaxDown = 0
SPECIFICATION Spec
INVARIANTS QueueKeepsFailure
CHECK_DEADLOCK FALSE
