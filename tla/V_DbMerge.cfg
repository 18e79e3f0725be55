CONSTANTS
  a = a
  b = b
  c = c
  Docs = {a, b}
  FirstMapped = {a, b}
  DeleteInsert = FALSE
  SyncCommit = TRUE
  MaxRetries = 2
  Halt = TRUE
  SkipErrors = FALSE
  Faults = {"reply"}
  MaxFaults = 1
  MaxRev = 2
  NoTask = NoTask
SPECIFICATION Spec
INVARIANTS NoRowTwice
CHECK_DEADLOCK FALSE
