CONSTANTS
  a = a
  b = b
  c = c
  Docs = {a, b, c}
  FirstMapped = {a, b, c}
  DeleteInsert = TRUE
  SyncCommit = TRUE
  MaxRetries = 3
  Halt = TRUE
  SkipErrors = FALSE
  Faults = {"connection"}
  MaxFaults = 1
  MaxRev = 1
  NoTask = NoTask
SPECIFICATION Spec
INVARIANTS RetriesAreForFailures
CHECK_DEADLOCK FALSE
