CONSTANTS
  a = a
  b = b
  c = c
  Docs = {a, b}
  FirstMapped = {a, b}
  DeleteInsert = TRUE
  SyncCommit = FALSE
  MaxRetries = 2
  Halt = TRUE
  SkipErrors = FALSE
  Faults = {"crash"}
  MaxFaults = 1
  MaxRev = 2
  NoTask = NoTask
SPECIFICATION Spec
INVARIANTS CheckpointStored
CHECK_DEADLOCK FALSE
