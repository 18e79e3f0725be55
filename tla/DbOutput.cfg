CONSTANTS
  a = a
  b = b
  c = c
  Docs = {a, b}
  FirstMapped = {a, b}
  DeleteInsert = TRUE
  SyncCommit = TRUE
  MaxRetries = 2
  Halt = TRUE
  SkipErrors = FALSE
  Faults = {"connection", "reply", "connect", "deadlock", "data", "mapping", "crash"}
  MaxFaults = 2
  MaxRev = 2
  NoTask = NoTask
SPECIFICATION Spec
INVARIANTS DbTypeOK CheckpointStored RowsWhole
PROPERTIES SendsEnd
CHECK_DEADLOCK FALSE
