CONSTANTS
  a = a
  b = b
  Docs = {a, b}
  Closer = Closer
  Buffered = {TRUE, FALSE}
  OnDelete = "delete"
  KeyByRev = FALSE
  MaxDocs = 2
  MaxRetries = 2
  Halt = TRUE
  SkipErrors = FALSE
  Faults = {"transient", "reply", "permanent", "cancelled", "abandoned", "crash"}
  UniqueSecond = TRUE
  MaxFaults = 2
  MaxRev = 2
  MaxSecond = 8
SPECIFICATION Spec
INVARIANTS CloudTypeOK CheckpointInStore OnlyCrashOrTimerLoses DeletedGone
PROPERTIES CloudSendsEnd BufferDrains
CHECK_DEADLOCK FALSE
