CONSTANTS
  a = a
  b = b
  Docs = {a, b}
  Closer = Closer
  Buffered = {FALSE}
  OnDelete = "delete"
  KeyByRev = FALSE
  MaxDocs = 2
  MaxRetries = 2
  Halt = TRUE
  SkipErrors = FALSE
  Faults = {"permanent"}
  UniqueSecond = TRUE
  MaxFaults = 2
  MaxRev = 2
  MaxSecond = 8
SPECIFICATION Spec
INVARIANT HoldsCheckpoint
CHECK_DEADLOCK FALSE
