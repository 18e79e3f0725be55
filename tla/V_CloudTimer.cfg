CONSTANTS
  a = a
  b = b
  Docs = {a, b}
  Closer = Closer
  Buffered = {TRUE}
  OnDelete = "delete"
  KeyByRev = FALSE
  MaxDocs = 2
  MaxRetries = 2
  Halt = TRUE
  SkipErrors = FALSE
  Faults = {"cancelled", "abandoned"}
  UniqueSecond = TRUE
  MaxFaults = 2
  MaxRev = 2
  MaxSecond = 8
SPECIFICATION Spec
INVARIANT NoneLost
CHECK_DEADLOCK FALSE
