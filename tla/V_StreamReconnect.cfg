CONSTANTS
  Docs = {a, b}
  MaxLog = 3
  Faults = {"read"}
  MaxFaults = 1
  UseCbl = FALSE
  Job <- StreamJob
  PoisonDocs = {}
  ClientErrorDocs = {}
  FeedTypes = {"continuous"}
  BatchMax = 2
SPECIFICATION StreamSpec
PROPERTIES ReconnectsFromCursor
CHECK_DEADLOCK FALSE
