CONSTANTS
  Docs = {a, b}
  MaxLog = 3
  Faults = {"send", "drained"}
  MaxFaults = 2
  UseCbl = FALSE
  Job <- StreamJob
  PoisonDocs = {}
  ClientErrorDocs = {}
  FeedTypes = {"websocket"}
  BatchMax = 2
SPECIFICATION StreamSpec
INVARIANTS CheckpointCovered
CHECK_DEADLOCK FALSE
