CONSTANTS
  Docs = {a, b}
  MaxLog = 2
  Faults = {"unreachable", "save", "saveReply", "feed", "send", "fetch", "read", "eof", "crash", "final", "stop"}
  MaxFaults = 2
  UseCbl = FALSE
  Job <- ParallelStreamJob
  PoisonDocs = {}
  ClientErrorDocs = {}
  FeedTypes = {"continuous", "websocket"}
  BatchMax = 2
SPECIFICATION StreamSpec
INVARIANTS StreamTypeOK CheckpointCovered NoGap
PROPERTIES WebSocketMonotone StreamHandlesAll StreamCheckpointCatchesUp
CHECK_DEADLOCK FALSE
