CONSTANTS
  Docs = {a, b, c}
  MaxLog = 3
  Faults = {"save", "saveReply", "feed", "send", "sendReply", "crash", "stop", "expire"}
  MaxFaults = 2
  UseCbl = TRUE
  Job <- QueueJob
  PoisonDocs = {b}
  ClientErrorDocs = {c}
SPECIFICATION Spec
INVARIANTS CheckpointDelivered QueueKeepsChange CheckpointCovered
PROPERTIES CheckpointMonotone KeepsPromise
