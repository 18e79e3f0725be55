CONSTANTS
  Docs = {a, b}
  MaxLog = 3
  Faults = {"fetch"}
  MaxFaults = 1
  UseCbl = FALSE
  Job <- SequentialFetchJob
  PoisonDocs = {}
  ClientErrorDocs = {}
SPECIFICATION Spec
INVARIANTS CheckpointDelivered
