CONSTANTS
  Docs = {a, b}
  MaxLog = 3
  Faults = {"saveReply"}
  MaxFaults = 1
  UseCbl = FALSE
  Job <- SequentialJob
  PoisonDocs = {}
  ClientErrorDocs = {}
SPECIFICATION Spec
PROPERTIES CheckpointCatchesUp
