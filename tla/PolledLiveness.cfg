CONSTANTS
  Docs = {a, b}
  MaxLog = 3
  Faults = {"target", "crash", "send", "sendReply"}
  MaxFaults = 2
  UseCbl = FALSE
  Job <- InitialSyncJob
  PoisonDocs = {}
  ClientErrorDocs = {}
SPECIFICATION Spec
INVARIANTS WorkerTypeOK
PROPERTIES InitialSyncCompletes EveryChangeHandled OutputConverges CheckpointCatchesUp
