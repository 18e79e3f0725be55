CONSTANTS
  Docs = {a, b}
  MaxLog = 3
  Faults = {"send", "crash"}
  MaxFaults = 3
  UseCbl = TRUE
  Job <- QueueJob
  PoisonDocs = {}
  ClientErrorDocs = {}
SPECIFICATION Spec
PROPERTIES NoStaleOverwrite
