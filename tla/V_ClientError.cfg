CONSTANTS
  Docs = {a, b}
  MaxLog = 3
  Faults = {}
  MaxFaults = 0
  UseCbl = TRUE
  Job <- QueueJob
  PoisonDocs = {}
  ClientErrorDocs = {b}
SPECIFICATION Spec
PROPERTIES EveryChangeHandled
