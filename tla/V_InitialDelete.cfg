CONSTANTS
  Docs = {a, b}
  MaxLog = 3
  Faults = {}
  MaxFaults = 0
  UseCbl = FALSE
  Job <- FirstSyncFetchJob
  PoisonDocs = {}
  ClientErrorDocs = {}
SPECIFICATION Spec
INVARIANTS DeletesReachOutput
