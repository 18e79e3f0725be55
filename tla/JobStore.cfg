CONSTANTS
  x = x
  y = y
  j1 = j1
  j2 = j2
  ui = ui
  api = api
  Servers = {ui}
  Kinds = {"input", "output", "table"}
  Ids = {x, y}
  Jobs = {j1}
  None = None
  MaxEdits = 4
  MaxFaults = 1
SPECIFICATION Spec
INVARIANTS JobStoreTypeOK
PROPERTIES KeepsRegistry
CHECK_DEADLOCK FALSE
