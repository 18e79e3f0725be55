CONSTANTS
  x = x
  y = y
  j1 = j1
  j2 = j2
  ui = ui
  api = api
  Servers = {ui, api}
  Kinds = {"input", "output", "table"}
  Ids = {x, y}
  Jobs = {j1}
  None = None
  MaxEdits = 2
  MaxFaults = 0
SPECIFICATION Spec
PROPERTY KeepsRegistry
CHECK_DEADLOCK FALSE
