CONSTANTS
  m1 = m1
  m2 = m2
  Names = {m1, m2}
  JobMapping = m1
  None = None
  OldStore = TRUE
  CkptFile = "good"
  Stdout = FALSE
  Overlap = FALSE
  MapCrash = FALSE
  MaxEdits = 2
  MaxStops = 0
SPECIFICATION Spec
PROPERTY ComesUp
CHECK_DEADLOCK FALSE
