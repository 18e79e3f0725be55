CONSTANTS
  m1 = m1
  m2 = m2
  Names = {m1, m2}
  JobMapping = None
  None = None
  OldStore = TRUE
  CkptFile = "good"
  Stdout = FALSE
  Overlap = FALSE
  MapCrash = FALSE
  MaxEdits = 0
  MaxStops = 0
SPECIFICATION Spec
INVARIANT CheckpointPreserved
CHECK_DEADLOCK FALSE
