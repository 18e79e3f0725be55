CONSTANTS
  m1 = m1
  m2 = m2
  Names = {m1, m2}
  JobMapping = None
  None = None
  OldStore = TRUE
  CkptFile = "good"
  Stdout = FALSE
  Overlap = FALSE
  MapCrash = FALSE
  MaxEdits = 2
  MaxStops = 2
SPECIFICATION Spec
INVARIANTS StartTypeOK PipelineKept MappingsFollowDisk
PROPERTIES ComesUp
CHECK_DEADLOCK FALSE
