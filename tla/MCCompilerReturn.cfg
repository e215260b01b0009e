SPECIFICATION Spec
CONSTANTS
  nesting = 1
  questions = 3
  insideOut = TRUE
  PropertyIds = {"a"}
  Repertoires = {}
  MaxFrames = 0
  MaxRecords = 0
INVARIANTS
  Agrees
CHECK_DEADLOCK FALSE
