SPECIFICATION Spec
CONSTANTS
  nesting = 2
  questions = 6
  insideOut = FALSE
  PropertyIds = {"a", "b"}
  Repertoires <- OwnerPrograms
  MaxFrames = 6
  MaxRecords = 9
INVARIANTS
  Agrees
  Released
  FactsHold
  OwnershipHolds
  LivesWhileRunning
  LeavesNothing
CHECK_DEADLOCK FALSE
