CONSTANTS
  MaxGeneration = 3
  MaxVersion = 3
  MaxFailures = 1
  MaxCrashes = 0
SPECIFICATION Spec
INVARIANTS
  DirtyAfterFailure
CHECK_DEADLOCK FALSE
