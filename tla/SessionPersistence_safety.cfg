CONSTANTS
  MaxGeneration = 3
  MaxVersion = 3
  MaxFailures = 1
  MaxCrashes = 1
SPECIFICATION FairSpec
INVARIANTS
  ReturnedIsDurable
  ChangeIsPending
PROPERTIES
  FileNeverGoesBack
  ChangesLandAndCallsReturn
CHECK_DEADLOCK FALSE
