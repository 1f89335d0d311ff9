SPECIFICATION FairSpec
CONSTANTS
  Runners = {r1, r2}
  Manager = Manager
  None = None
  MaxCancels = 3
  MaxStops = 2
  MaxFailures = 1
  MaxBoth = 4
INVARIANTS
  ProcessIsOwned
  AliasesExact
PROPERTIES
  StopAllLeavesNothing
  NobodyWaitsForever
