SPECIFICATION FairSpec
CONSTANTS
  Providers = {p1, p2}
  Requests = {r1, r2}
  Sweep = Sweep
  MaxGen = 2
INVARIANTS
  NoUseAfterClose
  Inductive
  ShutdownComplete
PROPERTIES
  RetiredOnlyDrains
  ImplementsLifetimes
  BoundedCallsReturn
  RetiredIsClosed
