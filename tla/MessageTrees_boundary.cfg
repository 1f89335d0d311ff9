CONSTANTS
  Prompts = {m1, m2}
  NoPrompt = NoPrompt
  MaxCommands = 2
  LastWrite = 2
SPECIFICATION FairSpec
INVARIANTS
  CommandBoundary
  StoreHasTheTrees
  StoreRestorable
  ClearIsDurable
PROPERTIES
  CancelIsFinal
  QueuedIsServed
CHECK_DEADLOCK FALSE
