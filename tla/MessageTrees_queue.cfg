CONSTANTS
  Prompts = {m1, m2, m3}
  NoPrompt = NoPrompt
  MaxCommands = 1
  LastWrite = 0
SPECIFICATION Spec
SYMMETRY Symmetry
INVARIANTS
  NoStrandedWork
  TurnsFollowEachOther
  IndexExact
PROPERTIES
  FirstComeFirstServed
CHECK_DEADLOCK FALSE
