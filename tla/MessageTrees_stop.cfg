CONSTANTS
  Prompts = {m1, m2}
  NoPrompt = NoPrompt
  MaxCommands = 2
  LastWrite = 0
SPECIFICATION Spec
SYMMETRY Symmetry
PROPERTIES
  StopDrainsEveryQueue
CHECK_DEADLOCK FALSE
