SPECIFICATION Spec
CONSTANTS
  Requests = {r1, r2}
  Claude = Claude
  Dead = Dead
  None = None
  MaxTokens = 3
  MaxFaults = 1
PROPERTIES
  RotatedIsNeverDropped
