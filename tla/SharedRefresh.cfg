SPECIFICATION FairSpec
CONSTANTS
  Requests = {r1, r2}
  Claude = Claude
  Dead = Dead
  None = None
  MaxTokens = 4
  MaxFaults = 3
PROPERTIES
  FileOnlyAdvances
  OnePostPerToken
  PendingIsKept
  RequestsEnd
