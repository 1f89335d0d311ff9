CONSTANTS
  Requests = {r1, r2, r3}
  Limit = 2
  Window = 3
  MaxConcurrency = 2
  MaxTries = 2
  Delay = 1
  None = None
SPECIFICATION FairSpec
INVARIANTS
  RateBound
  NoQuotaLost
PROPERTIES
  NeverWhileBlocked
  FirstComeFirstAdmitted
  RequestsEnd
