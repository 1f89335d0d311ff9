SPECIFICATION FairSpec
CONSTANTS
  MaxBlocks = 2
  Length = 3
  Siblings = {1, 3}
  MaxTries = 2
  MaxLong = 3
  MaxOut = 1
INVARIANTS
  OneMessage
  EveryAttemptAccounted
PROPERTIES
  RequestEnds
