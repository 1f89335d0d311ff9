SPECIFICATION FairSpec
CONSTANTS
  MaxFrames = 4
  MaxKeepalives = 2
  MaxCancels = 2
INVARIANTS
  ClientSeesTheBody
  LeaseOutlivesBody
PROPERTIES
  LeaseIsReleased
CHECK_DEADLOCK FALSE
