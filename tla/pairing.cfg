CONSTANTS
  None = None
  Installation = {i1}
  Device = {d1}
  Code = {k1, k2}
  Request = {r1, r2}
  Limit = 2
  Window = 2
  MaxTime = 2
  MaxCount = 3
SPECIFICATION FairSpec
INVARIANTS TypeOK CodePairsOnce StoredTokenIsLive RateBound RefusalsAreEarned
PROPERTIES ImplementsOneTime PairingEnds
CHECK_DEADLOCK FALSE
