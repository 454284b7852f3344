CONSTANTS
  None = None
  BatchLimit = 1
  MaxSequence = 2
  MaxSessions = 2
  Installation = {i1, i2}
  Paired = i1
  MaxLoads = 2
SPECIFICATION FairSpec
INVARIANTS TypeOK RowIsConsistent CursorIsHonest
PROPERTIES ImplementsProjection ProjectionCatchesUp BoardSettles
CHECK_DEADLOCK FALSE
