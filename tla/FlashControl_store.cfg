SPECIFICATION FairSpec
CONSTANTS
  Val = {v1, v2}
  RetryCnt = 5
  NONE = NONE
  DAMAGED = DAMAGED
  NWords = 1
  MaxFaults = 2
INVARIANTS NothingLost ReturnIsTrue
PROPERTIES ImplementsStore CallsEnd
