SPECIFICATION FairSpec
CONSTANTS
  MaxFlight = 2
  Delay = 2
  Minute = 2
  Early = 4
  MinRecall = 1
  PitTimeouts <- MCPitTimeouts
  Timeouts <- MCTimeouts
  Longest = 8
  MaxInputs = 1
INVARIANTS LockIsReminded LockIsTimed StaysLocked
PROPERTIES LockEnds
