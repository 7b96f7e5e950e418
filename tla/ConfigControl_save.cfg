SPECIFICATION TimerSpec
CONSTANTS
  NONE = NONE
  Subjects = {"config", "log"}
  MaxValue = 1
  MaxFaults = 0
  QueueSize = 6
  BootCalls = {}
  PowerDowns = TRUE
INVARIANTS NoChangeForgotten PowerDownKeepsData
PROPERTIES ChangesReachFlash PowerDownCompletes
