SPECIFICATION Spec
CONSTANTS
  NONE = NONE
  Subjects = {"alarmLog", "series5"}
  MaxValue = 1
  MaxFaults = 1
  QueueSize = 1
  BootCalls = {{"log"}}
  PowerDowns = FALSE
INVARIANTS UserLogsInSync NoWorkWhileBlocked AlarmShowsErrors
PROPERTIES BootKeepsErased
