SPECIFICATION Spec
CONSTANTS
  Sources <- TwoSources
  PumpSource = {"pump"}
  Outside = {"config"}
  Critical = {}
  HighLevel = {}
  CustomFor <- Custom
  Relay = {"ALL_ALARMS", "CUSTOM"}
  LogSize = 2
  MaxEvents = 4
INVARIANTS LogFitsErrors RelaysFitAlarms ResetIsComplete
