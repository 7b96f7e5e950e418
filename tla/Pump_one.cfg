SPECIFICATION Spec
CONSTANTS
  NONE = NONE
  Pumps = {1}
  Initial <- Enabled
  Inputs <- PumpInputs
  Configs <- Changing
  NewConfigs <- Changing
  IgnoreTime = 1
  MaxTime = 2
  Prompt = FALSE
CHECK_DEADLOCK FALSE
INVARIANTS DelayEnds FaultIsCleared DisabledIsOff RelaysAgree
