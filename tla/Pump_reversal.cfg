SPECIFICATION Spec
CONSTANTS
  NONE = NONE
  Pumps = {1, 2}
  Initial <- Enabled
  Inputs <- LevelInputs
  Configs <- PitShort
  NewConfigs <- Never
  IgnoreTime = 1
  MaxTime = 2
  Prompt = TRUE
CHECK_DEADLOCK FALSE

PROPERTIES ReversalsApart
