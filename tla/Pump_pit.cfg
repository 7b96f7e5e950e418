SPECIFICATION FairSpec
CONSTANTS
  NONE = NONE
  Pumps = {1, 2}
  Initial <- Enabled
  Inputs <- PitInputs
  Configs <- Pit
  NewConfigs <- Never
  IgnoreTime = 1
  MaxTime = 3
  Prompt = TRUE
CHECK_DEADLOCK FALSE
PROPERTIES EventsApart DoesAsAsked
