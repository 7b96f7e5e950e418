SPECIFICATION FairSpec
CONSTANTS
  Timer = {"fault", "warning", "other"}
  Other = {"other"}
  Chunk = 2
  Second = 1
  HalfMinute = 1
  ZeroPeriod = 1
  Room = 3
  Unset = Unset
  OtherPeriods <- Periods
  Inputs <- Limits
  Configs <- SomeConfigs
  MaxOther = 1
  Together = FALSE
INVARIANTS TypeOK TimersFit ErrorFitsInput
PROPERTIES TimeoutOnTime ErrorSettles
CHECK_DEADLOCK FALSE
