SPECIFICATION FairSpec
CONSTANTS
  TopLevel = 3
  Configs <- Pits
INVARIANTS TypeOK WithinLimits HighLevelPumps DryPitIsLeft
PROPERTIES NoNeedlessChange HighLevelIsPumped
