CONSTANTS
  LeftBars = 1
  RightBars = 1
  Tolerance = 1
  ZoneBasis = "FULL_CANDLE"
  MitigationRule = "MIDPOINT"
  Ratio = 2
  AllowedBlockStatuses = {"ACTIVE", "TOUCHED"}
  AllowedGapStatuses = {"OPEN", "TOUCHED"}
  Histories <- Markets
  Shapes <- SomeShapes
  MaxBars = 10
  Lowest = 0
  Highest = 8
SPECIFICATION Spec
INVARIANTS
  AnalysisNeverAborts
  LevelsAreSound
  FeaturesAgree
PROPERTY NothingIsRepainted
CHECK_DEADLOCK FALSE
