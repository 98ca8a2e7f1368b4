SPECIFICATION Bounded
CONSTANTS
  N = 2
  Backoff <- TwoDelays
  ConfigurationBackoff = 4
  DeferRetry = 1
  MaxEventAge = 2
  MaxRunAge = 1
  MaxTick = 1
  MaxEvents = 1
  MaxLag = 2
  MaxRest = 1
  MaxSubmits = 2
  MaxHands = 1
  MaxAsks = 2
PROPERTY BacklogStaysPut
PROPERTY StaleAnalysisNeverIngested
PROPERTY NoRunStarves
PROPERTY EveryEventEnds
