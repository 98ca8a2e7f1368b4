SPECIFICATION FairSpec
CONSTANTS
  Prices = {1, 2}
  Frames <- MCFrames
  Depth = 1
  SafetyMargin = 1
  DigestFrame = 2
  DigestExtra = 1
  Lookback = 2
  MaxLate = 1
  MaxAge = 3
  Timeout = 1
  MaxRetries = 1
  MaxMessages = 3
  MaxWire = 2
  Past <- MCPast
  Warm = 1
  Horizon = 8
  MaxRows = 3
  Symbol = "gold"
  Switch = 4
  Back = 2
  LowBarCount = 2
  StaleAfter = 1
INVARIANTS
  ObservationIsOneInstant
  ReactionIsTrue
  FileIsNotGuessed
PROPERTIES
  ReadingEnds
CHECK_DEADLOCK FALSE
