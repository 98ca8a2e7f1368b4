SPECIFICATION FairSpec
CONSTANTS
  NChunks = 2
  MaxRetries = 1
  Publishing = TRUE
  MaxCrashes = 2
PROPERTIES
  ReviewKeepsPromise
  EveryIntentCloses
CHECK_DEADLOCK FALSE
