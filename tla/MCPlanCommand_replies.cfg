SPECIFICATION FairSpec
CONSTANTS
  c1 = c1
  c2 = c2
  N = 2
  Asks = {1}
  Chat = {c1, c2}
  ChatOf <- SameChat
  Initially <- OnForOne
  PollLimit = 2
  MaxCrashes = 1
  MaxEdits = 1
  MaxFailures = 1
INVARIANTS
  OneEventPerRequest
PROPERTIES
  RepliesKeepPromise
  EveryRequestAnswered
CHECK_DEADLOCK FALSE
