SPECIFICATION NewsSpec
CONSTANTS
  Channels <- MCChannels
  Stories = {"s", "t", "u", "v"}
  Relevant = {"s", "t", "u", "v"}
  Similar <- MCSimilar
  TextOf <- MCTextOf
  Score <- MCScore
  Feeds <- MCFeeds
  PageSize = 1
  PageCap = 3
  Budget = 4
  MaxItems = 2
  CuratedItems = 2
  ArticleTypes = {"ANALYSIS", "TRADE_PLAN"}
  Producible = {"ANALYSIS"}
  Sinces = {1, 2}
  RequestedAt = 3
  MaxBrief = 15
  MaxAsked = 2
  Late = {"s"}
  MaxPosts = 1
INVARIANTS
  CompleteIsComplete
  BriefArrives
CHECK_DEADLOCK FALSE
