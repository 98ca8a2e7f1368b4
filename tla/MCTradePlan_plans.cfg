CONSTANTS
  Menu <- SomeMenu
  Price = 4
  MaxZones = 2
  MaxShown = 2
  News = {"n1", "n2"}
  Unfit = {"n2"}
  MaxNews = 1
  MaxOffered = 5
SPECIFICATION TradePlanSpec
INVARIANTS
  SelectionIsJustified
  AcceptedCopyIsShown
CHECK_DEADLOCK FALSE
