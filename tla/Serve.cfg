SPECIFICATION FairSpec
CONSTANTS
  Ids <- MCIds
  Tabs = {t1}
  Clicks = {"c1"}
  CacheLimit = 1
  HistoryLimit = 2
  MaxFaults = 1
  Unchanged = Unchanged
  None = None
INVARIANTS HistoryFollowsTheBroker
PROPERTIES PageKeepsUp DecidedAsClicked RelayIsTrue
CHECK_DEADLOCK FALSE
