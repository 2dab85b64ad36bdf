CONSTANTS
  root = root
  a = a
  Url <- MCUrl
  Torn = Torn
  Root = root
  Entry = a
  Setting <- MCSetting
  Guards = 2
  MaxNav = 3
  MaxTravel = 1
CHECK_DEADLOCK FALSE
SPECIFICATION FairSpec
INVARIANTS LatestIsRunning PromisesTellEvents ShowsLastSuccess UrlFollowsState
PROPERTIES DecidesByPriority PromisesSettle
