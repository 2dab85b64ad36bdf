CONSTANTS
  p1 = p1
  p2 = p2
  p3 = p3
  NoPid = NoPid
  Unknown = Unknown
  NoFile = NoFile
  Process <- MCProcess
  Async <- MCAsync
  MaxRuns = 1
  RetryAttempts = 2
  MaxKills = 1
CHECK_DEADLOCK FALSE
SPECIFICATION FairSpec
INVARIANTS MutualExclusion TimeoutForOneHolder
PROPERTIES RunsEnd LockIsReleased
