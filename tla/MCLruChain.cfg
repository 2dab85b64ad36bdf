CONSTANTS
  u1 = u1
  u2 = u2
  u3 = u3
  u4 = u4
  NoUrl = NoUrl
  Url <- MCUrl
  MaxUse = 6
SPECIFICATION ChainSpec
INVARIANT ChainSound
PROPERTY EvictsLeastRecentlyUsed
