CONSTANTS
  u1 = u1
  u2 = u2
  u3 = u3
  r1 = r1
  r2 = r2
  NoUrl = NoUrl
  NoReq = NoReq
  Url <- MCUrl
  Req <- MCReq
  Setting <- MCSettings
  MaxVersion = 1
CHECK_DEADLOCK FALSE
SPECIFICATION FairSpec
INVARIANTS InSync SavedInSync WithinMaxSize
PROPERTIES AlwaysAnswered NoStaleAfterMutation
