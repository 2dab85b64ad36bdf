CONSTANTS
  h1 = h1
  h2 = h2
  h3 = h3
  c1 = c1
  e1 = e1
  k1 = k1
  k2 = k2
  NoHash = NoHash
  NoClient = NoClient
  Boot = Boot
  Hash <- MCHash2
  Bad <- MCNoBad
  Client <- MCClient1
  Event <- MCEvent1
  Check <- MCCheck1
  MaxDeploy = 1
  MaxRestart = 1
CHECK_DEADLOCK FALSE
SPECIFICATION Spec
INVARIANTS TypeOK VersionsLoaded RestartRestores
PROPERTY PinsMoveForAReason
