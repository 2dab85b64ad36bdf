CONSTANTS
  a = a
  b = b
  p = p
  q = q
  c1 = c1
  c2 = c2
  NoUrl = NoUrl
  NoThread = NoThread
  Installer = Installer
  Revalidator = Revalidator
  Listed <- MCListed
  Pattern <- MCPattern
  Foreign <- MCPattern
  Target <- MCPattern
  Client <- MCClient
  Setting <- MCSettings
  RedirectLimit = 1
CHECK_DEADLOCK FALSE
SPECIFICATION FairSpec
PROPERTIES RequestsEnd StaleIsRefetched

INVARIANTS OneOwner DirectHashesValidated InstallComplete
