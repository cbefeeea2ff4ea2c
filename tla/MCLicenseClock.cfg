SPECIFICATION Spec
CONSTANTS
  Launchers = {l1}
  Hosts = {h1}
  Skews = {0}
  Grace = 2
  ExpiresAt = 4
  Together = FALSE
  MaxTime = 4
  MaxRevision = 2
  None = None
INVARIANT ActiveIsAllowed
