SPECIFICATION Spec
CONSTANTS
  Launchers = {l1}
  Hosts = {h1, h2}
  Skews = {0, 1, 3}
  Grace = 2
  ExpiresAt = 4
  Together = FALSE
  MaxTime = 4
  MaxRevision = 3
  None = None
SYMMETRY Symmetry
INVARIANTS RevocationSpreads ClockDebtIsBounded
PROPERTY AnchorOnlyGrows
