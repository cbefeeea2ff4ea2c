SPECIFICATION Spec
CONSTANTS
  Sessions = {s1}
  Items = {i1, i2}
  Sends = {d1, d2}
  MaxUps = 2
  MaxCrashes = 1
  Troubles = {"steer", "cancel", "edit", "remove", "lost", "write"}
  None = None
CHECK_DEADLOCK FALSE
SYMMETRY Symmetry
INVARIANTS SentOnce QueueWaitsItsTurn
PROPERTIES NoneLost
