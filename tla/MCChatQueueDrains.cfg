SPECIFICATION FairSpec
CONSTANTS
  Sessions = {s1, s2}
  Items = {i1, i2}
  Sends = {d1}
  MaxUps = 2
  MaxCrashes = 1
  Troubles = {"remove"}
  None = None
CHECK_DEADLOCK FALSE
PROPERTIES QueueDrains
