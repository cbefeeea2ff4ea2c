SPECIFICATION LinkFairSpec
CONSTANTS
  Users = {u1, u2}
  Slots = {r1}
  MaxGateways = 3
  MaxLinkFaults = 3
  MaxRetries = 2
CHECK_DEADLOCK FALSE
INVARIANT StatusIsTrue
PROPERTIES GapHeals GatewayIsReached
