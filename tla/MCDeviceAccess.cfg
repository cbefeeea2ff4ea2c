SPECIFICATION Spec
CONSTANTS
  Requests = {r1, r2}
  Keys = {k1, k2}
  Rpm = 1
  Concurrent = 1
  Window = 1
  Timeout = 1
  Lease = 2
  ExpiresAt = 1
  Troubles = {}
  MaxTime = 3
  MaxTokens = 3
  None = None
SYMMETRY Symmetry
INVARIANTS LimitsHold WithdrawalTakesHold SecretIsKept
CHECK_DEADLOCK FALSE
