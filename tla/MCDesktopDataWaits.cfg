SPECIFICATION FairSpec
CONSTANTS
  Files = {f1}
  Ops = {o1}
  Mutators = {w1}
  MaxVersion = 1
  MaxBackups = 1
  RetainLatest = 1
  Troubles = {"restore", "finish", "reset", "cleanup", "stop", "start", "exit", "repair", "quit", "io"}
  None = None
  MaxCrashes = 0
CHECK_DEADLOCK FALSE
INVARIANT GatewayQuiet
PROPERTY NobodyWaitsForever
