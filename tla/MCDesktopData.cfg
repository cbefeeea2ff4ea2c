SPECIFICATION Spec
CONSTANTS
  Files = {f1, f2}
  Ops = {o1}
  Mutators = {w1}
  MaxVersion = 2
  MaxBackups = 2
  RetainLatest = 1
  Troubles = {"io", "undo", "backup", "restore", "delete", "rename", "crash"}
  None = None
  MaxCrashes = 2
SYMMETRY Symmetry
CHECK_DEADLOCK FALSE
INVARIANTS NothingLost RestoreReport
PROPERTY BackupIsSnapshot
