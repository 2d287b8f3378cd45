CONSTANTS
  Loggers = {l1, l2}
  MaxEvent = 2
  BackupLimit = 2
  AppendFile = FALSE
  MaximumSize = 0
  MaxRecord = 2
SPECIFICATION Spec
INVARIANTS
  Ordered
  NothingVanishes
  StillOpen
  NeverDangling
PROPERTY CloseReturns
