SPECIFICATION Spec
CONSTANTS
  Kind = "progress"
  Ids = {p}
  Tasks = {t1}
  None = None
  Skew = 0
  MaxRetries = 2
  MaxEdits = 2
  MaxRemote = 0
  MaxBooks = 0
  MaxFaults = 1
  MaxCrashes = 0
INVARIANTS OnlyOthersWinConflicts
