SPECIFICATION MCSpec
CONSTANTS
  Kind = "progress"
  Ids = {p}
  Tasks = {t1}
  None = None
  Skew = 2
  MaxRetries = 2
  MaxEdits = 2
  MaxRemote = 2
  MaxBooks = 1
  MaxFaults = 1
  MaxCrashes = 1
  Fields = {f, g}
  Savers = {s1, s2}
  Nil = Nil
  MaxSaves = 2
  MaxTheirs = 1
  MaxSyncs = 2
  MaxFailures = 1
SYMMETRY Symmetry
CONSTRAINT TwoMeet
INVARIANTS MCTypeOK ShownEditIsSafe QuietRunSettles PreferenceIsKept
CHECK_DEADLOCK FALSE
