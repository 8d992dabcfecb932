SPECIFICATION Spec
CONSTANTS
  Users = {u1, u2}
  Pairs = {p1, p2, p3}
  Callers = {boot, sync, feed}
  Boot = boot
  SyncCallers = {sync}
  None = None
  MaxRestarts = 1
SYMMETRY PairSymmetry
INVARIANTS TypeOK NoNeedlessRefusal SessionIsTheReaders
PROPERTY SharesOneRefresh
