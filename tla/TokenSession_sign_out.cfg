SPECIFICATION Spec
CONSTANTS
  Users = {u1, u2}
  Pairs = {p1, p2, p3}
  Callers = {boot, sync}
  Boot = boot
  SyncCallers = {sync}
  None = None
  MaxRestarts = 0
INVARIANTS SignOutSticks
