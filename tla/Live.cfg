SPECIFICATION Spec
CONSTANTS
  None = None
  Users = {u1, u2}
  Pairs = {p1, p2}
  Requests = {boot, sync}
  Boot = boot
  SyncRequests = {sync}
  Titles = {e1, e2}
  Answerers = {"card"}
  Ticks = {t1}
  MaxOffers = 2
  MaxGrants = 2
  MaxFailures = 1
  MaxRestarts = 0
  Books = {b1, b2}
  Ids = {i1, i2}
  Callers = {c1, c2}
  BookLimit = 1
  Writing = TRUE
  MaxStarts = 2
  MaxDeletions = 1
  MaxOther = 0
  MaxDownloadRestarts = 0
  Screens = {s1, s2}
  MaxFlips = 2
  MaxOutages = 2
  MaxRulings = 1
PROPERTIES
  CallsSettle
  OfferIsShown
  WritersServed
  RefusalShutsBook
CHECK_DEADLOCK FALSE
