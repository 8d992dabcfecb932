SPECIFICATION Spec
CONSTANTS
  None = None
  x1 = x1
  x2 = x2
  c1 = c1
  c2 = c2
  Queries = {x1, x2}
  Types = {t1}
  Tiers = {r1}
  Pages = 3
  MaxRequests = 6
  MaxTyped = 3
  Words = {x1, x2}
  MaxSessions = 4
  MaxEvents = 5
  MaxHeard = 2
  Vocabulary = {x1, x2}
  Units = 2
  UnitLength = 3
  TermLength = 2
  MaxAsked = 2
  Titles = {x1, x2}
  Ticks = {c1, c2}
  Answerers = {"card", "page"}
  MaxOffers = 2
  MaxGrants = 2
  MaxFailures = 1
  MaxRestarts = 1
  Books = {x1, x2}
  Ids = {i1, i2, i3}
  Callers = {c1, c2}
  BookLimit = 1
  Writing = FALSE
  MaxStarts = 3
  MaxDeletions = 1
  MaxOther = 1
  MaxDownloadRestarts = 1
  Versions = {"short", "long", "huge"}
  Chunks <- Lengths
  MaxChunks = 3
  Fetchers = {f1, f2}
  MaxReplaced = 1
  MaxFetchRestarts = 1
SYMMETRY Symmetry
INVARIANTS
  TypeOK
  ContentMatchesRows
  WholeUnlessSlip
  ListIsOfTheSearch
  MicFollowsSession
  HitsAreTheOccurrences
PROPERTIES
  LimitKept
  OffersAreKept
CHECK_DEADLOCK FALSE
