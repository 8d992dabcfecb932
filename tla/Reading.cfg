SPECIFICATION Spec
CONSTANTS
  None = None
  x1 = x1
  x2 = x2
  Attempts = {x1, x2}
  Ttl = 1
  MaxDay = 2
  MaxEditions = 1
  MaxChanges = 2
  FrontPlace = FrontPlace
  Screens = {x1, x2}
  MaxFlips = 2
  MaxOutages = 2
  MaxRulings = 1
  Places = {FrontPlace, x1, x2}
  MaxResends = 1
  MaxMail = 2
  MaxMoves = 1
  MaxResizes = 1
  MaxElsewhere = 1
  MaxOpenings = 2
  PageCount = 2
  Buffer = 0
  MaxBuilds = 2
  MaxScrolls = 2
  MaxFailures = 1
SYMMETRY Symmetry
INVARIANTS
  TypeOK
  OfflineIsAllowed
  LockedStaysShut
  MonitorFollowsBook
  PlaceIsTheReaders
  
CHECK_DEADLOCK FALSE
