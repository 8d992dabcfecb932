SPECIFICATION Spec
CONSTANTS
  None = None
  t1 = t1
  t2 = t2
  t3 = t3
  Tracks = {t1, t2, t3}
  MaxSkips = 2
  MaxEvents = 1
  MaxVisits = 1
  LastSentence = 2
  MaxPresses = 3
  MaxTurns = 1
  MaxAudio = 2
  MaxStarts = 2
  MaxPlays = 2
  MaxToggles = 2
  Chapters = {1, 2}
  Highlights = {"own", "other"}
  RangeOf <- HighlightPlaces
  SpokenSentences <- ReadSentences
  SpokenWords <- ReadWords
  Matches <- FoundMatches
  MaxAsks = 3
SYMMETRY Symmetry
INVARIANTS
  TypeOK
  PlayerFollowsQueue
  VoiceFollowsSession
  LayersAreShown
  TimerActsForItsOwn
CHECK_DEADLOCK FALSE
