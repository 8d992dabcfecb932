---------------------------- MODULE ReadingProofs ----------------------------
(* Proofs about what is read and listened to: SleepTimer (the timer ends what *)
(* it was started for), PdfScroll (what is on screen is drawn, and no more    *)
(* canvases than the window has are kept), ReadingPlace (the place kept of a  *)
(* book is the reader's), AudioQueue (what is heard is the queue's, and may   *)
(* be heard) and SpeechSession (the voice is the session's); for any pages,   *)
(* places, timers, audiobooks, sentences and bounds.                          *)
EXTENDS SleepTimer, PdfScroll, ReadingPlace, AudioQueue, SpeechSession,
        FiniteSetTheorems, SequenceTheorems, TLAPS

(* SleepTimer.                                                              *)

(* As long as no timer ended while its notification was being scheduled, only  *)
(* the timer started last has one, it is known by its id or its id is on its   *)
(* way, and none is left when there is no timer.                               *)
OnTime ==
  ~outrun =>
    /\ \A n \in Timers : schedule[n] # "none" => n = armed /\ timer.phase # "idle"
    /\ \A n \in posted : n = armed /\ timer.phase # "idle"
    /\ \A n \in posted : n = kept \/ schedule[n] = "posting"

(* Once the timer fired, nothing that would be heard is on its way either.     *)
NothingComes ==
  timer.phase = "fired" /\ ~asked => ~listening.on /\ ~listening.loading /\ ~resuming

(* The mark of a pause for text to speech, and then the wait to resume it, go  *)
(* with a player that is silent for that reason.                               *)
OwnPause ==
  ~retaken =>
    /\ ~(timer.forTts /\ resuming)
    /\ timer.forTts \/ resuming => ~listening.on /\ listening.by \in {"tts", "timer"}

SleepInv == SleepTypeOK /\ OnTime /\ NothingComes /\ OwnPause

Timer == [phase : {"idle", "running", "fired"}, forTts : BOOLEAN, due : BOOLEAN]
Listening == [on : BOOLEAN, loading : BOOLEAN, by : {"nobody", "user", "tts", "timer"}]
Scheduling == {"none", "permission", "cancelled", "posting"}

LEMMA SleepBegins == SleepInit => SleepInv
<1> SUFFICES ASSUME SleepInit PROVE SleepInv
  OBVIOUS
<1>1. SleepTypeOK
  <2>1. MaxStarts \in Nat /\ MaxPlays \in Nat /\ MaxToggles \in Nat
    BY SleepAssumption
  <2>2. schedule \in [Timers -> Scheduling] /\ {armed, kept} \subseteq 0..MaxStarts
    BY <2>1 DEF SleepInit, Scheduling
  <2>3. {resuming, outrun, asked, retaken} \subseteq BOOLEAN
    BY DEF SleepInit
  <2>4. timer \in Timer /\ listening \in Listening
    BY DEF SleepInit, NoTimer, Timer, Listening
  <2>5. taken \in [plays : 0..MaxPlays, toggles : 0..MaxToggles]
    BY <2>1 DEF SleepInit
  <2>6. QED
    BY <2>2, <2>3, <2>4, <2>5 DEF SleepInit, SleepTypeOK, Timer, Listening, Scheduling
<1>2. OnTime /\ NothingComes /\ OwnPause
  BY DEF SleepInit, OnTime, NothingComes, OwnPause, NoTimer
<1>3. QED
  BY <1>1, <1>2 DEF SleepInv

LEMMA Spent ==
  ASSUME SleepTypeOK, NEW what \in {"plays", "toggles"}, NEW most, Spends(what, most),
         what = "plays" => most = MaxPlays, what = "toggles" => most = MaxToggles
  PROVE  taken' \in [plays : 0..MaxPlays, toggles : 0..MaxToggles]
<1>1. MaxPlays \in Nat /\ MaxToggles \in Nat
  BY SleepAssumption
<1>2. CASE what = "plays"
  BY <1>1, <1>2 DEF Spends, SleepTypeOK
<1>3. CASE what = "toggles"
  BY <1>1, <1>3 DEF Spends, SleepTypeOK
<1>4. QED
  BY <1>2, <1>3

LEMMA SleepTyped == SleepTypeOK /\ [SleepNext]_sleepVars => SleepTypeOK'
<1> SUFFICES ASSUME SleepTypeOK, [SleepNext]_sleepVars PROVE SleepTypeOK'
  OBVIOUS
<1>0. MaxStarts \in Nat /\ MaxPlays \in Nat /\ MaxToggles \in Nat
  BY SleepAssumption
<1> USE <1>0 DEF SleepTypeOK
<1>1. CASE StartTimer
  <2>1. timer' \in Timer
    BY <1>1 DEF StartTimer, NoTimer, Timer
  <2>2. schedule' \in [Timers -> Scheduling]
    BY <1>1 DEF StartTimer, Timers, Scheduling
  <2>3. outrun' \in BOOLEAN
    BY <1>1 DEF StartTimer, TimerEnds
  <2>4. {armed', kept'} \subseteq 0..MaxStarts /\ posted' \subseteq Timers
    BY <1>1 DEF StartTimer, TimerEnds, CalledOff
  <2>5. QED
    BY <1>1, <2>1, <2>2, <2>3, <2>4 DEF StartTimer, Timer, Scheduling
<1>2. CASE ResetTimer
  BY <1>2 DEF ResetTimer, TimerEnds, CalledOff, NoTimer
<1>3. CASE DeadlinePasses
  BY <1>3 DEF DeadlinePasses, notificationVars
<1>4. CASE Fire
  BY <1>4 DEF Fire, Hushed, PausedBy, notificationVars
<1>5. ASSUME NEW n \in Timers, PermissionAnswered(n) PROVE SleepTypeOK'
  BY <1>5 DEF PermissionAnswered, CalledOff
<1>6. ASSUME NEW n \in Timers, Posts(n) PROVE SleepTypeOK'
  BY <1>6 DEF Posts
<1>7. ASSUME NEW n \in Timers, Kept(n) PROVE SleepTypeOK'
  BY <1>7 DEF Kept, Timers
<1>8. ASSUME NEW n \in Timers, ShowsTimer(n) PROVE SleepTypeOK'
  BY <1>8 DEF ShowsTimer
<1>9. CASE AsksToPlay
  BY <1>9, Spent DEF AsksToPlay, notificationVars
<1>10. CASE StartsToPlay
  BY <1>10 DEF StartsToPlay, notificationVars
<1>11. CASE UserPauses
  BY <1>11 DEF UserPauses, PausedBy, notificationVars
<1>12. CASE SwitchTtsOn
  BY <1>12, Spent DEF SwitchTtsOn, PausedBy, notificationVars
<1>13. CASE AlertRead
  BY <1>13 DEF AlertRead, notificationVars
<1>14. CASE SwitchTtsOff
  BY <1>14 DEF SwitchTtsOff, MayResume, notificationVars
<1>15. CASE Resumes
  BY <1>15 DEF Resumes, notificationVars
<1>16. CASE UNCHANGED sleepVars
  BY <1>16 DEF sleepVars
<1>17. QED
  BY <1>1, <1>2, <1>3, <1>4, <1>5, <1>6, <1>7, <1>8, <1>9, <1>10, <1>11, <1>12, <1>13,
     <1>14, <1>15, <1>16 DEF SleepNext

LEMMA SleepStep == SleepInv /\ [SleepNext]_sleepVars => SleepInv'
<1> SUFFICES ASSUME SleepInv, [SleepNext]_sleepVars
             PROVE  OnTime' /\ NothingComes' /\ OwnPause'
  BY SleepTyped DEF SleepInv
<1> USE DEF SleepInv, SleepTypeOK, OnTime, NothingComes, OwnPause
<1>0. MaxStarts \in Nat
  BY SleepAssumption
<1>1. CASE StartTimer
  <2>1. ~outrun' => \A n \in Timers : schedule[n] = "none"
    BY <1>1 DEF StartTimer, TimerEnds
  <2>2. ~outrun' => posted' = {}
    BY <1>1, <2>1 DEF StartTimer, TimerEnds, CalledOff, Timers
  <2>3. OnTime'
    BY <1>0, <1>1, <2>1, <2>2 DEF StartTimer, NoTimer, Timers
  <2>4. QED
    BY <1>1, <2>3 DEF StartTimer, NoTimer
<1>2. CASE ResetTimer
  <2>1. ~outrun' => \A n \in Timers : schedule[n] = "none"
    BY <1>2 DEF ResetTimer, TimerEnds
  <2>2. ~outrun' => posted' = {}
    BY <1>2, <2>1 DEF ResetTimer, TimerEnds, CalledOff, Timers
  <2>3. QED
    BY <1>2, <2>1, <2>2 DEF ResetTimer, NoTimer
<1>3. CASE DeadlinePasses
  BY <1>3 DEF DeadlinePasses, notificationVars
<1>4. CASE Fire
  BY <1>4 DEF Fire, Hushed, PausedBy, notificationVars
<1>5. ASSUME NEW n \in Timers, PermissionAnswered(n) PROVE OnTime' /\ NothingComes' /\ OwnPause'
  BY <1>5 DEF PermissionAnswered, CalledOff
<1>6. ASSUME NEW n \in Timers, Posts(n) PROVE OnTime' /\ NothingComes' /\ OwnPause'
  BY <1>6 DEF Posts
<1>7. ASSUME NEW n \in Timers, Kept(n) PROVE OnTime' /\ NothingComes' /\ OwnPause'
  BY <1>7 DEF Kept
<1>8. ASSUME NEW n \in Timers, ShowsTimer(n) PROVE OnTime' /\ NothingComes' /\ OwnPause'
  BY <1>8 DEF ShowsTimer
<1>9. CASE AsksToPlay
  BY <1>9 DEF AsksToPlay, notificationVars
<1>10. CASE StartsToPlay
  BY <1>10 DEF StartsToPlay, notificationVars
<1>11. CASE UserPauses
  BY <1>11 DEF UserPauses, PausedBy, notificationVars
<1>12. CASE SwitchTtsOn
  BY <1>12 DEF SwitchTtsOn, PausedBy, notificationVars
<1>13. CASE AlertRead
  BY <1>13 DEF AlertRead, notificationVars
<1>14. CASE SwitchTtsOff
  BY <1>14 DEF SwitchTtsOff, MayResume, notificationVars
<1>15. CASE Resumes
  BY <1>15 DEF Resumes, notificationVars
<1>16. CASE UNCHANGED sleepVars
  BY <1>16 DEF sleepVars
<1>17. QED
  BY <1>1, <1>2, <1>3, <1>4, <1>5, <1>6, <1>7, <1>8, <1>9, <1>10, <1>11, <1>12, <1>13,
     <1>14, <1>15, <1>16 DEF SleepNext

(* A timer that ended says nothing and silences nothing of another's: its own  *)
(* notification, its own silence, the pause it made; for any number of timers, *)
(* requests to play and switches of text to speech.                            *)
THEOREM TimerKeepsToItsOwn == SleepSpec => []TimerActsForItsOwn
<1>1. SleepInv => TimerActsForItsOwn
  BY DEF SleepInv, OnTime, NothingComes, OwnPause, TimerActsForItsOwn, NotifiesForItsTimer,
         SilentOnceFired, ResumesThePauseItMade
<1>2. QED
  BY <1>1, SleepBegins, SleepStep, PTL DEF SleepSpec

-----------------------------------------------------------------------------
(* PdfScroll.                                                                  *)

PdfRender == [page : Pages, list : Views, token : Nat, pass : Nat,
              at : {"page", "raster", "text"}]
PdfTokens == [render : [Pages -> Nat], surface : [Pages -> Nat], paged : Nat]
PdfLists == [shown : SUBSET Lists, mine : Lists \union {None}, made : 0..MaxBuilds]
PdfSurfaces == [Pages -> (Views \X Nat) \union {None}]

PdfTyped ==
  /\ scrolling \in BOOLEAN /\ lists \in PdfLists /\ building \subseteq Lists
  /\ page \in Pages /\ claimed \subseteq Pages
  /\ tokens \in PdfTokens /\ renders \subseteq PdfRender
  /\ canvases \subseteq Lists \X Pages /\ surfaces \in PdfSurfaces
  /\ sheet \in Nat /\ refused \in Nat
  /\ spent \in [scrolls : Nat, failures : Nat]

(* A list is built before it is shown, and drawn in only while it is; outside  *)
(* of scroll mode nothing of a list is claimed, drawn or rendered for it.      *)
ListsKept ==
  /\ building \subseteq 1..lists.made /\ lists.shown \subseteq 1..lists.made
  /\ building \intersect lists.shown = {}
  /\ lists.mine = None => /\ lists.shown = {} /\ claimed = {}
                          /\ scrolling => building # {}
  /\ lists.mine # None => lists.mine \in lists.shown
  /\ ~scrolling => claimed = {} /\ canvases = {}
  /\ canvases \subseteq lists.shown \X Pages
  /\ \A r \in renders : r.list <= lists.made /\ r.list \notin building /\ (Own(r) => scrolling)

(* In the paged view the last render asked for failed, is on its way, or is    *)
(* what is on the sheet.                                                       *)
SheetComes ==
  /\ \A r \in renders : r.list = Paged =>
       /\ r.token <= tokens.paged
       /\ ~scrolling /\ r.token = tokens.paged => r.page = page
  /\ ~scrolling =>
       \/ refused = tokens.paged
       \/ \E r \in renders : r.list = Paged /\ r.token = tokens.paged /\ r.at # "text"
       \/ sheet = page /\ surfaces[page] = <<Paged, tokens.paged>>

(* The last render of a page in the list that is shown, its canvas to come.    *)
Latest(r) == r.token = tokens.render[r.page]
Awaited(r) == Own(r) /\ Latest(r) /\ r.at # "text"

(* Without a clash one list is shown, canvases are in claimed pages of the     *)
(* window, and a render that may still write is the only one of its page.      *)
InView ==
  /\ scrolling /\ lists.mine # None =>
       /\ lists.shown = {lists.mine} /\ claimed \subseteq Window(page)
       /\ spent.failures = 0 => claimed = Window(page)
  /\ canvases \subseteq {lists.mine} \X claimed
  /\ \A r \in renders : Own(r) =>
       /\ r.token <= tokens.render[r.page]
       /\ Latest(r) => r.page \in claimed
       /\ Awaited(r) => <<lists.mine, r.page>> \notin canvases
  /\ \A r, s \in renders : Own(r) /\ Own(s) /\ r.page = s.page /\ r.token = s.token => r = s

(* A claimed page is on its way to its canvas, or drawn.                       *)
Coming(p) == \E r \in renders : Awaited(r) /\ r.page = p
Drawn(p) == <<lists.mine, p>> \in canvases /\ surfaces[p] = <<lists.mine, tokens.render[p]>>
Seen == \A p \in claimed : Coming(p) \/ Drawn(p)

PdfInv == PdfTyped /\ ListsKept /\ SheetComes /\ (clashes = {} => InView /\ Seen)
-----------------------------------------------------------------------------
LEMMA PdfConstants ==
  /\ PageCount \in Nat /\ PageCount >= 1 /\ Buffer \in Nat
  /\ MaxBuilds \in Nat /\ MaxScrolls \in Nat /\ MaxFailures \in Nat
  /\ None \notin Views /\ Pages \subseteq Nat /\ Lists \subseteq Views /\ Views \subseteq Nat
  /\ Paged \in Views /\ Paged \notin Lists /\ Paged = 0
BY PdfAssumption, PdfBoundsAssumption, NoListAssumption DEF Pages, Lists, Views, Paged

LEMMA Windowed == ASSUME NEW p \in Pages PROVE Window(p) \subseteq Pages /\ p \in Window(p)
BY PdfConstants DEF Window, Pages

(* At most as many pages as the buffer has on both sides, and one.             *)
LEMMA FewInWindow ==
  ASSUME NEW p \in Pages
  PROVE  IsFiniteSet(Window(p)) /\ Cardinality(Window(p)) <= 2 * Buffer + 1
<1>1. p \in Int /\ p - Buffer \in Int /\ p + Buffer \in Int /\ p - Buffer <= p + Buffer
  BY PdfConstants
<1>2. IsFiniteSet((p - Buffer)..(p + Buffer))
      /\ Cardinality((p - Buffer)..(p + Buffer)) = (p + Buffer) - (p - Buffer) + 1
  BY <1>1, FS_Interval
<1>3. Window(p) \in SUBSET ((p - Buffer)..(p + Buffer))
  <2>1. \A q \in Window(p) : q \in Nat /\ p <= q + Buffer /\ q <= p + Buffer
    BY PdfConstants DEF Window
  <2>2. \A q \in Window(p) : q \in (p - Buffer)..(p + Buffer)
    BY <1>1, <2>1, PdfConstants
  <2>3. QED
    BY <2>2
<1>4. IsFiniteSet(Window(p))
      /\ Cardinality(Window(p)) <= Cardinality((p - Buffer)..(p + Buffer))
  BY <1>2, <1>3, FS_Subset
<1>5. (p + Buffer) - (p - Buffer) + 1 = 2 * Buffer + 1
  BY PdfConstants
<1>6. QED
  BY <1>2, <1>4, <1>5

Changes(p) == (Window(p) \ claimed) \union (claimed \ Window(p))
Asks(l, p, q) ==
  [page |-> q, list |-> l, token |-> tokens.render[q] + 1, pass |-> 0, at |-> "page"]

(* What virtualize() leaves: the window claimed, a render for each page that   *)
(* was not, and new tokens where the window moved.                             *)
LEMMA Virtualized ==
  ASSUME PdfTyped, NEW l \in Lists, NEW p \in Pages,
         Virtualize(l, p, claimed, canvases, surfaces, tokens)
  PROVE  /\ page' = p /\ claimed' = Window(p)
         /\ tokens' \in PdfTokens
         /\ tokens'.surface = tokens.surface /\ tokens'.paged = tokens.paged
         /\ \A q \in Pages : tokens'.render[q] = IF q \in Changes(p) THEN tokens.render[q] + 1
                                                 ELSE tokens.render[q]
         /\ renders' = renders \union {Asks(l, p, q) : q \in Window(p) \ claimed}
         /\ renders' \subseteq PdfRender
         /\ \A q \in Window(p) \ claimed :
              LET r == Asks(l, p, q)
              IN  r.page = q /\ r.list = l /\ r.at = "page" /\ r.token = tokens'.render[q]
         /\ canvases' = {c \in canvases : ~(c[1] = l /\ c[2] \in claimed \ Window(p))}
         /\ surfaces' \in PdfSurfaces
         /\ \A q \in Window(p) : surfaces'[q] = surfaces[q]
<1>1. NewPages(l, p, claimed) = Window(p) \ claimed /\ OldPages(p, claimed) = claimed \ Window(p)
  BY PdfConstants DEF NewPages, OldPages
<1>2. Window(p) \subseteq Pages /\ claimed \subseteq Pages
      /\ tokens.render \in [Pages -> Nat] /\ tokens \in PdfTokens
  BY Windowed DEF PdfTyped, PdfTokens
<1> DEFINE out == Outdates(l, p, claimed, tokens.render)
<1>3. out = [q \in Pages |-> IF q \in Changes(p) THEN tokens.render[q] + 1 ELSE tokens.render[q]]
  BY <1>1 DEF Outdates, Changes
<1>4. \A q \in Pages : tokens.render[q] + 1 \in Nat
  BY <1>2
<1>5. out \in [Pages -> Nat]
  BY <1>2, <1>3, <1>4
<1> HIDE DEF out
<1>6. tokens' = [tokens EXCEPT !.render = out]
  BY DEF Virtualize, out
<1>7. tokens'.render = out /\ tokens'.surface = tokens.surface /\ tokens'.paged = tokens.paged
      /\ tokens' \in PdfTokens
  BY <1>2, <1>5, <1>6 DEF PdfTokens
<1>8. \A q \in Window(p) \ claimed : out[q] = tokens.render[q] + 1
  BY <1>2, <1>3 DEF Changes
<1>9. renders' = renders \union {Asks(l, p, q) : q \in Window(p) \ claimed}
  <2>1. renders' = renders \union {[page |-> q, list |-> l, token |-> out[q],
                                    pass |-> 0, at |-> "page"] : q \in Window(p) \ claimed}
    BY <1>1 DEF Virtualize, out
  <2>2. QED
    BY <1>8, <2>1 DEF Asks
<1>10. \A q \in Window(p) \ claimed : Asks(l, p, q) \in PdfRender
  BY <1>2, <1>4, PdfConstants DEF Asks, PdfRender
<1>11. page' = p /\ claimed' = Window(p)
  BY <1>1 DEF Virtualize
<1>12. canvases' = {c \in canvases : ~(c[1] = l /\ c[2] \in claimed \ Window(p))}
  BY <1>1 DEF Virtualize
<1>13. surfaces' \in PdfSurfaces /\ \A q \in Window(p) : surfaces'[q] = surfaces[q]
  <2>1. surfaces' = [q \in Pages |-> IF q \in claimed \ Window(p) THEN None ELSE surfaces[q]]
    BY <1>1 DEF Virtualize
  <2>2. surfaces \in PdfSurfaces
    BY DEF PdfTyped
  <2>3. QED
    BY <1>2, <2>1, <2>2 DEF PdfSurfaces
<1>14. renders' \subseteq PdfRender
  BY <1>9, <1>10 DEF PdfTyped
<1>15. \A q \in Window(p) \ claimed :
         LET r == Asks(l, p, q)
         IN  r.page = q /\ r.list = l /\ r.at = "page" /\ r.token = tokens'.render[q]
  BY <1>7, <1>8 DEF Asks
<1>16. \A q \in Pages : tokens'.render[q] = IF q \in Changes(p) THEN tokens.render[q] + 1
                                             ELSE tokens.render[q]
  BY <1>3, <1>7
<1>17. QED
  BY <1>7, <1>9, <1>11, <1>12, <1>13, <1>14, <1>15, <1>16

LEMMA PdfBegins == PdfInit => PdfInv
<1> SUFFICES ASSUME PdfInit PROVE PdfInv
  OBVIOUS
<1>1. NoTokens \in [Pages -> Nat]
  BY DEF NoTokens
<1>2. 1 \in Pages /\ 0 \in 0..MaxBuilds /\ 0 \in Nat /\ 1 \in Nat
  BY PdfConstants DEF Pages
<1> DEFINE r == AsksPaged(1, 1)
<1>3. r \in PdfRender /\ r.page = 1 /\ r.list = Paged /\ r.token = 1 /\ r.at = "page"
  BY <1>2, PdfConstants DEF AsksPaged, PdfRender
<1> HIDE DEF r
<1>4. renders = {r} /\ lists = [shown |-> {}, mine |-> None, made |-> 0]
      /\ tokens = [render |-> NoTokens, surface |-> NoTokens, paged |-> 1]
      /\ page = 1 /\ ~scrolling /\ building = {} /\ claimed = {} /\ canvases = {}
  BY DEF PdfInit, r
<1>5. lists.made = 0 /\ lists.shown = {} /\ lists.mine = None /\ lists \in PdfLists
  BY <1>2, <1>4 DEF PdfLists
<1>6. tokens.paged = 1 /\ tokens \in PdfTokens
  BY <1>1, <1>2, <1>4 DEF PdfTokens
<1>7. surfaces \in PdfSurfaces /\ sheet = 0 /\ refused = 0 /\ scrolling \in BOOLEAN
      /\ spent \in [scrolls : Nat, failures : Nat]
  BY DEF PdfInit, PdfSurfaces
<1>8. PdfTyped
  BY <1>2, <1>3, <1>4, <1>5, <1>6, <1>7 DEF PdfTyped
<1>9. ListsKept
  BY <1>3, <1>4, <1>5, PdfConstants DEF ListsKept, Own
<1>10. SheetComes
  BY <1>3, <1>4, <1>6 DEF SheetComes
<1>11. InView /\ Seen
  BY <1>3, <1>4, <1>5, PdfConstants DEF InView, Seen, Own
<1>12. QED
  BY <1>8, <1>9, <1>10, <1>11 DEF PdfInv

LEMMA ScrollStep ==
  ASSUME PdfInv, Scroll PROVE PdfInv'
<1>1. PICK p \in Pages : Virtualize(lists.mine, p, claimed, canvases, surfaces, tokens)
  BY DEF Scroll
<1>2. scrolling /\ lists.mine # None
      /\ UNCHANGED <<scrolling, lists, building, sheet, refused, clashes>>
      /\ spent' = [spent EXCEPT !.scrolls = @ + 1]
  BY DEF Scroll
<1>3. PdfTyped /\ ListsKept /\ lists.mine \in Lists
  BY <1>2 DEF PdfInv, PdfTyped, PdfLists
<1> DEFINE l == lists.mine
<1>4. /\ page' = p /\ claimed' = Window(p) /\ tokens' \in PdfTokens
      /\ tokens'.paged = tokens.paged
      /\ \A q \in Pages : tokens'.render[q] = IF q \in Changes(p) THEN tokens.render[q] + 1
                                              ELSE tokens.render[q]
      /\ renders' = renders \union {Asks(l, p, q) : q \in Window(p) \ claimed}
      /\ renders' \subseteq PdfRender
      /\ \A q \in Window(p) \ claimed :
           LET r == Asks(l, p, q)
           IN  r.page = q /\ r.list = l /\ r.at = "page" /\ r.token = tokens'.render[q]
      /\ canvases' = {c \in canvases : ~(c[1] = l /\ c[2] \in claimed \ Window(p))}
      /\ surfaces' \in PdfSurfaces
      /\ \A q \in Window(p) : surfaces'[q] = surfaces[q]
  BY <1>1, <1>3, Virtualized
<1>5. Window(p) \subseteq Pages /\ claimed \subseteq Pages
  BY <1>3, Windowed DEF PdfTyped
<1>6. spent' \in [scrolls : Nat, failures : Nat] /\ spent'.failures = spent.failures
  BY <1>2, <1>3 DEF PdfTyped
<1>7. PdfTyped'
  BY <1>2, <1>3, <1>4, <1>5, <1>6 DEF PdfTyped
<1>8. ListsKept'
  <2>1. l \in 1..lists.made /\ l \notin building
    BY <1>2, <1>3 DEF ListsKept
  <2>2. \A r \in renders' : r.list <= lists.made /\ r.list \notin building
    BY <1>3, <1>4, <2>1 DEF ListsKept
  <2>3. QED
    BY <1>2, <1>3, <1>4, <2>2 DEF ListsKept, Own
<1>9. SheetComes'
  <2>1. \A r \in renders' : r.list = Paged => r \in renders
    BY <1>3, <1>4, PdfConstants
  <2>2. QED
    BY <1>2, <1>4, <2>1 DEF PdfInv, SheetComes
<1>10. SUFFICES ASSUME clashes = {} PROVE InView' /\ Seen'
  BY <1>2, <1>7, <1>8, <1>9 DEF PdfInv
<1>11. InView /\ Seen
  BY <1>10 DEF PdfInv
<1>12. \A r \in renders : r.page \in Pages /\ r.token \in Nat /\ tokens.render[r.page] \in Nat
  BY <1>3 DEF PdfTyped, PdfRender, PdfTokens
<1>13. ASSUME NEW r \in renders, Own(r)
       PROVE  /\ r.token <= tokens'.render[r.page]
              /\ r.token = tokens'.render[r.page] => Latest(r) /\ r.page \in Window(p)
  <2>1. /\ r.page \in Pages /\ r.token \in Nat /\ tokens.render[r.page] \in Nat
        /\ r.token <= tokens.render[r.page]
        /\ r.token = tokens.render[r.page] => r.page \in claimed
    BY <1>11, <1>12, <1>13 DEF InView, Latest
  <2>2. CASE r.page \in Changes(p)
    BY <1>4, <2>1, <2>2
  <2>3. CASE r.page \notin Changes(p)
    BY <1>4, <2>1, <2>3 DEF Changes, Latest
  <2>4. QED
    BY <2>2, <2>3
<1>14. \A q \in Window(p) \ claimed :
         tokens'.render[q] = tokens.render[q] + 1 /\ tokens.render[q] \in Nat
  BY <1>3, <1>4, <1>5 DEF Changes, PdfTyped, PdfTokens
<1>15. InView'
  <2>1. \A r \in renders' : Own(r)' =>
          /\ r.token <= tokens'.render[r.page]
          /\ Latest(r)' => r.page \in Window(p)
          /\ Awaited(r)' => <<l, r.page>> \notin canvases'
    <3>1. SUFFICES ASSUME NEW r \in renders', r.list = l
                   PROVE  /\ r.token <= tokens'.render[r.page]
                          /\ r.token = tokens'.render[r.page] =>
                               /\ r.page \in Window(p)
                               /\ r.at # "text" => <<l, r.page>> \notin canvases'
      BY <1>2 DEF Own, Latest, Awaited
    <3>2. CASE r \in renders
      BY <1>4, <1>11, <1>13, <3>1, <3>2 DEF Own, Awaited, InView
    <3>3. CASE r \in {Asks(l, p, q) : q \in Window(p) \ claimed}
      <4>1. PICK q \in Window(p) \ claimed : r = Asks(l, p, q)
        BY <3>3
      <4>2. r.page = q /\ r.token = tokens'.render[q] /\ tokens'.render[q] \in Nat
        BY <1>4, <1>14, <4>1
      <4>3. <<l, q>> \notin canvases
        BY <1>11 DEF InView
      <4>4. QED
        BY <1>4, <4>2, <4>3
    <3>4. QED
      BY <1>4, <3>1, <3>2, <3>3
  <2>2. \A r, s \in renders' : Own(r)' /\ Own(s)' /\ r.page = s.page /\ r.token = s.token => r = s
    <3>1. SUFFICES ASSUME NEW r \in renders', NEW s \in renders', Own(r), Own(s),
                          r.page = s.page, r.token = s.token
                   PROVE  r = s
      BY <1>2 DEF Own
    <3>2. \A q \in Window(p) \ claimed : \A x \in renders :
            Own(x) /\ x.page = q => x.token # tokens'.render[q]
      <4>1. SUFFICES ASSUME NEW q \in Window(p) \ claimed, NEW x \in renders, Own(x), x.page = q
                     PROVE  x.token # tokens'.render[q]
        OBVIOUS
      <4>2. x.token <= tokens.render[q] /\ x.token \in Nat
        BY <1>11, <1>12, <4>1 DEF InView
      <4>3. QED
        BY <1>14, <4>2
    <3>3. CASE r \in renders /\ s \in renders
      BY <1>11, <3>1, <3>3 DEF InView
    <3>4. CASE r \in renders /\ s \notin renders
      BY <1>4, <3>1, <3>2, <3>4
    <3>5. CASE r \notin renders /\ s \in renders
      BY <1>4, <3>1, <3>2, <3>5
    <3>6. CASE r \notin renders /\ s \notin renders
      BY <1>4, <3>1, <3>6
    <3>7. QED
      BY <3>3, <3>4, <3>5, <3>6
  <2>3. canvases' \subseteq {l} \X claimed'
    BY <1>4, <1>11 DEF InView
  <2>4. QED
    BY <1>2, <1>4, <1>6, <1>11, <2>1, <2>2, <2>3 DEF InView
<1>16. Seen'
  <2>1. SUFFICES ASSUME NEW q \in Window(p) PROVE Coming(q)' \/ Drawn(q)'
    BY <1>4 DEF Seen
  <2>2. CASE q \notin claimed
    <3>1. Asks(l, p, q) \in renders'
      BY <1>4, <2>2
    <3>2. QED
      BY <1>2, <1>4, <2>2, <3>1 DEF Coming, Awaited, Own, Latest
  <2>3. CASE q \in claimed
    <3>1. q \in Pages /\ tokens'.render[q] = tokens.render[q]
      BY <1>4, <1>5, <2>3 DEF Changes
    <3>2. Coming(q) => Coming(q)'
      BY <1>2, <1>4, <3>1 DEF Coming, Awaited, Own, Latest
    <3>3. Drawn(q) => Drawn(q)'
      BY <1>2, <1>4, <3>1 DEF Drawn
    <3>4. QED
      BY <1>11, <2>3, <3>2, <3>3 DEF Seen
  <2>4. QED
    BY <2>2, <2>3
<1>17. QED
  BY <1>15, <1>16

(* In the paged view nothing of a list is left for a clash to be about.        *)
LEMMA NothingInView ==
  ASSUME PdfTyped, ListsKept, ~scrolling \/ lists.mine = None PROVE InView /\ Seen
<1>1. claimed = {} /\ canvases = {}
  BY DEF ListsKept
<1>2. \A r \in renders : ~Own(r)
  BY PdfConstants DEF ListsKept, PdfTyped, PdfRender, Own
<1>3. QED
  BY <1>1, <1>2 DEF InView, Seen

(* renderCurrent() asked for a page: by TurnSheet, or leaving the scroll.      *)
LEMMA Asked ==
  ASSUME NEW p \in Pages, PdfTyped, ~scrolling', page' = p,
         renders' = renders \union {AsksPaged(p, tokens.paged + 1)},
         tokens'.paged = tokens.paged + 1,
         \A r \in renders : r.list = Paged => r.token <= tokens.paged
  PROVE  renders' \subseteq PdfRender /\ SheetComes'
<1> DEFINE a == AsksPaged(p, tokens.paged + 1)
<1>1. tokens.paged \in Nat /\ tokens.paged + 1 \in Nat
  BY DEF PdfTyped, PdfTokens
<1>2. a \in PdfRender /\ a.page = p /\ a.list = Paged /\ a.token = tokens'.paged /\ a.at = "page"
  BY <1>1, PdfConstants DEF AsksPaged, PdfRender
<1> HIDE DEF a
<1>3. renders' = renders \union {a}
  BY DEF a
<1>4. \A r \in renders : r.list = Paged => r.token <= tokens'.paged /\ r.token # tokens'.paged
  <2>1. \A r \in renders : r.token \in Nat
    BY DEF PdfTyped, PdfRender
  <2>2. QED
    BY <1>1, <2>1
<1>5. tokens'.paged <= tokens'.paged
  BY <1>1
<1>6. QED
  BY <1>2, <1>3, <1>4, <1>5 DEF SheetComes, PdfTyped

LEMMA TurnStep ==
  ASSUME PdfInv, TurnSheet PROVE PdfInv'
<1>1. PICK p \in Pages : page' = p /\ renders' = renders \union {AsksPaged(p, tokens.paged + 1)}
  BY DEF TurnSheet
<1>2. /\ ~scrolling /\ spent' = [spent EXCEPT !.scrolls = @ + 1]
      /\ tokens' = [tokens EXCEPT !.paged = @ + 1]
      /\ UNCHANGED <<scrolling, lists, building, claimed, canvases, sheet, surfaces, refused,
                     clashes>>
      /\ PdfTyped /\ ListsKept /\ SheetComes
  BY DEF TurnSheet, PdfInv
<1>3. tokens' \in PdfTokens /\ tokens'.paged = tokens.paged + 1
  BY <1>2 DEF PdfTyped, PdfTokens
<1>4. renders' \subseteq PdfRender /\ SheetComes'
  BY <1>1, <1>2, <1>3, Asked DEF SheetComes
<1>5. PdfTyped'
  BY <1>1, <1>2, <1>3, <1>4 DEF PdfTyped
<1>6. ListsKept'
  <2>1. AsksPaged(p, tokens.paged + 1).list = 0
    BY PdfConstants DEF AsksPaged
  <2>2. lists.made \in Nat /\ 0 <= lists.made /\ 0 \notin building /\ lists.mine # 0
    BY <1>2, PdfConstants DEF PdfTyped, PdfLists, ListsKept
  <2>3. QED
    BY <1>1, <1>2, <2>1, <2>2 DEF ListsKept, Own
<1>7. InView' /\ Seen'
  BY <1>2, <1>5, <1>6, NothingInView DEF InView, Seen, Own, Latest, Awaited, Coming, Drawn,
     PdfTyped, ListsKept
<1>8. QED
  BY <1>4, <1>5, <1>6, <1>7 DEF PdfInv

LEMMA BuildStep ==
  ASSUME PdfInv, EnterScroll \/ Resize PROVE PdfInv'
<1>1. StartBuild /\ scrolling' = TRUE /\ PdfTyped /\ ListsKept /\ SheetComes
  BY DEF EnterScroll, Resize, PdfInv, PdfTyped
<1>2. lists.made \in Nat /\ lists.made < MaxBuilds /\ lists.made + 1 \in Lists
      /\ lists.made + 1 \in 0..MaxBuilds
  BY <1>1, PdfConstants DEF PdfTyped, PdfLists, StartBuild, Lists
<1>3. lists' \in PdfLists /\ lists'.made = lists.made + 1 /\ lists'.mine = None
      /\ lists'.shown = {}
  BY <1>1, <1>2 DEF StartBuild, PdfLists
<1>4. NoTokens \in [Pages -> Nat]
  BY DEF NoTokens
<1>5. tokens' \in PdfTokens /\ tokens'.paged = tokens.paged
  BY <1>1, <1>4 DEF StartBuild, PdfTyped, PdfTokens
<1>6. PdfTyped'
  BY <1>1, <1>2, <1>3, <1>5 DEF PdfTyped, StartBuild
<1>7. ListsKept'
  <2>1. building' = building \union {lists.made + 1} /\ claimed' = {} /\ canvases' = {}
        /\ renders' = renders
    BY <1>1 DEF StartBuild
  <2>2. building' \subseteq 1..lists'.made
    <3>1. 1..lists.made \subseteq 1..(lists.made + 1) /\ lists.made + 1 \in 1..(lists.made + 1)
      BY <1>2
    <3>2. QED
      BY <1>1, <1>3, <2>1, <3>1 DEF ListsKept
  <2>3. ASSUME NEW r \in renders PROVE r.list <= lists'.made /\ r.list \notin building'
    <3>1. r.list \in Nat /\ r.list <= lists.made /\ r.list \notin building
      BY <1>1, PdfConstants DEF ListsKept, PdfTyped, PdfRender
    <3>2. QED
      BY <1>2, <1>3, <2>1, <3>1
  <2>4. QED
    BY <1>1, <1>3, <2>1, <2>2, <2>3 DEF ListsKept, Own
<1>8. SheetComes'
  BY <1>1, <1>5 DEF SheetComes, StartBuild
<1>9. InView' /\ Seen'
  <2>1. claimed' = {} /\ canvases' = {}
    BY <1>1 DEF StartBuild
  <2>2. \A r \in renders' : r.list # lists'.mine
    BY <1>3, <1>6, PdfConstants DEF PdfTyped, PdfRender
  <2>3. QED
    BY <1>3, <2>1, <2>2 DEF InView, Seen, Own
<1>10. QED
  BY <1>6, <1>7, <1>8, <1>9 DEF PdfInv

LEMMA FinishStep ==
  ASSUME PdfInv, NEW b \in building, FinishBuild(b) PROVE PdfInv'
<1>1. /\ building' = building \ {b}
      /\ lists' = [lists EXCEPT !.shown = @ \union {b}, !.mine = b]
      /\ Shows(b) /\ UNCHANGED <<scrolling, sheet, refused, spent>>
      /\ clashes' = clashes \union {c \in {"builds"} : scrolling /\ lists.shown # {}}
      /\ PdfTyped /\ ListsKept /\ SheetComes /\ b \in Lists
  BY DEF FinishBuild, PdfInv, PdfTyped
<1>2. lists' \in PdfLists /\ lists'.mine = b /\ lists'.shown = lists.shown \union {b}
      /\ lists'.made = lists.made
  BY <1>1 DEF PdfTyped, PdfLists
<1>3. scrolling \in BOOLEAN /\ page \in Pages /\ b # None /\ b # Paged /\ b \in 1..lists.made
  BY <1>1, PdfConstants DEF PdfTyped, ListsKept
<1>4. building' \subseteq 1..lists'.made /\ lists'.shown \subseteq 1..lists'.made
      /\ building' \intersect lists'.shown = {}
  BY <1>1, <1>2, <1>3 DEF ListsKept
<1>5. CASE ~scrolling
  <2>1. UNCHANGED <<page, claimed, tokens, renders, canvases, surfaces>>
    BY <1>1, <1>5 DEF Shows
  <2>2. PdfTyped'
    BY <1>1, <1>2, <2>1 DEF PdfTyped
  <2>3. \A r \in renders : r.list # b
    BY <1>1 DEF ListsKept
  <2>4. ListsKept'
    BY <1>1, <1>2, <1>3, <1>4, <1>5, <2>1, <2>3 DEF ListsKept, Own
  <2>5. SheetComes'
    BY <1>1, <2>1 DEF SheetComes
  <2>6. InView' /\ Seen'
    BY <1>1, <1>2, <1>5, <2>1, <2>3 DEF ListsKept, InView, Seen, Own
  <2>7. QED
    BY <2>2, <2>4, <2>5, <2>6 DEF PdfInv
<1>6. CASE scrolling
  <2>1. Virtualize(b, page, claimed, canvases, surfaces, tokens)
    BY <1>1, <1>6 DEF Shows
  <2>2. /\ page' = page /\ claimed' = Window(page) /\ tokens' \in PdfTokens
        /\ tokens'.paged = tokens.paged
        /\ renders' = renders \union {Asks(b, page, q) : q \in Window(page) \ claimed}
        /\ renders' \subseteq PdfRender
        /\ \A q \in Window(page) \ claimed :
             LET r == Asks(b, page, q)
             IN  r.page = q /\ r.list = b /\ r.at = "page" /\ r.token = tokens'.render[q]
        /\ canvases' = {c \in canvases : ~(c[1] = b /\ c[2] \in claimed \ Window(page))}
        /\ surfaces' \in PdfSurfaces
    BY <1>1, <1>3, <2>1, Virtualized
  <2>3. Window(page) \subseteq Pages
    BY <1>3, Windowed
  <2>4. PdfTyped'
    BY <1>1, <1>2, <1>3, <2>2, <2>3 DEF PdfTyped
  <2>5. ListsKept'
    <3>1. \A r \in renders' : r.list <= lists.made /\ r.list \notin building'
      BY <1>1, <1>3, <2>2 DEF ListsKept
    <3>2. QED
      BY <1>1, <1>2, <1>3, <1>4, <1>6, <2>2, <3>1 DEF ListsKept, Own
  <2>6. SheetComes'
    <3>1. \A r \in renders' : r.list = Paged => r \in renders
      BY <1>3, <2>2
    <3>2. QED
      BY <1>1, <1>6, <2>2, <3>1 DEF SheetComes
  <2>7. SUFFICES ASSUME clashes' = {} PROVE InView' /\ Seen'
    BY <2>4, <2>5, <2>6 DEF PdfInv
  <2>8. lists.shown = {} /\ lists.mine = None /\ claimed = {} /\ canvases = {}
    BY <1>1, <1>6, <2>7 DEF ListsKept
  <2>9. \A q \in Window(page) : tokens'.render[q] \in Nat
    BY <2>2, <2>3 DEF PdfTokens
  <2>10. \A r \in renders : r.list # b
    BY <1>1 DEF ListsKept
  <2>11. \A r \in renders' : r.list = b => \E q \in Window(page) : r = Asks(b, page, q)
    BY <2>2, <2>8, <2>10
  <2>12. InView'
    <3>1. \A r \in renders' : Own(r)' =>
            /\ r.token <= tokens'.render[r.page]
            /\ Latest(r)' => r.page \in claimed'
            /\ Awaited(r)' => <<lists'.mine, r.page>> \notin canvases'
      BY <1>2, <2>2, <2>8, <2>9, <2>11 DEF Own, Latest, Awaited
    <3>2. \A r, s \in renders' : Own(r)' /\ Own(s)' /\ r.page = s.page /\ r.token = s.token
                                 => r = s
      BY <1>2, <2>2, <2>8, <2>11 DEF Own
    <3>3. QED
      BY <1>2, <2>2, <2>8, <3>1, <3>2 DEF InView
  <2>13. Seen'
    <3>1. SUFFICES ASSUME NEW q \in Window(page) PROVE Coming(q)'
      BY <2>2 DEF Seen
    <3>2. Asks(b, page, q) \in renders'
      BY <2>2, <2>8
    <3>3. QED
      BY <1>2, <2>2, <2>8, <3>2 DEF Coming, Awaited, Own, Latest
  <2>14. QED
    BY <2>12, <2>13
<1>7. QED
  BY <1>3, <1>5, <1>6

LEMMA LeaveStep ==
  ASSUME PdfInv, LeaveScroll PROVE PdfInv'
<1>1. /\ scrolling' = FALSE /\ UNCHANGED <<building, page, sheet, refused, spent, clashes>>
      /\ lists' = [lists EXCEPT !.shown = {}, !.mine = None]
      /\ claimed' = {} /\ canvases' = {} /\ surfaces' = [p \in Pages |-> None]
      /\ renders' = renders \union {AsksPaged(page, tokens.paged + 1)}
      /\ PdfTyped /\ ListsKept /\ SheetComes
  BY DEF LeaveScroll, PdfInv
<1>2. lists' \in PdfLists /\ lists'.shown = {} /\ lists'.mine = None /\ lists'.made = lists.made
  BY <1>1 DEF PdfTyped, PdfLists
<1> DEFINE out == [p \in Pages |-> IF p \in claimed THEN tokens.render[p] + 1 ELSE tokens.render[p]]
<1>3. tokens.render \in [Pages -> Nat] /\ tokens.paged \in Nat /\ tokens \in PdfTokens
  BY <1>1 DEF PdfTyped, PdfTokens
<1>4. out \in [Pages -> Nat]
  <2>1. \A p \in Pages : tokens.render[p] + 1 \in Nat
    BY <1>3
  <2>2. QED
    BY <1>3, <2>1
<1>5. tokens' = [tokens EXCEPT !.paged = @ + 1, !.render = out]
  BY DEF LeaveScroll
<1> HIDE DEF out
<1>6. tokens' \in PdfTokens /\ tokens'.paged = tokens.paged + 1
  <2>1. tokens' = [render |-> out, surface |-> tokens.surface, paged |-> tokens.paged + 1]
    BY <1>3, <1>5 DEF PdfTokens
  <2>2. QED
    BY <1>3, <1>4, <2>1 DEF PdfTokens
<1>7. renders' \subseteq PdfRender /\ SheetComes'
  BY <1>1, <1>6, Asked DEF SheetComes, PdfTyped
<1>8. PdfTyped'
  BY <1>1, <1>2, <1>6, <1>7 DEF PdfTyped, PdfSurfaces
<1>9. \A r \in renders' : r.list # lists'.mine
  BY <1>2, <1>7, PdfConstants DEF PdfRender
<1>10. ListsKept'
  <2>1. AsksPaged(page, tokens.paged + 1).list = 0
    BY PdfConstants DEF AsksPaged
  <2>2. lists.made \in Nat /\ 0 <= lists.made /\ 0 \notin building
    BY <1>1 DEF PdfTyped, PdfLists, ListsKept
  <2>3. QED
    BY <1>1, <1>2, <1>9, <2>1, <2>2 DEF ListsKept, Own
<1>11. InView' /\ Seen'
  BY <1>1, <1>2, <1>9 DEF InView, Seen, Own
<1>12. QED
  BY <1>7, <1>8, <1>10, <1>11 DEF PdfInv

(* What a step of a render owes to the parts of the invariant.                 *)
LEMMA ListsStand ==
  ASSUME PdfTyped, ListsKept, UNCHANGED <<scrolling, lists, building>>,
         claimed' \subseteq claimed, canvases' \subseteq lists.shown \X Pages,
         ~scrolling => canvases' = {},
         \A x \in renders' : \E y \in renders : y.list = x.list
  PROVE  ListsKept'
BY DEF ListsKept, Own

LEMMA SheetStands ==
  ASSUME PdfTyped, SheetComes, UNCHANGED <<scrolling, page>>, tokens'.paged = tokens.paged,
         \A x \in renders' : \E y \in renders :
           x.list = Paged => y.list = Paged /\ y.page = x.page /\ y.token = x.token,
         ~scrolling =>
           \/ refused' = tokens.paged
           \/ \E r \in renders' : r.list = Paged /\ r.token = tokens.paged /\ r.at # "text"
           \/ sheet' = page /\ surfaces'[page] = <<Paged, tokens.paged>>
  PROVE  SheetComes'
BY DEF SheetComes

LEMMA ViewStands ==
  ASSUME InView, NEW r \in renders, NEW n,
         n.page = r.page, n.list = r.list, n.token = r.token, r.at = "text" => n.at = "text",
         UNCHANGED <<scrolling, lists, page, claimed, canvases>>, tokens'.render = tokens.render,
         spent'.failures = 0 => spent.failures = 0,
         renders' \subseteq (renders \ {r}) \union {n}
  PROVE  InView'
<1>1. \A x \in renders' : Own(x)' =>
        /\ x.token <= tokens'.render[x.page]
        /\ Latest(x)' => x.page \in claimed'
        /\ Awaited(x)' => <<lists'.mine, x.page>> \notin canvases'
  <2>1. SUFFICES ASSUME NEW x \in renders', Own(x)
                 PROVE  /\ x.token <= tokens.render[x.page]
                        /\ Latest(x) => x.page \in claimed
                        /\ Awaited(x) => <<lists.mine, x.page>> \notin canvases
    BY DEF Own, Latest, Awaited
  <2>2. CASE x \in renders
    BY <2>1, <2>2 DEF InView
  <2>3. CASE x = n
    BY <2>1, <2>3 DEF InView, Own, Latest, Awaited
  <2>4. QED
    BY <2>2, <2>3
<1>2. ASSUME NEW x \in renders', NEW y \in renders', Own(x), Own(y), x.page = y.page,
             x.token = y.token
      PROVE  x = y
  <2>1. CASE x # n /\ y # n
    BY <1>2, <2>1 DEF InView
  <2>2. CASE x = n /\ y # n
    BY <1>2, <2>2 DEF InView, Own
  <2>3. CASE x # n /\ y = n
    BY <1>2, <2>3 DEF InView, Own
  <2>4. QED
    BY <2>1, <2>2, <2>3
<1>3. QED
  BY <1>1, <1>2 DEF InView, Own

LEMMA SeenStands ==
  ASSUME Seen, UNCHANGED <<lists, claimed, canvases>>, tokens'.render = tokens.render,
         \A x \in renders : Awaited(x) =>
           \E y \in renders' : y.list = x.list /\ y.page = x.page /\ y.token = x.token
                               /\ y.at # "text",
         \A p \in claimed : Drawn(p) => surfaces'[p] = surfaces[p]
  PROVE  Seen'
<1>1. SUFFICES ASSUME NEW p \in claimed PROVE Coming(p)' \/ Drawn(p)'
  BY DEF Seen
<1>2. Coming(p) => Coming(p)'
  BY DEF Coming, Awaited, Own, Latest
<1>3. Drawn(p) => Drawn(p)'
  BY DEF Drawn
<1>4. QED
  BY <1>2, <1>3 DEF Seen

(* A render whose canvas is to come passes the checks after its awaits.        *)
LEMMA AwaitedIsCurrent ==
  ASSUME PdfTyped, ListsKept, NEW r \in renders, Own(r)
  PROVE  /\ r.list # Paged /\ scrolling /\ lists.mine # None
         /\ Current(r) <=> Latest(r)
<1>1. r.list \in Views /\ lists.mine \in Lists \union {None}
  BY DEF PdfTyped, PdfRender, PdfLists
<1>2. r.list # Paged /\ lists.mine # None
  BY <1>1, PdfConstants DEF Own
<1>3. scrolling
  BY DEF ListsKept
<1>4. QED
  BY <1>2, <1>3 DEF Current, Latest

LEMMA GotPageStep ==
  ASSUME PdfInv, NEW r \in renders, GotPage(r) PROVE PdfInv'
<1> DEFINE n == [r EXCEPT !.at = "raster"]
<1>1. /\ UNCHANGED <<scrolling, lists, building, page, claimed, tokens, canvases, surfaces,
                     refused, spent, clashes>>
      /\ renders' = (renders \ {r}) \union (IF Current(r) THEN {n} ELSE {})
      /\ sheet' = IF Current(r) /\ r.list = Paged THEN 0 ELSE sheet
      /\ PdfTyped /\ ListsKept /\ SheetComes /\ r.at = "page"
  BY DEF GotPage, PdfInv
<1>2. r \in PdfRender
  BY <1>1 DEF PdfTyped
<1>3. /\ n \in PdfRender
      /\ n.page = r.page /\ n.list = r.list /\ n.token = r.token /\ n.at = "raster"
  BY <1>2 DEF PdfRender
<1> HIDE DEF n
<1>4. PdfTyped'
  BY <1>1, <1>3 DEF PdfTyped
<1>5. ListsKept'
  <2>1. canvases' \subseteq lists.shown \X Pages /\ (~scrolling => canvases' = {})
    BY <1>1 DEF ListsKept
  <2>2. QED
    BY <1>1, <1>3, <2>1, ListsStand
<1>6. SheetComes'
  <2>1. ~scrolling =>
           \/ refused' = tokens.paged
           \/ \E x \in renders' : x.list = Paged /\ x.token = tokens.paged /\ x.at # "text"
           \/ sheet' = page /\ surfaces'[page] = <<Paged, tokens.paged>>
    <3>1. SUFFICES ASSUME ~scrolling, refused # tokens.paged
                   PROVE  \/ \E x \in renders' : x.list = Paged /\ x.token = tokens.paged
                                                 /\ x.at # "text"
                          \/ sheet' = page /\ surfaces'[page] = <<Paged, tokens.paged>>
      BY <1>1
    <3>2. CASE Current(r)
      <4>1. r.list = Paged /\ r.token = tokens.paged
        BY <3>1, <3>2 DEF Current
      <4>2. QED
        BY <1>1, <1>3, <3>2, <4>1
    <3>3. CASE ~Current(r)
      BY <1>1, <3>1, <3>3 DEF SheetComes, Current
    <3>4. QED
      BY <3>2, <3>3
  <2>2. QED
    BY <1>1, <1>3, <2>1, SheetStands
<1>7. SUFFICES ASSUME clashes = {} PROVE InView' /\ Seen'
  BY <1>1, <1>4, <1>5, <1>6 DEF PdfInv
<1>8. InView /\ Seen
  BY <1>7 DEF PdfInv
<1>9. InView'
  BY <1>1, <1>3, <1>8, ViewStands
<1>10. Seen'
  <2>1. ASSUME NEW x \in renders, Awaited(x)
        PROVE  \E y \in renders' : y.list = x.list /\ y.page = x.page /\ y.token = x.token
                                   /\ y.at # "text"
    <3>1. Current(x) /\ x.at # "text"
      BY <1>1, <2>1, AwaitedIsCurrent DEF Awaited
    <3>2. QED
      BY <1>1, <1>3, <3>1
  <2>2. QED
    BY <1>1, <1>8, <2>1, SeenStands
<1>11. QED
  BY <1>9, <1>10

LEMMA GotNothingStep ==
  ASSUME PdfInv, NEW r \in renders, GotNothing(r) PROVE PdfInv'
<1>1. /\ UNCHANGED <<scrolling, lists, building, page, claimed, tokens, canvases, sheet, surfaces>>
      /\ renders' = renders \ {r} /\ Current(r)
      /\ spent' = [spent EXCEPT !.failures = @ + 1]
      /\ refused' = IF r.list = Paged THEN r.token ELSE refused
      /\ clashes' = clashes \union {c \in {"blank"} : r.list # Paged}
      /\ PdfTyped /\ ListsKept /\ SheetComes
  BY DEF GotNothing, Fails, PdfInv
<1>2. r.token \in Nat /\ spent.failures \in Nat /\ spent' \in [scrolls : Nat, failures : Nat]
      /\ spent'.failures = spent.failures + 1
  BY <1>1 DEF PdfTyped, PdfRender
<1>3. PdfTyped'
  BY <1>1, <1>2 DEF PdfTyped
<1>4. ListsKept'
  <2>1. canvases' \subseteq lists.shown \X Pages /\ (~scrolling => canvases' = {})
    BY <1>1 DEF ListsKept
  <2>2. QED
    BY <1>1, <2>1, ListsStand
<1>5. SheetComes'
  <2>1. ~scrolling => refused' = tokens.paged
    BY <1>1 DEF Current
  <2>2. QED
    BY <1>1, <2>1, SheetStands
<1>6. SUFFICES ASSUME clashes' = {} PROVE InView' /\ Seen'
  BY <1>3, <1>4, <1>5 DEF PdfInv
<1>7. InView /\ Seen /\ r.list = Paged
  BY <1>1, <1>6 DEF PdfInv
<1>8. InView'
  BY <1>1, <1>2, <1>7, ViewStands
<1>9. Seen'
  <2>1. \A x \in renders : Awaited(x) => x \in renders' /\ x.at # "text"
    BY <1>1, <1>7, AwaitedIsCurrent DEF Awaited
  <2>2. QED
    BY <1>1, <1>7, <2>1, SeenStands
<1>10. QED
  BY <1>8, <1>9

(* The canvas of the page that is awaited comes.                               *)
LEMMA CanvasComes ==
  ASSUME PdfTyped, ListsKept, InView, Seen, NEW r \in renders, Awaited(r), NEW n,
         n.page = r.page, n.list = r.list, n.token = r.token, n.at = "text",
         UNCHANGED <<scrolling, lists, page, claimed, spent>>, tokens'.render = tokens.render,
         renders' = (renders \ {r}) \union {n},
         canvases' = canvases \union {<<lists.mine, r.page>>},
         surfaces' = [surfaces EXCEPT ![r.page] = <<r.list, r.token>>]
  PROVE  InView' /\ Seen'
<1>1. Own(r) /\ Latest(r) /\ r.at # "text" /\ r.page \in claimed /\ claimed \subseteq Pages
  BY DEF Awaited, InView, PdfTyped
<1>2. \A x \in renders : Own(x) /\ x.page = r.page /\ Latest(x) => x = r
  BY <1>1 DEF InView, Latest
<1>3. InView'
  <2>1. \A x \in renders' : Own(x)' =>
          /\ x.token <= tokens'.render[x.page]
          /\ Latest(x)' => x.page \in claimed'
          /\ Awaited(x)' => <<lists'.mine, x.page>> \notin canvases'
    <3>1. SUFFICES ASSUME NEW x \in renders', Own(x)
                   PROVE  /\ x.token <= tokens.render[x.page]
                          /\ Latest(x) => x.page \in claimed
                          /\ Awaited(x) => <<lists.mine, x.page>> \notin canvases'
      BY DEF Own, Latest, Awaited
    <3>2. CASE x = n
      BY <1>1, <3>1, <3>2 DEF InView, Own, Latest, Awaited
    <3>3. CASE x \in renders /\ x # r
      BY <1>2, <3>1, <3>3 DEF InView, Awaited
    <3>4. QED
      BY <3>1, <3>2, <3>3
  <2>2. \A x, y \in renders' : Own(x)' /\ Own(y)' /\ x.page = y.page /\ x.token = y.token => x = y
    <3>1. SUFFICES ASSUME NEW x \in renders', NEW y \in renders', Own(x), Own(y),
                          x.page = y.page, x.token = y.token
                   PROVE  x = y
      BY DEF Own
    <3>2. \A z \in renders : Own(z) /\ z.page = r.page /\ z.token = r.token => z = r
      BY <1>1 DEF InView
    <3>3. QED
      BY <3>1, <3>2 DEF InView, Own
  <2>3. canvases' \subseteq {lists'.mine} \X claimed'
    BY <1>1 DEF InView
  <2>4. QED
    BY <2>1, <2>2, <2>3 DEF InView
<1>4. Seen'
  <2>1. SUFFICES ASSUME NEW p \in claimed PROVE Coming(p)' \/ Drawn(p)'
    BY DEF Seen
  <2>2. p \in Pages /\ surfaces \in [Pages -> (Views \X Nat) \union {None}]
    BY <1>1 DEF PdfTyped, PdfSurfaces
  <2>3. CASE p = r.page
    BY <1>1, <2>2, <2>3 DEF Drawn, Own, Latest
  <2>4. CASE p # r.page
    <3>1. Coming(p) => Coming(p)'
      BY <2>4 DEF Coming, Awaited, Own, Latest
    <3>2. Drawn(p) => Drawn(p)'
      BY <2>2, <2>4 DEF Drawn
    <3>3. QED
      BY <3>1, <3>2 DEF Seen
  <2>5. QED
    BY <2>3, <2>4
<1>5. QED
  BY <1>3, <1>4

LEMMA RasteredStep ==
  ASSUME PdfInv, NEW r \in renders, Rastered(r) PROVE PdfInv'
<1> DEFINE pass == tokens.surface[r.page] + 1
           n == [r EXCEPT !.at = "text", !.pass = pass]
<1>1. /\ UNCHANGED <<scrolling, lists, building, page, claimed, refused, spent>>
      /\ PdfTyped /\ ListsKept /\ SheetComes /\ r.at = "raster"
  BY DEF Rastered, PdfInv
<1>2. r \in PdfRender /\ r.page \in Pages /\ r.list \in Views /\ r.token \in Nat
  BY <1>1 DEF PdfTyped, PdfRender
<1>3. CASE ~Current(r)
  <2>1. renders' = renders \ {r} /\ UNCHANGED <<tokens, surfaces, canvases, sheet, clashes>>
    BY <1>3 DEF Rastered
  <2>2. PdfTyped'
    BY <1>1, <2>1 DEF PdfTyped
  <2>3. ListsKept'
    <3>1. canvases' \subseteq lists.shown \X Pages /\ (~scrolling => canvases' = {})
      BY <1>1, <2>1 DEF ListsKept
    <3>2. QED
      BY <1>1, <2>1, <3>1, ListsStand
  <2>4. SheetComes'
    <3>1. ~scrolling =>
           \/ refused' = tokens.paged
           \/ \E x \in renders' : x.list = Paged /\ x.token = tokens.paged /\ x.at # "text"
           \/ sheet' = page /\ surfaces'[page] = <<Paged, tokens.paged>>
      BY <1>1, <1>3, <2>1 DEF SheetComes, Current
    <3>2. QED
      BY <1>1, <2>1, <3>1, SheetStands
  <2>5. SUFFICES ASSUME clashes = {} PROVE InView' /\ Seen'
    BY <2>1, <2>2, <2>3, <2>4 DEF PdfInv
  <2>6. InView /\ Seen
    BY <2>5 DEF PdfInv
  <2>7. InView'
    BY <1>1, <2>1, <2>6, ViewStands
  <2>8. Seen'
    <3>1. \A x \in renders : Awaited(x) => x \in renders' /\ x.at # "text"
      BY <1>1, <1>3, <2>1, AwaitedIsCurrent DEF Awaited
    <3>2. QED
      BY <1>1, <2>1, <2>6, <3>1, SeenStands
  <2>9. QED
    BY <2>7, <2>8
<1>4. CASE Current(r)
  <2>1. /\ renders' = (renders \ {r}) \union {n}
        /\ tokens' = [tokens EXCEPT !.surface[r.page] = pass]
        /\ surfaces' = [q \in Pages |-> IF q = r.page THEN <<r.list, r.token>>
                                        ELSE IF r.list = Paged THEN None ELSE surfaces[q]]
        /\ canvases' = IF r.list \in lists.shown
                       THEN canvases \union {<<r.list, r.page>>} ELSE canvases
        /\ sheet' = IF r.list = Paged THEN r.page ELSE sheet
        /\ clashes' = clashes
             \union {c \in {"paged"} : r.list = Paged /\ canvases # {}}
             \union {c \in {"reborn"} : r.list # Paged /\ ~Own(r)}
    BY <1>4 DEF Rastered, SurfacesWith
  <2>2. pass \in Nat
    BY <1>1, <1>2 DEF PdfTyped, PdfTokens
  <2> HIDE DEF pass
  <2>3. /\ n \in PdfRender
        /\ n.page = r.page /\ n.list = r.list /\ n.token = r.token /\ n.at = "text"
    BY <1>2, <2>2 DEF PdfRender
  <2> HIDE DEF n
  <2>4. tokens' \in PdfTokens /\ tokens'.render = tokens.render /\ tokens'.paged = tokens.paged
    BY <1>1, <1>2, <2>1, <2>2 DEF PdfTyped, PdfTokens
  <2>5. surfaces' \in PdfSurfaces /\ surfaces'[r.page] = <<r.list, r.token>>
    BY <1>1, <1>2, <2>1 DEF PdfTyped, PdfSurfaces
  <2>6. r.page \in Nat /\ sheet' \in Nat
    BY <1>1, <1>2, <2>1, PdfConstants DEF PdfTyped
  <2>7. canvases' \subseteq Lists \X Pages
    BY <1>1, <1>2, <2>1 DEF PdfTyped, PdfLists
  <2>8. PdfTyped'
    BY <1>1, <2>1, <2>3, <2>4, <2>5, <2>6, <2>7 DEF PdfTyped
  <2>9. lists.shown \subseteq Lists
    BY <1>1 DEF PdfTyped, PdfLists
  <2>10. ListsKept'
    <3>1. canvases' \subseteq lists.shown \X Pages
      BY <1>1, <1>2, <2>1 DEF ListsKept
    <3>2. ~scrolling => canvases' = {}
      BY <1>1, <1>4, <2>1, <2>9, PdfConstants DEF ListsKept, Current
    <3>3. QED
      BY <1>1, <2>1, <2>3, <3>1, <3>2, ListsStand
  <2>11. SheetComes'
    <3>1. ~scrolling => sheet' = page /\ surfaces'[page] = <<Paged, tokens.paged>>
      BY <1>1, <1>4, <2>1, <2>5 DEF Current, SheetComes
    <3>2. QED
      BY <1>1, <2>1, <2>3, <2>4, <3>1, SheetStands
  <2>12. SUFFICES ASSUME clashes' = {} PROVE InView' /\ Seen'
    BY <2>8, <2>10, <2>11 DEF PdfInv
  <2>13. InView /\ Seen /\ (r.list = Paged => canvases = {}) /\ (r.list # Paged => Own(r))
    BY <2>1, <2>12 DEF PdfInv
  <2>14. CASE r.list = Paged
    <3>1. canvases' = canvases
      BY <2>1, <2>9, <2>14, PdfConstants
    <3>2. InView'
      BY <1>1, <2>1, <2>3, <2>4, <2>13, <3>1, ViewStands
    <3>3. \A x \in renders : Awaited(x) => x \in renders' /\ x.at # "text"
      BY <1>1, <2>1, <2>14, AwaitedIsCurrent DEF Awaited
    <3>4. \A p \in claimed : ~Drawn(p)
      BY <2>13, <2>14 DEF Drawn
    <3>5. Seen'
      BY <1>1, <2>4, <2>13, <3>1, <3>3, <3>4, SeenStands
    <3>6. QED
      BY <3>2, <3>5
  <2>15. CASE r.list # Paged
    <3>1. Own(r) /\ Latest(r) /\ Awaited(r) /\ r.list = lists.mine /\ lists.mine \in lists.shown
      BY <1>1, <1>4, <2>13, <2>15, AwaitedIsCurrent DEF Awaited, Own, ListsKept
    <3>2. canvases' = canvases \union {<<lists.mine, r.page>>}
      BY <2>1, <3>1
    <3>3. surfaces' = [surfaces EXCEPT ![r.page] = <<r.list, r.token>>]
      BY <1>1, <2>1, <2>15 DEF PdfTyped, PdfSurfaces
    <3>4. QED
      BY <1>1, <2>1, <2>3, <2>4, <2>13, <3>1, <3>2, <3>3, CanvasComes
  <2>16. QED
    BY <2>14, <2>15
<1>5. QED
  BY <1>3, <1>4

LEMMA TextStep ==
  ASSUME PdfInv, NEW r \in renders, TextLaidOut(r) PROVE PdfInv'
<1>1. /\ UNCHANGED <<scrolling, lists, building, page, claimed, tokens, canvases, sheet, refused,
                     spent, clashes>>
      /\ renders' = renders \ {r} /\ PdfTyped /\ ListsKept /\ SheetComes /\ r.at = "text"
      /\ surfaces' = IF tokens.surface[r.page] = r.pass /\ ~Current(r)
                        /\ surfaces[r.page] = <<r.list, r.token>>
                     THEN [surfaces EXCEPT ![r.page] = None] ELSE surfaces
  BY DEF TextLaidOut, PdfInv
<1>2. PdfTyped' /\ \A q \in Pages : surfaces'[q] # surfaces[q] =>
                     q = r.page /\ ~Current(r) /\ surfaces[q] = <<r.list, r.token>>
  BY <1>1 DEF PdfTyped, PdfSurfaces
<1>3. ListsKept'
  <2>1. canvases' \subseteq lists.shown \X Pages /\ (~scrolling => canvases' = {})
    BY <1>1 DEF ListsKept
  <2>2. QED
    BY <1>1, <2>1, ListsStand
<1>4. SheetComes'
  <2>1. surfaces[page] = <<Paged, tokens.paged>> => surfaces'[page] = surfaces[page]
    BY <1>1, <1>2 DEF Current, PdfTyped
  <2>2. ~scrolling =>
           \/ refused' = tokens.paged
           \/ \E x \in renders' : x.list = Paged /\ x.token = tokens.paged /\ x.at # "text"
           \/ sheet' = page /\ surfaces'[page] = <<Paged, tokens.paged>>
    BY <1>1, <2>1 DEF SheetComes
  <2>3. QED
    BY <1>1, <2>2, SheetStands
<1>5. SUFFICES ASSUME clashes = {} PROVE InView' /\ Seen'
  BY <1>1, <1>2, <1>3, <1>4 DEF PdfInv
<1>6. InView /\ Seen
  BY <1>5 DEF PdfInv
<1>7. InView'
  BY <1>1, <1>6, ViewStands
<1>8. Seen'
  <2>1. \A x \in renders : Awaited(x) => x \in renders' /\ x.at # "text"
    BY <1>1 DEF Awaited
  <2>2. ASSUME NEW p \in claimed, Drawn(p) PROVE surfaces'[p] = surfaces[p]
    <3>1. SUFFICES ASSUME p = r.page, ~Current(r), surfaces[p] = <<r.list, r.token>> PROVE FALSE
      BY <1>1, <1>2 DEF PdfTyped
    <3>2. Own(r) /\ Latest(r)
      BY <2>2, <3>1 DEF Drawn, Own, Latest
    <3>3. QED
      BY <1>1, <3>1, <3>2, AwaitedIsCurrent
  <2>3. QED
    BY <1>1, <1>6, <2>1, <2>2, SeenStands
<1>9. QED
  BY <1>7, <1>8

LEMMA FailsStep ==
  ASSUME PdfInv, NEW r \in renders, RenderFails(r) PROVE PdfInv'
<1>1. /\ UNCHANGED <<scrolling, lists, building, page, tokens, canvases, sheet, surfaces>>
      /\ renders' = renders \ {r}
      /\ spent' = [spent EXCEPT !.failures = @ + 1]
      /\ claimed' = IF r.list = Paged THEN claimed ELSE claimed \ {r.page}
      /\ refused' = IF r.list = Paged /\ r.at # "text" /\ Current(r) THEN r.token ELSE refused
      /\ clashes' = clashes \union
           {c \in {"unclaimed"} : /\ r.list # Paged /\ r.page \in claimed
                                 /\ (r.at = "text" \/ ~Own(r) \/ ~Current(r))}
      /\ PdfTyped /\ ListsKept /\ SheetComes
  BY DEF RenderFails, Fails, PdfInv
<1>2. r.token \in Nat /\ spent.failures \in Nat /\ spent' \in [scrolls : Nat, failures : Nat]
      /\ spent'.failures = spent.failures + 1 /\ spent'.failures # 0
  BY <1>1 DEF PdfTyped, PdfRender
<1>3. PdfTyped'
  BY <1>1, <1>2 DEF PdfTyped
<1>4. ListsKept'
  <2>1. canvases' \subseteq lists.shown \X Pages /\ (~scrolling => canvases' = {})
    BY <1>1 DEF ListsKept
  <2>2. QED
    BY <1>1, <2>1, ListsStand
<1>5. SheetComes'
  <2>1. ~scrolling =>
           \/ refused' = tokens.paged
           \/ \E x \in renders' : x.list = Paged /\ x.token = tokens.paged /\ x.at # "text"
           \/ sheet' = page /\ surfaces'[page] = <<Paged, tokens.paged>>
    BY <1>1 DEF SheetComes, Current
  <2>2. QED
    BY <1>1, <2>1, SheetStands
<1>6. SUFFICES ASSUME clashes' = {} PROVE InView' /\ Seen'
  BY <1>3, <1>4, <1>5 DEF PdfInv
<1>7. InView /\ Seen
  BY <1>1, <1>6 DEF PdfInv
<1>8. CASE claimed' = claimed
  <2>1. InView'
    BY <1>1, <1>2, <1>7, <1>8, ViewStands
  <2>2. \A x \in renders : Awaited(x) => x \in renders' /\ x.at # "text"
    <3>1. Awaited(r) => r.page \in claimed /\ r.list # Paged
      BY <1>1, <1>7, AwaitedIsCurrent DEF InView, Awaited
    <3>2. QED
      BY <1>1, <1>8, <3>1 DEF Awaited
  <2>3. Seen'
    BY <1>1, <1>7, <1>8, <2>2, SeenStands
  <2>4. QED
    BY <2>1, <2>3
<1>9. CASE claimed' # claimed
  <2>1. r.page \in claimed /\ claimed' = claimed \ {r.page} /\ r.at # "text" /\ Own(r) /\ Current(r)
    BY <1>1, <1>6, <1>9
  <2>2. Latest(r) /\ Awaited(r) /\ scrolling /\ lists.mine # None
    BY <1>1, <2>1, AwaitedIsCurrent DEF Awaited
  <2>3. \A x \in renders' : Own(x) => ~(x.page = r.page /\ Latest(x))
    BY <1>1, <1>7, <2>1, <2>2 DEF InView, Latest
  <2>4. <<lists.mine, r.page>> \notin canvases
    BY <1>7, <2>1, <2>2 DEF InView
  <2>5. InView'
    <3>1. \A x \in renders' : Own(x)' =>
            /\ x.token <= tokens'.render[x.page]
            /\ Latest(x)' => x.page \in claimed'
            /\ Awaited(x)' => <<lists'.mine, x.page>> \notin canvases'
      BY <1>1, <1>7, <2>1, <2>3 DEF InView, Own, Latest, Awaited
    <3>2. \A x, y \in renders' : Own(x)' /\ Own(y)' /\ x.page = y.page /\ x.token = y.token => x = y
      BY <1>1, <1>7 DEF InView, Own
    <3>3. canvases' \subseteq {lists'.mine} \X claimed'
      BY <1>1, <1>7, <2>1, <2>4 DEF InView
    <3>4. QED
      BY <1>1, <1>2, <1>7, <2>1, <3>1, <3>2, <3>3 DEF InView
  <2>6. Seen'
    <3>1. SUFFICES ASSUME NEW p \in claimed, p # r.page PROVE Coming(p)' \/ Drawn(p)'
      BY <2>1 DEF Seen
    <3>2. Coming(p) => Coming(p)'
      BY <1>1, <3>1 DEF Coming, Awaited, Own, Latest
    <3>3. Drawn(p) => Drawn(p)'
      BY <1>1 DEF Drawn
    <3>4. QED
      BY <1>7, <3>1, <3>2, <3>3 DEF Seen
  <2>7. QED
    BY <2>5, <2>6
<1>10. QED
  BY <1>8, <1>9

LEMMA PdfSteps == PdfInv /\ [PdfNext]_pdfVars => PdfInv'
<1>1. PdfInv /\ UNCHANGED pdfVars => PdfInv'
  BY DEF pdfVars, PdfInv, PdfTyped, ListsKept, SheetComes, InView, Seen, Coming, Drawn, Own,
     Latest, Awaited
<1>2. QED
  BY <1>1, ScrollStep, TurnStep, BuildStep, FinishStep, LeaveStep, GotPageStep, GotNothingStep,
     RasteredStep, TextStep, FailsStep DEF PdfNext

(* The invariant of the pages, in both views.                                  *)
THEOREM ScrollInvariance == PdfSpec => []PdfInv
BY PdfBegins, PdfSteps, PTL DEF PdfSpec

(* However long the document and wide the buffer, whatever is resized, turned  *)
(* or failed: when nothing is under way the page of the paged view is on its   *)
(* sheet; and, unless one of the clashes happened, no more pages than the      *)
(* window hold a canvas and the page in view of the scroll is drawn.           *)
THEOREM DrawsTheWindow == PdfSpec => []ScrollDrawsItsPages
<1>1. PdfInv => SettledSheetIsDrawn
  BY DEF PdfInv, SheetComes, SettledSheetIsDrawn, Settled
<1>2. PdfInv => ResidentPagesBounded
  <2>1. SUFFICES ASSUME PdfInv, clashes = {} PROVE ResidentPagesBounded
    BY DEF ResidentPagesBounded
  <2>2. CASE canvases = {}
    BY <2>2, FS_EmptySet, PdfConstants DEF ResidentPagesBounded
  <2>3. CASE canvases # {}
    <3>1. scrolling /\ claimed \subseteq Window(page) /\ page \in Pages
          /\ canvases \subseteq {lists.mine} \X claimed
      BY <2>1, <2>3 DEF PdfInv, PdfTyped, ListsKept, InView
    <3>2. IsFiniteSet(Window(page)) /\ Cardinality(Window(page)) <= 2 * Buffer + 1
          /\ Cardinality(Window(page)) \in Nat
      BY <3>1, FewInWindow, FS_CardinalityType
    <3>3. IsFiniteSet({lists.mine}) /\ Cardinality({lists.mine}) = 1
      BY FS_Singleton
    <3>4. IsFiniteSet({lists.mine} \X Window(page))
          /\ Cardinality({lists.mine} \X Window(page)) = 1 * Cardinality(Window(page))
      BY <3>2, <3>3, FS_Product
    <3>5. canvases \in SUBSET ({lists.mine} \X Window(page))
      BY <3>1
    <3>6. Cardinality(canvases) <= Cardinality({lists.mine} \X Window(page))
          /\ IsFiniteSet(canvases)
      BY <3>4, <3>5, FS_Subset
    <3>7. Cardinality(canvases) \in Nat
      BY <3>6, FS_CardinalityType
    <3>8. QED
      BY <3>2, <3>4, <3>6, <3>7, PdfConstants DEF ResidentPagesBounded
  <2>4. QED
    BY <2>2, <2>3
<1>3. PdfInv => SettledPageIsDrawn
  <2>1. SUFFICES ASSUME PdfInv, scrolling, building = {}, renders = {}, clashes = {}
                 PROVE  /\ lists.shown = {lists.mine}
                        /\ page \notin claimed => spent.failures > 0
                        /\ page \in claimed =>
                             /\ <<lists.mine, page>> \in canvases
                             /\ surfaces[page] = <<lists.mine, tokens.render[page]>>
    BY DEF SettledPageIsDrawn, Settled
  <2>2. InView /\ Seen /\ PdfTyped /\ lists.mine # None
    BY <2>1 DEF PdfInv, ListsKept
  <2>3. lists.shown = {lists.mine} /\ (spent.failures = 0 => claimed = Window(page))
    BY <2>1, <2>2 DEF InView
  <2>4. page \in Window(page) /\ spent.failures \in Nat
    BY <2>2, Windowed DEF PdfTyped
  <2>5. page \in claimed => Drawn(page)
    BY <2>1, <2>2 DEF Seen, Coming
  <2>6. QED
    BY <2>3, <2>4, <2>5 DEF Drawn
<1>4. QED
  BY <1>1, <1>2, <1>3, ScrollInvariance, PTL DEF ScrollDrawsItsPages

-----------------------------------------------------------------------------
(* ReadingPlace.                                                              *)

AllIn(q, S) == \A i \in 1..Len(q) : q[i] \in S

(* What a screen has depends on how far it is; the WebView shows something    *)
(* whenever it is sent or sends anything.                                     *)
Stages ==
  /\ reader.at \in {"away", "resolving"} =>
       route = NoRoute /\ reader = [NoReader EXCEPT !.at = reader.at]
  /\ reader.at \in {"away", "resolving", "opening"} =>
       web = NoWeb /\ reader.target = None /\ reader.attempts = 0
  /\ web.view = None => web = NoWeb
  /\ reader.at = "rendered" => web.view # None
  /\ reader.at = "opening" => reader.initial # None \/ FrontPlace \in chosen
  /\ reader.at = "jumping" => reader.resume # None
  /\ reader.target = None \/ reader.initial = None
  /\ row = None => route.checks = {} /\ ~route.asked
  /\ route.asked => route.incoming # None

(* The place the reader left at is written last.                              *)
WrittenLast ==
  reader.at \in {"away", "resolving"} /\ leftAt # None =>
    IF saving = <<>> THEN row = leftAt ELSE saving[Len(saving)] = leftAt

(* Whatever is saved or navigated to is the reader's.                         *)
Theirs ==
  /\ {row, elsewhere, reader.initial, reader.target, reader.resume,
      route.last, route.incoming} \subseteq chosen \union {None}
  /\ AllIn(saving, chosen) /\ AllIn(web.goTo, chosen)

(* Unless the front of the book is the reader's own place, the reports of it  *)
(* come before all others, and are too few to use up the resends: one for the *)
(* opening and one for each resize.                                           *)
Verifies == reader.initial # None \/ reader.target # None
Misses == IF reader.target = None THEN 0 ELSE reader.attempts
FrontComesFirst ==
  /\ AllIn(web.mail, chosen \union {FrontPlace})
  /\ web.view \in chosen \union {FrontPlace, None}
  /\ FrontPlace \notin chosen =>
       /\ \A i, j \in 1..Len(web.mail) :
            i < j /\ web.mail[j] = FrontPlace => web.mail[i] = FrontPlace
       /\ \A i \in 1..Len(web.mail) :
            web.mail[i] = FrontPlace => Verifies /\ Misses + i <= 1 + usedUp.resizes
       /\ web.view = FrontPlace =>
            /\ \A i \in 1..Len(web.mail) : web.mail[i] = FrontPlace
            /\ Verifies => Misses + Len(web.mail) <= 1 + usedUp.resizes
            /\ ~Verifies => usedUp.resizes >= MaxResends

InTime == ~early /\ usedUp.resizes <= MaxResends
PlaceInv == PlaceTypeOK /\ Stages /\ WrittenLast /\ (InTime => Theirs /\ FrontComesFirst)
-----------------------------------------------------------------------------
LEMMA PlaceConstants ==
  /\ FrontPlace \in Places /\ None \notin Places
  /\ MaxResends \in Nat /\ MaxMail \in Nat \ {0} /\ MaxMoves \in Nat /\ MaxResizes \in Nat
  /\ MaxElsewhere \in Nat /\ MaxOpenings \in Nat
BY PlacesAssumption, PlaceBoundsAssumption

(* Messages under way.                                                        *)
LEMMA MailIs == ASSUME NEW q PROVE q \in Mail <=> q \in Seq(Places) /\ Len(q) <= MaxMail
<1>1. ASSUME q \in Mail PROVE q \in Seq(Places) /\ Len(q) <= MaxMail
  <2>1. PICK n \in 0..MaxMail : q \in [1..n -> Places]
    BY <1>1 DEF Mail
  <2>2. n \in Nat /\ q \in Seq(Places)
    BY <2>1, PlaceConstants
  <2>3. QED
    BY <2>1, <2>2, PlaceConstants
<1>2. ASSUME q \in Seq(Places), Len(q) <= MaxMail PROVE q \in Mail
  <2>1. Len(q) \in 0..MaxMail /\ q \in [1..Len(q) -> Places]
    BY <1>2, PlaceConstants
  <2>2. QED
    BY <2>1 DEF Mail
<1>3. QED
  BY <1>1, <1>2

LEMMA Sent ==
  ASSUME NEW q \in Mail, HasRoom(q), NEW p \in Places
  PROVE  /\ Append(q, p) \in Mail /\ Append(q, p) # <<>>
         /\ Len(q) \in Nat /\ Len(Append(q, p)) = Len(q) + 1
         /\ Append(q, p)[Len(q) + 1] = p
         /\ \A i \in 1..Len(q) : Append(q, p)[i] = q[i]
<1>1. q \in Seq(Places) /\ Len(q) < MaxMail /\ Len(q) \in Nat
  BY MailIs DEF HasRoom
<1>2. Append(q, p) \in Seq(Places) /\ Len(Append(q, p)) = Len(q) + 1
      /\ Append(q, p)[Len(q) + 1] = p /\ \A i \in 1..Len(q) : Append(q, p)[i] = q[i]
  BY <1>1
<1>3. Append(q, p) # <<>>
  BY <1>1, <1>2
<1>4. Len(Append(q, p)) <= MaxMail
  BY <1>1, <1>2, PlaceConstants
<1>5. QED
  BY <1>1, <1>2, <1>3, <1>4, MailIs

LEMMA Received ==
  ASSUME NEW q \in Mail, q # <<>>
  PROVE  /\ Head(q) = q[1] /\ Head(q) \in Places /\ Tail(q) \in Mail
         /\ Len(q) \in Nat \ {0} /\ Len(Tail(q)) = Len(q) - 1
         /\ \A i \in 1..Len(Tail(q)) : Tail(q)[i] = q[i + 1]
         /\ Tail(q) = <<>> <=> Len(q) = 1
<1>1. q \in Seq(Places) /\ Len(q) <= MaxMail /\ Len(q) \in Nat \ {0}
  BY MailIs
<1>2. Head(q) = q[1] /\ Head(q) \in Places /\ Tail(q) \in Seq(Places)
      /\ Len(Tail(q)) = Len(q) - 1 /\ \A i \in 1..Len(Tail(q)) : Tail(q)[i] = q[i + 1]
  BY <1>1
<1>3. Len(Tail(q)) <= MaxMail
  BY <1>1, <1>2, PlaceConstants
<1>4. Tail(q) = <<>> <=> Len(q) = 1
  <2>1. Tail(q) = <<>> <=> Len(Tail(q)) = 0
    BY <1>2, EmptySeq
  <2>2. QED
    BY <1>1, <1>2, <2>1
<1>5. QED
  BY <1>1, <1>2, <1>3, <1>4, MailIs

LEMMA Unsent == /\ <<>> \in Mail /\ Len(<<>>) = 0 /\ \A S : AllIn(<<>>, S)
<1>1. <<>> \in Seq(Places) /\ Len(<<>>) = 0
  BY EmptySeq
<1>2. <<>> \in Mail
  <2>1. Len(<<>>) <= MaxMail
    BY <1>1, PlaceConstants
  <2>2. QED
    BY <1>1, <2>1, MailIs, Zenon
<1>3. \A S : AllIn(<<>>, S)
  <2>1. 1..Len(<<>>) = {}
    BY <1>1
  <2>2. QED
    BY <2>1, Zenon DEF AllIn
<1>4. QED
  BY <1>1, <1>2, <1>3

LEMMA FirstReport ==
  ASSUME NEW p \in Places
  PROVE  <<p>> \in Mail /\ Len(<<p>>) = 1 /\ <<p>>[1] = p
<1>1. <<p>> \in Seq(Places) /\ Len(<<p>>) = 1 /\ <<p>>[1] = p
  OBVIOUS
<1>2. Len(<<p>>) <= MaxMail
  BY <1>1, PlaceConstants
<1>3. QED
  BY <1>1, <1>2, MailIs

LEMMA AllSent ==
  ASSUME NEW q \in Mail, HasRoom(q), NEW S, NEW p \in Places, AllIn(q, S), p \in S
  PROVE  AllIn(Append(q, p), S)
BY Sent DEF AllIn

LEMMA AllReceived ==
  ASSUME NEW q \in Mail, q # <<>>, NEW S, AllIn(q, S)
  PROVE  AllIn(Tail(q), S) /\ Head(q) \in S
BY Received DEF AllIn

LEMMA AllMore == ASSUME NEW q, NEW S, NEW T, S \subseteq T, AllIn(q, S) PROVE AllIn(q, T)
BY DEF AllIn

LEMMA PlaceUsesUp ==
  ASSUME PlaceTypeOK, NEW what \in {"moves", "resizes", "elsewhere", "visits"}, UsesUp(what),
         what = "moves" => usedUp.moves < MaxMoves,
         what = "resizes" => usedUp.resizes < MaxResizes,
         what = "elsewhere" => usedUp.elsewhere < MaxElsewhere,
         what = "visits" => usedUp.visits < MaxOpenings
  PROVE  /\ usedUp' \in [moves : 0..MaxMoves, resizes : 0..MaxResizes,
                         elsewhere : 0..MaxElsewhere, visits : 0..MaxOpenings]
         /\ usedUp'.resizes = IF what = "resizes" THEN usedUp.resizes + 1 ELSE usedUp.resizes
<1>1. usedUp \in [moves : 0..MaxMoves, resizes : 0..MaxResizes,
                 elsewhere : 0..MaxElsewhere, visits : 0..MaxOpenings]
  BY DEF PlaceTypeOK
<1>2. CASE what = "moves"
  BY <1>1, <1>2, PlaceConstants DEF UsesUp
<1>3. CASE what = "resizes"
  BY <1>1, <1>3, PlaceConstants DEF UsesUp
<1>4. CASE what = "elsewhere"
  BY <1>1, <1>4, PlaceConstants DEF UsesUp
<1>5. CASE what = "visits"
  BY <1>1, <1>5, PlaceConstants DEF UsesUp
<1>6. QED
  BY <1>2, <1>3, <1>4, <1>5

LEMMA PlaceStarts == PlaceInit => PlaceInv
<1> SUFFICES ASSUME PlaceInit PROVE PlaceInv
  OBVIOUS
<1>1. web = NoWeb /\ NoWeb \in [view : MaybePlace, goTo : Mail, mail : Mail]
  BY Unsent DEF PlaceInit, NoWeb, MaybePlace
<1>2. reader = NoReader /\ NoReader \in Reader /\ route = NoRoute /\ NoRoute \in Route
  BY PlaceConstants DEF PlaceInit, NoReader, Reader, NoRoute, Route, MaybePlace
<1>3. usedUp \in [moves : 0..MaxMoves, resizes : 0..MaxResizes,
                 elsewhere : 0..MaxElsewhere, visits : 0..MaxOpenings]
      /\ usedUp.resizes = 0
  BY PlaceConstants DEF PlaceInit
<1>4. PlaceTypeOK
  BY <1>1, <1>2, <1>3, Unsent DEF PlaceInit, PlaceTypeOK, MaybePlace
<1>5. Stages /\ WrittenLast
  BY <1>1, <1>2 DEF PlaceInit, Stages, WrittenLast, NoReader, NoRoute, NoWeb
<1>6. Theirs
  BY <1>1, <1>2, Unsent DEF PlaceInit, Theirs, NoReader, NoRoute, NoWeb
<1>7. FrontComesFirst
  <2>1. web.mail = <<>> /\ web.view = None /\ 1..Len(web.mail) = {}
    BY <1>1, Unsent DEF NoWeb
  <2>2. QED
    BY <2>1, PlaceConstants, Unsent DEF FrontComesFirst
<1>8. QED
  BY <1>4, <1>5, <1>6, <1>7 DEF PlaceInv

(* Types.                                                                     *)
UsedUp == [moves : 0..MaxMoves, resizes : 0..MaxResizes,
           elsewhere : 0..MaxElsewhere, visits : 0..MaxOpenings]
Web == [view : MaybePlace, goTo : Mail, mail : Mail]

LEMMA Webs ==
  /\ \A v \in MaybePlace, g, m \in Mail : [view |-> v, goTo |-> g, mail |-> m] \in Web
  /\ \A w \in Web, v \in MaybePlace, q \in Mail :
       /\ [w EXCEPT !.view = v, !.mail = q] \in Web
       /\ [w EXCEPT !.mail = q] \in Web /\ [w EXCEPT !.goTo = q] \in Web
  /\ \A w \in Web, g, m \in Mail : [w EXCEPT !.goTo = g, !.mail = m] \in Web
BY DEF Web

LEMMA PlaceTyped == PlaceTypeOK /\ Stages /\ [PlaceNext]_placeVars => PlaceTypeOK'
<1> SUFFICES ASSUME PlaceTypeOK, Stages, [PlaceNext]_placeVars PROVE PlaceTypeOK'
  OBVIOUS
<1>a. /\ {row, elsewhere, leftAt} \subseteq MaybePlace /\ saving \in Mail /\ web \in Web
      /\ reader \in Reader /\ route \in Route /\ usedUp \in UsedUp
      /\ chosen \subseteq Places /\ foreign \in BOOLEAN /\ early \in BOOLEAN
  BY DEF PlaceTypeOK, Web, UsedUp
<1>b. /\ NoReader \in Reader /\ NoRoute \in Route /\ NoWeb \in Web
      /\ \A p \in Places : p # None /\ p \in MaybePlace
  BY PlaceConstants, Unsent DEF NoReader, Reader, NoRoute, Route, NoWeb, Web, MaybePlace
<1>c. SUFFICES
        /\ {row', elsewhere', leftAt'} \subseteq MaybePlace /\ saving' \in Mail /\ web' \in Web
        /\ reader' \in Reader /\ route' \in Route /\ usedUp' \in UsedUp
        /\ chosen' \subseteq Places /\ foreign' \in BOOLEAN /\ early' \in BOOLEAN
  BY DEF PlaceTypeOK, Web, UsedUp
<1>1. CASE Save
  <2>1. saving' \in Mail /\ Head(saving) \in Places
    BY <1>a, <1>b, <1>1, Received DEF Save
  <2>2. route' \in Route
    BY <1>a, <1>b, <1>1 DEF Save, Announced, Route, MaybePlace
  <2>3. QED
    BY <1>a, <1>b, <1>1, <2>1, <2>2 DEF Save, MaybePlace
<1>2. CASE PullPlace
  <2>1. route' \in Route
    BY <1>a, <1>b, <1>2 DEF PullPlace, Announced, Route, MaybePlace
  <2>2. QED
    BY <1>a, <1>b, <1>2, <2>1 DEF PullPlace, MaybePlace
<1>3. CASE ReadsElsewhere
  <2>1. usedUp' \in UsedUp
    BY <1>a, <1>3, PlaceUsesUp DEF ReadsElsewhere, UsedUp
  <2>2. QED
    BY <1>a, <1>b, <1>3, <2>1 DEF ReadsElsewhere, MaybePlace
<1>4. CASE EnterReader
  <2>1. usedUp' \in UsedUp
    BY <1>a, <1>4, PlaceUsesUp DEF EnterReader, UsedUp
  <2>2. reader' \in Reader
    BY <1>a, <1>b, <1>4 DEF EnterReader, Reader
  <2>3. QED
    BY <1>a, <1>b, <1>4, <2>1, <2>2 DEF EnterReader
<1>5. CASE Resolve
  <2>1. reader' \in Reader
    BY <1>a, <1>b, <1>5 DEF Resolve, Reader, MaybePlace
  <2>2. chosen' \subseteq Places
    <3>1. chosen' \in {chosen, chosen \union {FrontPlace}}
          \/ \E p \in Places : chosen' = chosen \union {p}
      BY <1>5 DEF Resolve
    <3>2. QED
      BY <1>a, <3>1, PlaceConstants
  <2>3. QED
    BY <1>a, <1>b, <1>5, <2>1, <2>2 DEF Resolve, MaybePlace
<1>6. CASE Rendered
  <2>1. reader' \in Reader
    BY <1>a, <1>b, <1>6 DEF Rendered, Reader
  <2>2. web' \in Web
    BY <1>a, <1>b, <1>6, FirstReport, PlaceConstants, Unsent, Webs DEF Rendered
  <2>3. QED
    BY <1>a, <1>b, <1>6, <2>1, <2>2 DEF Rendered
<1>7. CASE SendInitial
  <2>1. reader.initial \in Places /\ web.goTo \in Mail /\ HasRoom(web.goTo)
    BY <1>a, <1>7 DEF SendInitial, Reader, Web, MaybePlace
  <2>2. web' \in Web
    BY <1>a, <1>7, <2>1, Sent, Webs DEF SendInitial
  <2>3. reader' \in Reader
    <3>1. reader' = [reader EXCEPT !.initial = None, !.target = reader.initial, !.attempts = 0]
      BY <1>7 DEF SendInitial
    <3>2. 0 \in 0..MaxResends /\ None \in MaybePlace /\ reader.initial \in MaybePlace
      BY <1>a, PlaceConstants DEF MaybePlace, Reader
    <3>3. QED
      BY <1>a, <3>1, <3>2 DEF Reader
  <2>4. QED
    BY <1>a, <1>b, <1>7, <2>1, <2>2, <2>3 DEF SendInitial
<1>8. CASE Navigate
  <2>1. /\ web.goTo \in Mail /\ web.goTo # <<>> /\ web.mail \in Mail /\ HasRoom(web.mail)
        /\ Head(web.goTo) \in Places /\ Tail(web.goTo) \in Mail
    BY <1>a, <1>8, Received DEF Navigate, Web
  <2>2. web.view \in Places
    BY <1>a, <2>1 DEF Stages, NoWeb, Web, MaybePlace
  <2>3. Append(web.mail, Head(web.goTo)) \in Mail /\ Append(web.mail, web.view) \in Mail
    BY <2>1, <2>2, Sent
  <2>4. web' \in Web
    <3>1. \/ web' = [view |-> Head(web.goTo), goTo |-> Tail(web.goTo),
                     mail |-> Append(web.mail, Head(web.goTo))]
          \/ web' = [web EXCEPT !.goTo = Tail(web.goTo), !.mail = Append(web.mail, web.view)]
      BY <1>8 DEF Navigate
    <3>2. web.view \in MaybePlace
      BY <1>a DEF Web
    <3>3. \A p \in Places : p \in MaybePlace
      BY <1>b
    <3>4. ASSUME web' = [view |-> Head(web.goTo), goTo |-> Tail(web.goTo),
                         mail |-> Append(web.mail, Head(web.goTo))]
          PROVE  web' \in Web
      BY <2>1, <2>3, <3>3, <3>4, Webs
    <3>5. ASSUME web' = [web EXCEPT !.goTo = Tail(web.goTo), !.mail = Append(web.mail, web.view)]
          PROVE  web' \in Web
      BY <1>a, <2>1, <2>3, <3>5, Webs
    <3>6. QED
      BY <3>1, <3>4, <3>5
  <2>5. usedUp' \in UsedUp
    BY <1>a, <1>8, PlaceUsesUp DEF Navigate, UsedUp
  <2>6. QED
    BY <1>a, <1>8, <2>4, <2>5 DEF Navigate
<1>9. CASE TurnPage
  <2>1. usedUp' \in UsedUp
    BY <1>a, <1>9, PlaceUsesUp DEF TurnPage, UsedUp
  <2>2. web' \in Web
    <3>1. PICK p \in Places : web' = [web EXCEPT !.view = p, !.mail = Append(web.mail, p)]
      BY <1>9 DEF TurnPage
    <3>2. web.mail \in Mail /\ HasRoom(web.mail)
      BY <1>a, <1>9 DEF TurnPage, Web
    <3>3. Append(web.mail, p) \in Mail
      BY <3>2, Sent
    <3>4. QED
      BY <1>a, <1>b, <3>1, <3>3, Webs
  <2>3. QED
    BY <1>a, <1>b, <1>9, <2>1, <2>2 DEF TurnPage
<1>10. CASE Seek
  <2>1. usedUp' \in UsedUp
    BY <1>a, <1>10, PlaceUsesUp DEF Seek, UsedUp
  <2>2. web' \in Web
    <3>1. PICK p \in Places : web' = [web EXCEPT !.goTo = Append(web.goTo, p)]
      BY <1>10 DEF Seek
    <3>2. web.goTo \in Mail /\ HasRoom(web.goTo)
      BY <1>a, <1>10 DEF Seek, Web
    <3>3. Append(web.goTo, p) \in Mail
      BY <3>2, Sent
    <3>4. QED
      BY <1>a, <1>b, <3>1, <3>3, Webs
  <2>3. reader' \in Reader
    BY <1>a, <1>b, <1>10 DEF Seek, Reader, MaybePlace
  <2>4. early' \in BOOLEAN
    BY <1>a, <1>b, <1>10 DEF Seek
  <2>5. QED
    BY <1>a, <1>b, <1>10, <2>1, <2>2, <2>3, <2>4 DEF Seek
<1>11. CASE Relocated
  <2> DEFINE p == Head(web.mail)
  <2>1. /\ p \in Places /\ Tail(web.mail) \in Mail /\ web.goTo \in Mail /\ HasRoom(web.goTo)
        /\ HasRoom(saving) /\ web.mail # <<>>
    BY <1>a, <1>11, Received DEF Relocated, Web
  <2>2. Resends(p) => reader.target \in Places /\ reader.attempts + 1 \in 0..MaxResends
    BY <1>a, PlaceConstants DEF Resends, Reader, MaybePlace
  <2>3. Append(saving, p) \in Mail
    BY <1>a, <2>1, Sent
  <2>4. Resends(p) => Append(web.goTo, reader.target) \in Mail
    BY <2>1, <2>2, Sent
  <2>5. /\ web' = [web EXCEPT !.mail = Tail(@),
                             !.goTo = IF Resends(p) THEN Append(@, reader.target) ELSE @]
        /\ reader' = IF Resends(p) THEN [reader EXCEPT !.attempts = @ + 1]
                     ELSE [reader EXCEPT !.target = None]
        /\ IF Reports(p) THEN Report(p) ELSE UNCHANGED <<route, saving>>
        /\ UNCHANGED <<row, elsewhere, usedUp, chosen, leftAt, foreign, early>>
    BY <1>11 DEF Relocated
  <2> HIDE DEF p
  <2>6. web' \in Web
    BY <1>a, <2>1, <2>4, <2>5 DEF Web
  <2>7. reader' \in Reader
    BY <1>a, <2>2, <2>5 DEF Reader, MaybePlace
  <2>8. route' \in Route /\ saving' \in Mail
    BY <1>a, <1>b, <2>1, <2>3, <2>5 DEF Report, Route
  <2>9. QED
    BY <1>a, <2>5, <2>6, <2>7, <2>8
<1>12. CASE ThrottleEnds
  <2>1. route' \in Route
    BY <1>a, <1>b, <1>12 DEF ThrottleEnds, Route
  <2>2. QED
    BY <1>a, <1>b, <1>12, <2>1 DEF ThrottleEnds
<1>13. CASE Compare
  <2>1. route' \in Route
    BY <1>a, <1>b, <1>13 DEF Compare, Route
  <2>2. QED
    BY <1>a, <1>b, <1>13, <2>1 DEF Compare
<1>14. CASE ContinueHere
  <2>1. route' \in Route
    BY <1>a, <1>b, <1>14 DEF ContinueHere, Route, MaybePlace
  <2>2. saving' \in Mail
    BY <1>a, <1>14, Sent DEF ContinueHere, Flushed, Route, MaybePlace
  <2>3. QED
    BY <1>a, <1>b, <1>14, <2>1, <2>2 DEF ContinueHere
<1>15. CASE ResumeThere
  <2>1. usedUp' \in UsedUp
    BY <1>a, <1>15, PlaceUsesUp DEF ResumeThere, UsedUp
  <2>2. reader' \in Reader
    BY <1>a, <1>b, <1>15 DEF ResumeThere, Reader, Route
  <2>3. route' \in Route
    BY <1>a, <1>b, <1>15 DEF ResumeThere, Route, MaybePlace
  <2>4. QED
    BY <1>a, <1>b, <1>15, <2>1, <2>2, <2>3 DEF ResumeThere
<1>16. CASE Remount
  <2>1. reader' \in Reader
    BY <1>a, <1>b, <1>16 DEF Remount, Reader
  <2>2. QED
    BY <1>a, <1>b, <1>16, <2>1 DEF Remount
<1>17. CASE GoesToBackground
  <2>1. saving' \in Mail
    BY <1>a, <1>17, Sent DEF GoesToBackground, Flushed, Route, MaybePlace
  <2>2. QED
    BY <1>a, <1>b, <1>17, <2>1 DEF GoesToBackground
<1>18. CASE LeaveReader
  <2>1. saving' \in Mail
    BY <1>a, <1>18, Sent DEF LeaveReader, Flushed, Route, MaybePlace
  <2>2. leftAt' \in MaybePlace
    BY <1>a, <1>b, <1>18 DEF LeaveReader, Route
  <2>3. QED
    BY <1>a, <1>b, <1>18, <2>1, <2>2, Unsent DEF LeaveReader
<1>19. CASE ReaderDies
  BY <1>a, <1>b, <1>19, Unsent DEF ReaderDies, MaybePlace
<1>20. CASE UNCHANGED placeVars
  BY <1>a, <1>20 DEF placeVars
<1>21. QED
  BY <1>1, <1>2, <1>3, <1>4, <1>5, <1>6, <1>7, <1>8, <1>9, <1>10, <1>11,
     <1>12, <1>13, <1>14, <1>15, <1>16, <1>17, <1>18, <1>19, <1>20 DEF PlaceNext
(* Stages.                                                                    *)
LEMMA PlaceStages == PlaceTypeOK /\ Stages /\ [PlaceNext]_placeVars => Stages'
<1> SUFFICES ASSUME PlaceTypeOK, Stages, [PlaceNext]_placeVars PROVE Stages'
  OBVIOUS
<1>a. /\ row \in MaybePlace /\ elsewhere \in MaybePlace /\ saving \in Mail /\ web \in Web
      /\ reader \in Reader /\ route \in Route /\ None \notin Places /\ FrontPlace \in Places
  BY PlaceConstants DEF PlaceTypeOK, Web
<1>1. CASE Save
  BY <1>a, <1>1, Received DEF Save, Stages, Web, Reader, Route, MaybePlace, Announced, Open, NoRoute
<1>2. CASE PullPlace
  BY <1>a, <1>2 DEF PullPlace, Stages, Web, Reader, Route, MaybePlace, Announced, Open, NoRoute
<1>3. CASE ReadsElsewhere
  BY <1>a, <1>3 DEF ReadsElsewhere, Stages, Web, Reader, Route, MaybePlace
<1>4. CASE EnterReader
  BY <1>a, <1>4 DEF EnterReader, Stages, Web, Reader, Route, MaybePlace, NoReader
<1>5. CASE Resolve
  BY <1>a, <1>5 DEF Resolve, Stages, Web, Reader, Route, MaybePlace, NoReader, NoRoute
<1>6. CASE Rendered
  BY <1>a, <1>6 DEF Rendered, Stages, Web, Reader, Route, MaybePlace, NoWeb, NoReader
<1>7. CASE SendInitial
  BY <1>a, <1>7 DEF SendInitial, Stages, Web, Reader, Route, MaybePlace, NoReader
<1>8. CASE Navigate
  <2>1. web.goTo \in Mail /\ web.goTo # <<>> /\ UNCHANGED <<row, reader, route, chosen>>
    BY <1>a, <1>8 DEF Navigate, Web
  <2>2. web.view # None /\ reader.at \in {"rendered", "jumping"}
    BY <1>a, <2>1 DEF Stages, NoWeb, Reader
  <2>3. Head(web.goTo) \in Places
    BY <2>1, Received
  <2>4. web'.view # None
    <3>1. \/ web' = [view |-> Head(web.goTo), goTo |-> Tail(web.goTo),
                     mail |-> Append(web.mail, Head(web.goTo))]
          \/ web' = [web EXCEPT !.goTo = Tail(web.goTo), !.mail = Append(web.mail, web.view)]
      BY <1>8 DEF Navigate
    <3>2. ASSUME web' = [view |-> Head(web.goTo), goTo |-> Tail(web.goTo),
                         mail |-> Append(web.mail, Head(web.goTo))]
          PROVE  web'.view = Head(web.goTo)
      BY <3>2
    <3>3. ASSUME web' = [web EXCEPT !.goTo = Tail(web.goTo), !.mail = Append(web.mail, web.view)]
          PROVE  web'.view = web.view
      BY <1>a, <3>3 DEF Web
    <3>4. QED
      BY <1>a, <2>2, <2>3, <3>1, <3>2, <3>3
  <2>5. QED
    BY <2>1, <2>2, <2>4 DEF Stages
<1>9. CASE TurnPage
  BY <1>a, <1>9 DEF TurnPage, Stages, Web, Reader, Route, MaybePlace, NoWeb
<1>10. CASE Seek
  BY <1>a, <1>10 DEF Seek, Stages, Web, Reader, Route, MaybePlace, NoReader, NoWeb
<1>11. CASE Relocated
  <2>1. web.mail \in Mail /\ web.mail # <<>> /\ UNCHANGED <<row, chosen>>
    BY <1>a, <1>11 DEF Relocated, Web
  <2>2. web.view # None /\ reader.at \in {"rendered", "jumping"}
    BY <1>a, <2>1 DEF Stages, NoWeb, Reader
  <2>3. web'.view = web.view
    BY <1>a, <1>11 DEF Relocated, Web
  <2>4. /\ reader'.at = reader.at /\ reader'.resume = reader.resume
        /\ reader'.initial = reader.initial /\ reader'.target \in {reader.target, None}
    BY <1>a, <1>11 DEF Relocated, Reader
  <2>5. UNCHANGED <<route.checks, route.asked, route.incoming>>
    BY <1>a, <1>11 DEF Relocated, Report, Route
  <2>6. QED
    BY <2>1, <2>2, <2>3, <2>4, <2>5 DEF Stages
<1>12. CASE ThrottleEnds
  BY <1>a, <1>12 DEF ThrottleEnds, Stages, Web, Reader, Route, MaybePlace, NoRoute
<1>13. CASE Compare
  BY <1>a, <1>13 DEF Compare, Stages, Web, Reader, Route, MaybePlace, NoRoute
<1>14. CASE ContinueHere
  BY <1>a, <1>14 DEF ContinueHere, Stages, Web, Reader, Route, MaybePlace, NoRoute, NoReader
<1>15. CASE ResumeThere
  BY <1>a, <1>15 DEF ResumeThere, Stages, Web, Reader, Route, MaybePlace, NoRoute, NoReader
<1>16. CASE Remount
  BY <1>a, <1>16 DEF Remount, Stages, Web, Reader, Route, MaybePlace, NoReader, NoWeb
<1>17. CASE GoesToBackground
  BY <1>a, <1>17 DEF GoesToBackground, Stages, Web, Reader, Route, MaybePlace
<1>18. CASE LeaveReader
  BY <1>a, <1>18 DEF LeaveReader, Stages, Web, Reader, Route, MaybePlace, NoReader, NoWeb, NoRoute
<1>19. CASE ReaderDies
  BY <1>a, <1>19 DEF ReaderDies, Stages, Web, Reader, Route, MaybePlace, NoReader, NoWeb, NoRoute
<1>20. CASE UNCHANGED placeVars
  BY <1>20 DEF placeVars, Stages
<1>21. QED
  BY <1>1, <1>2, <1>3, <1>4, <1>5, <1>6, <1>7, <1>8, <1>9, <1>10, <1>11,
     <1>12, <1>13, <1>14, <1>15, <1>16, <1>17, <1>18, <1>19, <1>20 DEF PlaceNext
(* What is written last.                                                      *)
LEMMA PlaceWritten ==
  PlaceTypeOK /\ Stages /\ WrittenLast /\ [PlaceNext]_placeVars => WrittenLast'
<1> SUFFICES ASSUME PlaceTypeOK, Stages, WrittenLast, [PlaceNext]_placeVars PROVE WrittenLast'
  OBVIOUS
<1>a. /\ saving \in Mail /\ reader \in Reader /\ route \in Route
  BY DEF PlaceTypeOK
<1>b. SUFFICES ASSUME reader'.at \in {"away", "resolving"}, leftAt' # None
               PROVE  IF saving' = <<>> THEN row' = leftAt' ELSE saving'[Len(saving')] = leftAt'
  BY DEF WrittenLast
<1>c. reader.at \in {"away", "resolving"} => ~route.asked /\ web.mail = <<>>
  BY DEF Stages, NoRoute, NoWeb
<1>1. CASE Save
  <2>1. saving # <<>> /\ row' = Head(saving) /\ saving' = Tail(saving)
        /\ UNCHANGED <<reader, leftAt>>
    BY <1>1 DEF Save
  <2>2. saving[Len(saving)] = leftAt
    BY <1>b, <2>1 DEF WrittenLast
  <2>3. CASE Len(saving) = 1
    BY <1>a, <2>1, <2>2, <2>3, Received
  <2>4. CASE Len(saving) # 1
    <3>1. Tail(saving) # <<>> /\ Len(saving) \in Nat /\ Len(Tail(saving)) = Len(saving) - 1
          /\ Len(Tail(saving)) \in 1..Len(Tail(saving))
      BY <1>a, <2>1, <2>4, Received
    <3>2. Tail(saving)[Len(Tail(saving))] = saving[Len(Tail(saving)) + 1]
      BY <1>a, <2>1, <3>1, Received
    <3>3. QED
      BY <2>1, <2>2, <3>1, <3>2
  <2>5. QED
    BY <2>3, <2>4
<1>2. CASE PullPlace
  BY <1>a, <1>b, <1>c, <1>2 DEF PullPlace, WrittenLast
<1>3. CASE ReadsElsewhere
  BY <1>a, <1>b, <1>c, <1>3 DEF ReadsElsewhere, WrittenLast
<1>4. CASE EnterReader
  BY <1>a, <1>b, <1>c, <1>4 DEF EnterReader, WrittenLast, NoReader
<1>5. CASE Resolve
  BY <1>a, <1>b, <1>c, <1>5 DEF Resolve, WrittenLast, Reader
<1>6. CASE Rendered
  BY <1>a, <1>b, <1>c, <1>6 DEF Rendered, WrittenLast, Reader
<1>7. CASE SendInitial
  BY <1>a, <1>b, <1>c, <1>7 DEF SendInitial, WrittenLast, Reader
<1>8. CASE Navigate
  BY <1>a, <1>b, <1>c, <1>8 DEF Navigate, WrittenLast
<1>9. CASE TurnPage
  BY <1>a, <1>b, <1>c, <1>9 DEF TurnPage, WrittenLast
<1>10. CASE Seek
  BY <1>a, <1>b, <1>c, <1>10 DEF Seek, WrittenLast, Reader
<1>11. CASE Relocated
  BY <1>a, <1>b, <1>c, <1>11 DEF Relocated, WrittenLast, Reader
<1>12. CASE ThrottleEnds
  BY <1>a, <1>b, <1>c, <1>12 DEF ThrottleEnds, WrittenLast
<1>13. CASE Compare
  BY <1>a, <1>b, <1>c, <1>13 DEF Compare, WrittenLast
<1>14. CASE ContinueHere
  BY <1>a, <1>b, <1>c, <1>14 DEF ContinueHere, WrittenLast
<1>15. CASE ResumeThere
  BY <1>a, <1>b, <1>c, <1>15 DEF ResumeThere, WrittenLast, Reader
<1>16. CASE Remount
  BY <1>a, <1>b, <1>c, <1>16 DEF Remount, WrittenLast, NoReader
<1>17. CASE GoesToBackground
  BY <1>a, <1>b, <1>c, <1>17 DEF GoesToBackground, WrittenLast, Open
<1>18. CASE LeaveReader
  <2>1. route.last \in Places /\ HasRoom(saving) /\ leftAt' = route.last
        /\ saving' = Append(saving, route.last)
    BY <1>a, <1>b, <1>18 DEF LeaveReader, Flushed, Route, MaybePlace
  <2>2. QED
    BY <1>a, <2>1, Sent
<1>19. CASE ReaderDies
  BY <1>a, <1>b, <1>c, <1>19 DEF ReaderDies, WrittenLast
<1>20. CASE UNCHANGED placeVars
  BY <1>b, <1>20 DEF placeVars, WrittenLast
<1>21. QED
  BY <1>1, <1>2, <1>3, <1>4, <1>5, <1>6, <1>7, <1>8, <1>9, <1>10, <1>11,
     <1>12, <1>13, <1>14, <1>15, <1>16, <1>17, <1>18, <1>19, <1>20 DEF PlaceNext
(* What is the reader's.                                                      *)
LEMMA PlaceGrows ==
  ASSUME PlaceTypeOK, [PlaceNext]_placeVars
  PROVE  /\ chosen \subseteq chosen' /\ (early => early')
         /\ usedUp.resizes \in Nat /\ usedUp'.resizes \in Nat
         /\ usedUp.resizes <= usedUp'.resizes
         /\ Navigate \/ usedUp'.resizes = usedUp.resizes
<1>a. usedUp \in UsedUp /\ usedUp.resizes \in Nat
  BY PlaceConstants DEF PlaceTypeOK, UsedUp
<1>1. CASE Save
  BY <1>a, <1>1 DEF Save
<1>2. CASE PullPlace
  BY <1>a, <1>2 DEF PullPlace
<1>3. CASE ReadsElsewhere
  BY <1>a, <1>3, PlaceUsesUp DEF ReadsElsewhere
<1>4. CASE EnterReader
  BY <1>a, <1>4, PlaceUsesUp DEF EnterReader
<1>5. CASE Resolve
  <2>1. chosen \subseteq chosen'
    BY <1>5 DEF Resolve
  <2>2. UNCHANGED <<usedUp, early>>
    BY <1>5 DEF Resolve
  <2>3. QED
    BY <1>a, <2>1, <2>2
<1>6. CASE Rendered
  BY <1>a, <1>6 DEF Rendered
<1>7. CASE SendInitial
  BY <1>a, <1>7 DEF SendInitial
<1>8. CASE Navigate
  BY <1>a, <1>8, PlaceUsesUp DEF Navigate
<1>9. CASE TurnPage
  BY <1>a, <1>9, PlaceUsesUp DEF TurnPage
<1>10. CASE Seek
  <2>1. usedUp'.resizes = usedUp.resizes
    BY <1>a, <1>10, PlaceUsesUp DEF Seek
  <2>2. chosen \subseteq chosen' /\ (early => early')
    BY <1>10 DEF Seek
  <2>3. QED
    BY <1>a, <2>1, <2>2
<1>11. CASE Relocated
  BY <1>a, <1>11 DEF Relocated
<1>12. CASE ThrottleEnds
  BY <1>a, <1>12 DEF ThrottleEnds
<1>13. CASE Compare
  BY <1>a, <1>13 DEF Compare
<1>14. CASE ContinueHere
  BY <1>a, <1>14 DEF ContinueHere
<1>15. CASE ResumeThere
  BY <1>a, <1>15, PlaceUsesUp DEF ResumeThere
<1>16. CASE Remount
  BY <1>a, <1>16 DEF Remount
<1>17. CASE GoesToBackground
  BY <1>a, <1>17 DEF GoesToBackground
<1>18. CASE LeaveReader
  BY <1>a, <1>18 DEF LeaveReader
<1>19. CASE ReaderDies
  BY <1>a, <1>19 DEF ReaderDies
<1>20. CASE UNCHANGED placeVars
  BY <1>a, <1>20 DEF placeVars
<1>21. QED
  BY <1>1, <1>2, <1>3, <1>4, <1>5, <1>6, <1>7, <1>8, <1>9, <1>10, <1>11,
     <1>12, <1>13, <1>14, <1>15, <1>16, <1>17, <1>18, <1>19, <1>20 DEF PlaceNext

(* What leaves the view, its reports and the verification alone.              *)
LEMMA FrontStays ==
  ASSUME PlaceTypeOK, FrontComesFirst, chosen \subseteq chosen',
         UNCHANGED <<web.mail, web.view, Verifies, Misses, usedUp.resizes>>
  PROVE  FrontComesFirst'
<1>1. web.mail \in Mail
  BY DEF PlaceTypeOK
<1>2. AllIn(web.mail, chosen' \union {FrontPlace})
  BY AllMore DEF FrontComesFirst
<1>3. QED
  BY <1>2 DEF FrontComesFirst

LEMMA FrontGone == web' = NoWeb => FrontComesFirst'
<1>1. SUFFICES ASSUME web' = NoWeb PROVE FrontComesFirst'
  OBVIOUS
<1>2. web'.mail = <<>> /\ web'.view = None
  BY <1>1 DEF NoWeb
<1>3. AllIn(web'.mail, chosen' \union {FrontPlace}) /\ 1..Len(web'.mail) = {}
  BY <1>2, Unsent
<1>4. QED
  BY <1>2, <1>3, PlaceConstants DEF FrontComesFirst

(* A place of the reader's is reported after the others.                      *)
LEMMA FrontBefore ==
  ASSUME PlaceTypeOK, FrontComesFirst, chosen \subseteq chosen', HasRoom(web.mail),
         NEW p \in Places, p \in chosen', web'.view = p, web'.mail = Append(web.mail, p),
         UNCHANGED <<Verifies, Misses, usedUp.resizes>>
  PROVE  FrontComesFirst'
<1>1. web.mail \in Mail
  BY DEF PlaceTypeOK
<1>2. /\ Len(web.mail) \in Nat /\ Len(web'.mail) = Len(web.mail) + 1
      /\ web'.mail[Len(web.mail) + 1] = p
      /\ \A i \in 1..Len(web.mail) : web'.mail[i] = web.mail[i]
  BY <1>1, Sent
<1>3. AllIn(web'.mail, chosen' \union {FrontPlace})
  <2>1. AllIn(web.mail, chosen' \union {FrontPlace})
    BY AllMore DEF FrontComesFirst
  <2>2. QED
    BY <1>1, <2>1, AllSent
<1>4. SUFFICES ASSUME FrontPlace \notin chosen'
               PROVE  /\ \A i, j \in 1..Len(web'.mail) :
                           i < j /\ web'.mail[j] = FrontPlace => web'.mail[i] = FrontPlace
                      /\ \A i \in 1..Len(web'.mail) :
                           web'.mail[i] = FrontPlace
                             => Verifies' /\ Misses' + i <= 1 + usedUp'.resizes
  BY <1>3 DEF FrontComesFirst
<1>5. /\ \A i, j \in 1..Len(web.mail) :
           i < j /\ web.mail[j] = FrontPlace => web.mail[i] = FrontPlace
      /\ \A i \in 1..Len(web.mail) :
           web.mail[i] = FrontPlace => Verifies /\ Misses + i <= 1 + usedUp.resizes
  BY <1>4 DEF FrontComesFirst
<1>6. \A i \in 1..Len(web'.mail) :
        web'.mail[i] = FrontPlace => i \in 1..Len(web.mail) /\ web.mail[i] = FrontPlace
  BY <1>2, <1>4
<1>7. QED
  BY <1>2, <1>5, <1>6

LEMMA FrontAgain ==
  ASSUME PlaceTypeOK, Stages, FrontComesFirst, InTime', HasRoom(web.mail),
         web.goTo # <<>>, web'.view = web.view, web'.mail = Append(web.mail, web.view),
         UNCHANGED <<Verifies, Misses, chosen>>, usedUp'.resizes = usedUp.resizes + 1
  PROVE  FrontComesFirst'
<1>1. /\ web.mail \in Mail /\ Misses \in Nat /\ usedUp.resizes \in Nat
      /\ web.view \in Places
  BY PlaceConstants DEF PlaceTypeOK, Misses, Reader, Stages, NoWeb, MaybePlace
<1>2. /\ Len(web.mail) \in Nat /\ Len(web'.mail) = Len(web.mail) + 1
      /\ web'.mail[Len(web.mail) + 1] = web.view
      /\ \A i \in 1..Len(web.mail) : web'.mail[i] = web.mail[i]
  BY <1>1, Sent
<1>3. AllIn(web'.mail, chosen \union {FrontPlace}) /\ web.view \in chosen \union {FrontPlace}
  BY <1>1, AllSent, PlaceConstants DEF FrontComesFirst
<1>4. CASE web.view # FrontPlace \/ FrontPlace \in chosen
  <2>1. SUFFICES ASSUME FrontPlace \notin chosen
                 PROVE  /\ \A i, j \in 1..Len(web'.mail) :
                             i < j /\ web'.mail[j] = FrontPlace => web'.mail[i] = FrontPlace
                        /\ \A i \in 1..Len(web'.mail) :
                             web'.mail[i] = FrontPlace
                               => Verifies' /\ Misses' + i <= 1 + usedUp'.resizes
    BY <1>3, <1>4 DEF FrontComesFirst
  <2>2. /\ \A i, j \in 1..Len(web.mail) :
             i < j /\ web.mail[j] = FrontPlace => web.mail[i] = FrontPlace
        /\ \A i \in 1..Len(web.mail) :
             web.mail[i] = FrontPlace => Verifies /\ Misses + i <= 1 + usedUp.resizes
    BY <2>1 DEF FrontComesFirst
  <2>3. \A i \in 1..Len(web'.mail) :
          web'.mail[i] = FrontPlace => i \in 1..Len(web.mail) /\ web.mail[i] = FrontPlace
    BY <1>2, <1>4, <2>1
  <2>4. QED
    BY <1>1, <1>2, <2>2, <2>3
<1>5. CASE web.view = FrontPlace /\ FrontPlace \notin chosen
  <2>1. /\ \A i \in 1..Len(web.mail) : web.mail[i] = FrontPlace
        /\ Verifies => Misses + Len(web.mail) <= 1 + usedUp.resizes
        /\ ~Verifies => usedUp.resizes >= MaxResends
    BY <1>5 DEF FrontComesFirst
  <2>2. Verifies
    BY <1>1, <2>1, PlaceConstants DEF InTime
  <2>3. \A i \in 1..Len(web'.mail) : web'.mail[i] = FrontPlace
    BY <1>2, <1>5, <2>1
  <2>4. Verifies' /\ Misses' + Len(web'.mail) <= 1 + usedUp'.resizes
    BY <1>1, <1>2, <2>1, <2>2
  <2>5. \A i \in 1..Len(web'.mail) : Misses' + i <= 1 + usedUp'.resizes
    BY <1>1, <1>2, <2>4
  <2>6. QED
    BY <1>3, <2>3, <2>4, <2>5 DEF FrontComesFirst
<1>6. QED
  BY <1>4, <1>5

(* A report is received.                                                      *)
LEMMA FrontReceived ==
  ASSUME PlaceTypeOK, Stages, Theirs, FrontComesFirst, InTime', Relocated
  PROVE  FrontComesFirst'
<1> DEFINE p == Head(web.mail)
<1>1. /\ web.mail \in Mail /\ web.mail # <<>> /\ web \in Web /\ reader \in Reader
      /\ usedUp.resizes \in Nat /\ usedUp.resizes <= MaxResends /\ MaxResends \in Nat
      /\ UNCHANGED <<usedUp, chosen>>
  BY PlaceConstants DEF PlaceTypeOK, Web, Relocated, InTime
<1>2. /\ p = web.mail[1] /\ Len(web.mail) \in Nat \ {0}
      /\ Len(Tail(web.mail)) = Len(web.mail) - 1
      /\ \A i \in 1..Len(Tail(web.mail)) : Tail(web.mail)[i] = web.mail[i + 1]
  BY <1>1, Received
<1>3. /\ web'.mail = Tail(web.mail) /\ web'.view = web.view
      /\ reader' = IF Resends(p) THEN [reader EXCEPT !.attempts = @ + 1]
                   ELSE [reader EXCEPT !.target = None]
  BY <1>1 DEF Relocated, Web
<1>4. AllIn(web'.mail, chosen' \union {FrontPlace})
  BY <1>1, <1>3, AllReceived DEF FrontComesFirst
<1>5. SUFFICES ASSUME FrontPlace \notin chosen
               PROVE  /\ \A i, j \in 1..Len(web'.mail) :
                           i < j /\ web'.mail[j] = FrontPlace => web'.mail[i] = FrontPlace
                      /\ \A i \in 1..Len(web'.mail) :
                           web'.mail[i] = FrontPlace
                             => Verifies' /\ Misses' + i <= 1 + usedUp'.resizes
                      /\ web.view = FrontPlace =>
                           /\ \A i \in 1..Len(web'.mail) : web'.mail[i] = FrontPlace
                           /\ Verifies' => Misses' + Len(web'.mail) <= 1 + usedUp'.resizes
                           /\ ~Verifies' => usedUp'.resizes >= MaxResends
  BY <1>1, <1>3, <1>4 DEF FrontComesFirst
<1>6. /\ \A i, j \in 1..Len(web.mail) :
           i < j /\ web.mail[j] = FrontPlace => web.mail[i] = FrontPlace
      /\ \A i \in 1..Len(web.mail) :
           web.mail[i] = FrontPlace => Verifies /\ Misses + i <= 1 + usedUp.resizes
      /\ web.view = FrontPlace =>
           /\ \A i \in 1..Len(web.mail) : web.mail[i] = FrontPlace
           /\ Verifies => Misses + Len(web.mail) <= 1 + usedUp.resizes
  BY <1>5 DEF FrontComesFirst
<1>7. \A i \in 1..Len(web'.mail) :
        /\ i \in Nat /\ i + 1 \in 1..Len(web.mail) /\ web'.mail[i] = web.mail[i + 1]
        /\ web'.mail[i] = FrontPlace => p = FrontPlace
  BY <1>2, <1>3, <1>6
(* A front that is received is a miss, of which there is at most one too many. *)
<1>8. ASSUME p = FrontPlace
      PROVE  /\ Verifies /\ Misses \in Nat /\ Misses' \in Nat /\ Misses' <= Misses + 1
             /\ Verifies' \/ Misses >= MaxResends
  <2>1. Verifies
    BY <1>2, <1>6, <1>8
  <2>2. CASE reader.target = None
    <3>1. reader.initial # None /\ Misses = 0
      BY <2>1, <2>2 DEF Verifies, Misses
    <3>2. reader'.target = None /\ reader'.initial = reader.initial
      BY <1>1, <1>3, <2>2 DEF Resends, Reader
    <3>3. QED
      BY <2>1, <3>1, <3>2 DEF Verifies, Misses
  <2>3. CASE reader.target # None
    <3>1. ~Landed(p)
      BY <1>5, <1>8, <2>3, PlaceConstants DEF Landed, Theirs
    <3>2. Misses = reader.attempts /\ reader.attempts \in Nat
      BY <1>1, <2>3 DEF Misses, Reader
    <3>3. CASE Resends(p)
      <4>1. reader'.target = reader.target /\ reader'.attempts = reader.attempts + 1
        BY <1>1, <1>3, <3>3 DEF Reader
      <4>2. QED
        BY <2>1, <2>3, <3>2, <4>1 DEF Verifies, Misses
    <3>4. CASE ~Resends(p)
      <4>1. reader.attempts >= MaxResends
        BY <1>1, <2>3, <3>1, <3>2, <3>4 DEF Resends
      <4>2. reader'.target = None
        BY <1>1, <1>3, <3>4 DEF Reader
      <4>3. QED
        BY <2>1, <3>2, <4>1, <4>2 DEF Misses
    <3>5. QED
      BY <3>3, <3>4
  <2>4. QED
    BY <2>2, <2>3
<1> HIDE DEF p
<1>9. ASSUME NEW i \in 1..Len(web'.mail), NEW j \in 1..Len(web'.mail),
             i < j, web'.mail[j] = FrontPlace
      PROVE  web'.mail[i] = FrontPlace
  <2>1. /\ i \in Nat /\ i + 1 \in 1..Len(web.mail) /\ web'.mail[i] = web.mail[i + 1]
        /\ j \in Nat /\ j + 1 \in 1..Len(web.mail) /\ web.mail[j + 1] = FrontPlace
    BY <1>7, <1>9
  <2>2. i + 1 < j + 1
    BY <1>9, <2>1
  <2>3. web.mail[i + 1] = FrontPlace
    BY <1>6, <2>1, <2>2
  <2>4. QED
    BY <2>1, <2>3
<1>10. ASSUME NEW i \in 1..Len(web'.mail), web'.mail[i] = FrontPlace
       PROVE  Verifies' /\ Misses' + i <= 1 + usedUp'.resizes
  <2>1. p = FrontPlace /\ i \in Nat /\ i >= 1 /\ Misses + (i + 1) <= 1 + usedUp.resizes
    BY <1>6, <1>7, <1>10
  <2>2. QED
    BY <1>1, <1>8, <2>1
<1>11. ASSUME web.view = FrontPlace
       PROVE  /\ \A i \in 1..Len(web'.mail) : web'.mail[i] = FrontPlace
              /\ Verifies' => Misses' + Len(web'.mail) <= 1 + usedUp'.resizes
              /\ ~Verifies' => usedUp'.resizes >= MaxResends
  <2>1. p = FrontPlace /\ \A i \in 1..Len(web'.mail) : web'.mail[i] = FrontPlace
    BY <1>2, <1>6, <1>7, <1>11
  <2>2. Misses + Len(web.mail) <= 1 + usedUp.resizes
    BY <1>6, <1>8, <1>11, <2>1
  <2>3. Len(web'.mail) = Len(web.mail) - 1 /\ usedUp'.resizes = usedUp.resizes
    BY <1>1, <1>2, <1>3
  <2>4. /\ Misses \in Nat /\ Misses' \in Nat /\ Misses' <= Misses + 1
        /\ Verifies' \/ Misses >= MaxResends
    BY <1>8, <2>1
  <2>5. Misses' + Len(web'.mail) <= 1 + usedUp'.resizes
    BY <1>1, <1>2, <2>2, <2>3, <2>4
  <2>6. ~Verifies' => usedUp'.resizes >= MaxResends
    BY <1>1, <1>2, <2>2, <2>3, <2>4
  <2>7. QED
    BY <2>1, <2>5, <2>6
<1>12. QED
  BY <1>9, <1>10, <1>11

LEMMA PlaceKept ==
  ASSUME PlaceTypeOK, Stages, InTime => Theirs /\ FrontComesFirst, [PlaceNext]_placeVars, InTime'
  PROVE  Theirs' /\ FrontComesFirst'
<1>a. /\ {row, elsewhere} \subseteq MaybePlace /\ saving \in Mail /\ web \in Web
      /\ reader \in Reader /\ route \in Route /\ chosen \subseteq Places
      /\ web.goTo \in Mail /\ web.mail \in Mail /\ usedUp.resizes \in Nat
  BY PlaceConstants DEF PlaceTypeOK, Web
<1>b. InTime /\ chosen \subseteq chosen' /\ (Navigate \/ usedUp'.resizes = usedUp.resizes)
  BY PlaceGrows, PlaceConstants DEF InTime
<1>c. Theirs /\ FrontComesFirst
  BY <1>b
<1>d. /\ {row, elsewhere, reader.initial, reader.target, reader.resume,
          route.last, route.incoming} \subseteq chosen' \union {None}
      /\ AllIn(saving, chosen') /\ AllIn(web.goTo, chosen')
  BY <1>b, <1>c, AllMore DEF Theirs
<1>1. CASE Save
  <2>1. Theirs'
    BY <1>a, <1>d, <1>1, AllReceived DEF Save, Theirs, Announced, Route
  <2>2. UNCHANGED <<web, Verifies, Misses>>
    BY <1>a, <1>1 DEF Save, Verifies, Misses, Reader
  <2>3. usedUp'.resizes = usedUp.resizes
    BY <1>1, PlaceUsesUp DEF Save
  <2>4. QED
    BY <1>b, <1>c, <2>1, <2>2, <2>3, FrontStays
<1>2. CASE PullPlace
  <2>1. Theirs'
    BY <1>a, <1>d, <1>2 DEF PullPlace, Theirs, Announced, Route
  <2>2. UNCHANGED <<web, Verifies, Misses>>
    BY <1>a, <1>2 DEF PullPlace, Verifies, Misses, Reader
  <2>3. usedUp'.resizes = usedUp.resizes
    BY <1>2, PlaceUsesUp DEF PullPlace
  <2>4. QED
    BY <1>b, <1>c, <2>1, <2>2, <2>3, FrontStays
<1>3. CASE ReadsElsewhere
  <2>1. Theirs'
    BY <1>a, <1>d, <1>3 DEF ReadsElsewhere, Theirs
  <2>2. UNCHANGED <<web, Verifies, Misses>>
    BY <1>a, <1>3 DEF ReadsElsewhere, Verifies, Misses, Reader
  <2>3. usedUp'.resizes = usedUp.resizes
    BY <1>3, PlaceUsesUp DEF ReadsElsewhere
  <2>4. QED
    BY <1>b, <1>c, <2>1, <2>2, <2>3, FrontStays
<1>4. CASE EnterReader
  <2>1. Theirs'
    BY <1>a, <1>d, <1>4 DEF EnterReader, Theirs, NoReader
  <2>2. web' = NoWeb
    BY <1>4 DEF EnterReader, Stages
  <2>3. QED
    BY <2>1, <2>2, FrontGone
<1>5. CASE Resolve
  <2>1. Theirs'
    <3>1. PICK p \in chosen' \union {None} :
            reader' = [reader EXCEPT !.at = "opening", !.initial = p]
      BY <1>d, <1>5 DEF Resolve
    <3>2. /\ reader'.initial = p /\ reader'.target = reader.target
          /\ reader'.resume = reader.resume
      BY <1>a, <3>1 DEF Reader
    <3>3. UNCHANGED <<row, elsewhere, saving, web, route>>
      BY <1>5 DEF Resolve
    <3>4. QED
      BY <1>d, <3>2, <3>3 DEF Theirs
  <2>2. web' = NoWeb
    BY <1>5 DEF Resolve, Stages
  <2>3. QED
    BY <2>1, <2>2, FrontGone
<1>6. CASE Rendered
  <2>1. /\ web'.view = FrontPlace /\ web'.mail = <<FrontPlace>> /\ web'.goTo = <<>>
        /\ reader' = [reader EXCEPT !.at = "rendered"]
        /\ reader.target = None /\ (reader.initial # None \/ FrontPlace \in chosen)
        /\ UNCHANGED <<row, elsewhere, saving, route, chosen, usedUp>>
    BY <1>6 DEF Rendered, Stages
  <2>2. UNCHANGED <<reader.initial, reader.target, reader.resume>>
    BY <1>a, <2>1 DEF Reader
  <2>3. Theirs'
    BY <1>d, <2>1, <2>2, Unsent DEF Theirs
  <2>4. Len(web'.mail) = 1 /\ web'.mail[1] = FrontPlace /\ 1..Len(web'.mail) = {1}
    BY <2>1, FirstReport, PlaceConstants
  <2>5. FrontPlace \notin chosen => Verifies' /\ Misses' = 0
    BY <2>1, <2>2 DEF Verifies, Misses
  <2>6. FrontComesFirst'
    BY <1>a, <2>1, <2>4, <2>5 DEF FrontComesFirst, AllIn
  <2>7. QED
    BY <2>3, <2>6
<1>7. CASE SendInitial
  <2>1. /\ reader.initial # None /\ HasRoom(web.goTo)
        /\ reader' = [reader EXCEPT !.initial = None, !.target = reader.initial, !.attempts = 0]
        /\ web' = [web EXCEPT !.goTo = Append(@, reader.initial)]
        /\ UNCHANGED <<row, elsewhere, saving, route, chosen, usedUp>>
    BY <1>7 DEF SendInitial
  <2>2. /\ reader'.initial = None /\ reader'.target = reader.initial /\ reader'.attempts = 0
        /\ reader'.resume = reader.resume
        /\ web'.view = web.view /\ web'.mail = web.mail
        /\ web'.goTo = Append(web.goTo, reader.initial)
    BY <1>a, <2>1 DEF Reader, Web
  <2>3. reader.initial \in Places /\ reader.initial \in chosen'
    BY <1>a, <1>d, <2>1 DEF Reader, MaybePlace
  <2>4. AllIn(web'.goTo, chosen')
    BY <1>a, <1>d, <2>1, <2>2, <2>3, AllSent
  <2>5. Theirs'
    BY <1>d, <2>1, <2>2, <2>4 DEF Theirs
  <2>6. UNCHANGED <<Verifies, Misses>>
    BY <2>1, <2>2 DEF Stages, Verifies, Misses
  <2>7. QED
    BY <1>b, <1>c, <2>1, <2>2, <2>5, <2>6, FrontStays
<1>8. CASE Navigate
  <2>1. /\ web.goTo # <<>> /\ HasRoom(web.mail)
        /\ UNCHANGED <<row, elsewhere, saving, reader, route, chosen>>
    BY <1>8 DEF Navigate
  <2>2. UNCHANGED <<Verifies, Misses>>
    BY <2>1 DEF Verifies, Misses
  <2>3. /\ Head(web.goTo) \in chosen /\ Head(web.goTo) \in Places
        /\ AllIn(Tail(web.goTo), chosen')
    BY <1>a, <1>c, <1>d, <2>1, AllReceived, Received DEF Theirs
  <2>4. CASE web' = [view |-> Head(web.goTo), goTo |-> Tail(web.goTo),
                     mail |-> Append(web.mail, Head(web.goTo))] /\ usedUp' = usedUp
    <3>1. /\ web'.view = Head(web.goTo) /\ web'.goTo = Tail(web.goTo)
          /\ web'.mail = Append(web.mail, Head(web.goTo))
      BY <2>4
    <3>2. Theirs'
      BY <1>d, <2>1, <2>3, <3>1 DEF Theirs
    <3>3. FrontComesFirst'
      BY <1>b, <1>c, <2>1, <2>2, <2>3, <2>4, <3>1, FrontBefore
    <3>4. QED
      BY <3>2, <3>3
  <2>5. CASE web' = [web EXCEPT !.goTo = Tail(web.goTo), !.mail = Append(web.mail, web.view)]
             /\ usedUp.resizes < MaxResizes /\ UsesUp("resizes")
    <3>1. /\ web'.view = web.view /\ web'.goTo = Tail(web.goTo)
          /\ web'.mail = Append(web.mail, web.view)
      BY <1>a, <2>5 DEF Web
    <3>2. usedUp'.resizes = usedUp.resizes + 1
      BY <2>5, PlaceUsesUp
    <3>3. Theirs'
      BY <1>d, <2>1, <2>3, <3>1 DEF Theirs
    <3>4. FrontComesFirst'
      BY <1>c, <2>1, <2>2, <3>1, <3>2, FrontAgain
    <3>5. QED
      BY <3>3, <3>4
  <2>6. QED
    BY <1>8, <2>4, <2>5 DEF Navigate
<1>9. CASE TurnPage
  <2>1. PICK p \in Places : /\ web' = [web EXCEPT !.view = p, !.mail = Append(@, p)]
                           /\ chosen' = chosen \union {p}
    BY <1>9 DEF TurnPage
  <2>2. HasRoom(web.mail) /\ UNCHANGED <<row, elsewhere, saving, reader, route>>
    BY <1>9 DEF TurnPage
  <2>3. /\ web'.view = p /\ web'.mail = Append(web.mail, p) /\ web'.goTo = web.goTo
    BY <1>a, <2>1 DEF Web
  <2>4. Theirs'
    BY <1>d, <2>2, <2>3 DEF Theirs
  <2>5. UNCHANGED <<Verifies, Misses>>
    BY <2>2 DEF Verifies, Misses
  <2>6. usedUp'.resizes = usedUp.resizes
    BY <1>9, PlaceUsesUp DEF TurnPage
  <2>7. p \in chosen'
    BY <2>1
  <2>8. FrontComesFirst'
    BY <1>b, <1>c, <2>2, <2>3, <2>5, <2>6, <2>7, FrontBefore
  <2>9. QED
    BY <2>4, <2>8
<1>10. CASE Seek
  <2>1. PICK p \in Places : /\ web' = [web EXCEPT !.goTo = Append(@, p)]
                           /\ chosen' = chosen \union {p}
    BY <1>10 DEF Seek
  <2>2. /\ HasRoom(web.goTo) /\ UNCHANGED <<row, elsewhere, saving, route>>
        /\ reader' = [reader EXCEPT !.target = None]
        /\ early' = (early \/ reader.target # None)
    BY <1>10 DEF Seek
  <2>3. reader.target = None
    BY <2>2 DEF InTime
  <2>4. UNCHANGED <<reader.initial, reader.target, reader.resume, reader.attempts>>
    BY <1>a, <2>2, <2>3 DEF Reader
  <2>5. /\ web'.view = web.view /\ web'.mail = web.mail /\ web'.goTo = Append(web.goTo, p)
    BY <1>a, <2>1 DEF Web
  <2>6. AllIn(web'.goTo, chosen')
    <3>1. p \in chosen'
      BY <2>1
    <3>2. QED
      BY <1>a, <1>d, <2>2, <2>5, <3>1, AllSent
  <2>7. Theirs'
    BY <1>d, <2>2, <2>4, <2>6 DEF Theirs
  <2>8. UNCHANGED <<Verifies, Misses>>
    BY <2>4 DEF Verifies, Misses
  <2>9. usedUp'.resizes = usedUp.resizes
    BY <1>10, PlaceUsesUp DEF Seek
  <2>10. QED
    BY <1>b, <1>c, <2>5, <2>7, <2>8, <2>9, FrontStays
<1>11. CASE Relocated
  <2> DEFINE p == Head(web.mail)
  <2>1. /\ p \in Places /\ HasRoom(web.goTo) /\ HasRoom(saving)
        /\ web.mail # <<>> /\ UNCHANGED <<row, elsewhere, chosen>>
    BY <1>a, <1>11, Received DEF Relocated
  <2>2. /\ web' = [web EXCEPT !.mail = Tail(@),
                             !.goTo = IF Resends(p) THEN Append(@, reader.target) ELSE @]
        /\ reader' = IF Resends(p) THEN [reader EXCEPT !.attempts = @ + 1]
                     ELSE [reader EXCEPT !.target = None]
        /\ IF Reports(p) THEN Report(p) ELSE UNCHANGED <<route, saving>>
    BY <1>11 DEF Relocated
  <2>3. Reports(p) => p \in chosen
    <3>1. CASE reader.target # None
      BY <1>c, <3>1 DEF Reports, Landed, Theirs
    <3>2. CASE reader.target = None /\ reader.initial = None
      <4>1. ~Verifies
        BY <3>2 DEF Verifies
      <4>2. 1 \in 1..Len(web.mail) /\ p = web.mail[1]
        BY <1>a, <2>1, Received
      <4>3. p \in chosen \union {FrontPlace} /\ (p = FrontPlace => FrontPlace \in chosen)
        BY <1>c, <4>1, <4>2 DEF FrontComesFirst, AllIn
      <4>4. QED
        BY <4>3
    <3>3. CASE reader.target = None /\ reader.initial # None
      BY <3>3 DEF Reports
    <3>4. QED
      BY <3>1, <3>2, <3>3
  <2>4. Resends(p) => reader.target \in Places /\ reader.target \in chosen'
    BY <1>a, <1>d DEF Resends, Reader, MaybePlace
  <2>5. AllIn(saving', chosen')
    <3>1. Reports(p) => p \in chosen'
      BY <1>b, <2>3
    <3>2. Reports(p) => AllIn(Append(saving, p), chosen')
      BY <1>a, <1>d, <2>1, <3>1, AllSent
    <3>3. QED
      BY <1>d, <2>2, <3>2 DEF Report
  <2>6. AllIn(web'.goTo, chosen')
    <3>1. Resends(p) => AllIn(Append(web.goTo, reader.target), chosen')
      BY <1>a, <1>d, <2>1, <2>4, AllSent
    <3>2. web'.goTo = IF Resends(p) THEN Append(web.goTo, reader.target) ELSE web.goTo
      BY <1>a, <2>2 DEF Web
    <3>3. QED
      BY <1>d, <3>1, <3>2
  <2> HIDE DEF p
  <2>7. /\ reader'.initial = reader.initial /\ reader'.resume = reader.resume
        /\ reader'.target \in {reader.target, None}
    BY <1>a, <2>2 DEF Reader
  <2>8. route'.last \in {route.last} \union chosen /\ route'.incoming = route.incoming
    BY <1>a, <2>2, <2>3 DEF Report, Route
  <2>9. Theirs'
    BY <1>b, <1>d, <2>1, <2>5, <2>6, <2>7, <2>8 DEF Theirs
  <2>10. QED
    BY <1>11, <1>c, <2>9, FrontReceived
<1>12. CASE ThrottleEnds
  <2>1. Theirs'
    BY <1>a, <1>d, <1>12 DEF ThrottleEnds, Theirs, Route
  <2>2. UNCHANGED <<web, Verifies, Misses>>
    BY <1>a, <1>12 DEF ThrottleEnds, Verifies, Misses, Reader
  <2>3. usedUp'.resizes = usedUp.resizes
    BY <1>12, PlaceUsesUp DEF ThrottleEnds
  <2>4. QED
    BY <1>b, <1>c, <2>1, <2>2, <2>3, FrontStays
<1>13. CASE Compare
  <2>1. Theirs'
    BY <1>a, <1>d, <1>13 DEF Compare, Theirs, Route
  <2>2. UNCHANGED <<web, Verifies, Misses>>
    BY <1>a, <1>13 DEF Compare, Verifies, Misses, Reader
  <2>3. usedUp'.resizes = usedUp.resizes
    BY <1>13, PlaceUsesUp DEF Compare
  <2>4. QED
    BY <1>b, <1>c, <2>1, <2>2, <2>3, FrontStays
<1>14. CASE ContinueHere
  <2>1. AllIn(saving', chosen')
    <3>1. CASE route.last = None
      BY <1>d, <1>14, <3>1 DEF ContinueHere, Flushed
    <3>2. CASE route.last # None
      <4>1. /\ route.last \in Places /\ route.last \in chosen' /\ HasRoom(saving)
            /\ saving' = Append(saving, route.last)
        BY <1>a, <1>d, <1>14, <3>2 DEF ContinueHere, Flushed, Route, MaybePlace
      <4>2. QED
        BY <1>a, <1>d, <4>1, AllSent
    <3>3. QED
      BY <3>1, <3>2
  <2>2. Theirs'
    BY <1>a, <1>d, <1>14, <2>1, Unsent DEF ContinueHere, Theirs, NoReader, NoRoute, NoWeb, Route
  <2>3. UNCHANGED <<web, Verifies, Misses>>
    BY <1>a, <1>14 DEF ContinueHere, Verifies, Misses, Reader
  <2>4. usedUp'.resizes = usedUp.resizes
    BY <1>14, PlaceUsesUp DEF ContinueHere
  <2>5. QED
    BY <1>b, <1>c, <2>2, <2>3, <2>4, FrontStays
<1>15. CASE ResumeThere
  <2>1. Theirs'
    BY <1>a, <1>d, <1>15 DEF ResumeThere, Theirs, Reader, Route
  <2>2. UNCHANGED <<web, Verifies, Misses>>
    BY <1>a, <1>15 DEF ResumeThere, Verifies, Misses, Reader
  <2>3. usedUp'.resizes = usedUp.resizes
    BY <1>15, PlaceUsesUp DEF ResumeThere
  <2>4. QED
    BY <1>b, <1>c, <2>1, <2>2, <2>3, FrontStays
<1>16. CASE Remount
  <2>1. Theirs'
    BY <1>a, <1>d, <1>16, Unsent DEF Remount, Theirs, NoReader, NoWeb
  <2>2. web' = NoWeb
    BY <1>16 DEF Remount, Stages
  <2>3. QED
    BY <2>1, <2>2, FrontGone
<1>17. CASE GoesToBackground
  <2>1. AllIn(saving', chosen')
    <3>1. CASE route.last = None
      BY <1>d, <1>17, <3>1 DEF GoesToBackground, Flushed
    <3>2. CASE route.last # None
      <4>1. /\ route.last \in Places /\ route.last \in chosen' /\ HasRoom(saving)
            /\ saving' = Append(saving, route.last)
        BY <1>a, <1>d, <1>17, <3>2 DEF GoesToBackground, Flushed, Route, MaybePlace
      <4>2. QED
        BY <1>a, <1>d, <4>1, AllSent
    <3>3. QED
      BY <3>1, <3>2
  <2>2. Theirs'
    BY <1>a, <1>d, <1>17, <2>1, Unsent DEF GoesToBackground, Theirs, NoReader, NoRoute, NoWeb, Route
  <2>3. UNCHANGED <<web, Verifies, Misses>>
    BY <1>a, <1>17 DEF GoesToBackground, Verifies, Misses, Reader
  <2>4. usedUp'.resizes = usedUp.resizes
    BY <1>17, PlaceUsesUp DEF GoesToBackground
  <2>5. QED
    BY <1>b, <1>c, <2>2, <2>3, <2>4, FrontStays
<1>18. CASE LeaveReader
  <2>1. AllIn(saving', chosen')
    <3>1. CASE route.last = None
      BY <1>d, <1>18, <3>1 DEF LeaveReader, Flushed
    <3>2. CASE route.last # None
      <4>1. /\ route.last \in Places /\ route.last \in chosen' /\ HasRoom(saving)
            /\ saving' = Append(saving, route.last)
        BY <1>a, <1>d, <1>18, <3>2 DEF LeaveReader, Flushed, Route, MaybePlace
      <4>2. QED
        BY <1>a, <1>d, <4>1, AllSent
    <3>3. QED
      BY <3>1, <3>2
  <2>2. Theirs'
    BY <1>a, <1>d, <1>18, <2>1, Unsent DEF LeaveReader, Theirs, NoReader, NoRoute, NoWeb, Route
  <2>3. web' = NoWeb
    BY <1>18 DEF LeaveReader, Stages
  <2>4. QED
    BY <2>2, <2>3, FrontGone
<1>19. CASE ReaderDies
  <2>1. Theirs'
    BY <1>a, <1>d, <1>19, Unsent DEF ReaderDies, Theirs, NoReader, NoRoute, NoWeb
  <2>2. web' = NoWeb
    BY <1>19 DEF ReaderDies, Stages
  <2>3. QED
    BY <2>1, <2>2, FrontGone
<1>20. CASE UNCHANGED placeVars
  <2>1. Theirs'
    BY <1>d, <1>20 DEF placeVars, Theirs
  <2>2. UNCHANGED <<web, Verifies, Misses, usedUp>>
    BY <1>20 DEF placeVars, Verifies, Misses
  <2>3. QED
    BY <1>b, <1>c, <2>1, <2>2, FrontStays
<1>21. QED
  BY <1>1, <1>2, <1>3, <1>4, <1>5, <1>6, <1>7, <1>8, <1>9, <1>10, <1>11,
     <1>12, <1>13, <1>14, <1>15, <1>16, <1>17, <1>18, <1>19, <1>20 DEF PlaceNext

THEOREM PlaceInvariance == PlaceSpec => []PlaceInv
<1>1. PlaceInv /\ [PlaceNext]_placeVars => PlaceInv'
  <2>1. SUFFICES ASSUME PlaceInv, [PlaceNext]_placeVars PROVE PlaceInv'
    OBVIOUS
  <2>2. PlaceTypeOK' /\ Stages' /\ WrittenLast'
    BY <2>1, PlaceTyped, PlaceStages, PlaceWritten DEF PlaceInv
  <2>3. InTime' => Theirs' /\ FrontComesFirst'
    BY <2>1, PlaceKept DEF PlaceInv
  <2>4. QED
    BY <2>2, <2>3 DEF PlaceInv
<1>2. QED
  BY <1>1, PlaceStarts, PTL DEF PlaceSpec

(* The place in the database is one that the reader chose, and the one they   *)
(* left the book at, whatever the WebView, a resize of it, another device, a  *)
(* remount and the throttle do (ReaderScreen.tsx, ReaderRouteScreen.tsx).     *)
THEOREM KeepsTheReadersPlace == PlaceSpec => []PlaceIsTheReaders
<1>1. PlaceInv => PlaceIsTheReaders
  <2>1. SUFFICES ASSUME PlaceInv PROVE SavedPlaceIsChosen /\ LeftPlaceIsKept
    BY DEF PlaceIsTheReaders
  <2>2. SavedPlaceIsChosen
    BY <2>1 DEF PlaceInv, InTime, Theirs, SavedPlaceIsChosen
  <2>3. LeftPlaceIsKept
    BY <2>1 DEF PlaceInv, WrittenLast, LeftPlaceIsKept
  <2>4. QED
    BY <2>2, <2>3
<1>2. QED
  BY <1>1, PlaceInvariance, PTL

-----------------------------------------------------------------------------
(* AudioQueue.                                                               *)

Clean(what) == slips \intersect what = {}

(* What the player, the move under way and the screen have in hand; and the   *)
(* screen is that of the current item, if there is one.                       *)
Stays ==
  /\ player.track # None => player.book # None
  /\ player.loaded => player.track # None
  /\ moving.at # "idle" => moving.item # None
  /\ view.at # "off" => view.book # None
  /\ view.at = "on" /\ view.mine => player.book # None
  /\ view.at # "off" /\ CurrentItem # None => view.book = CurrentItem

(* The player, the move, the screen and the queue are about one book, and so  *)
(* is every position that is saved.                                           *)
Together ==
  Clean({"crossed"}) =>
    /\ player.track \in {None, player.book}
    /\ moving.at # "idle" /\ view.at # "off" => view.book = moving.item
    /\ moving.at # "idle" /\ CurrentItem # None => moving.item = CurrentItem
    /\ view.at = "on" /\ view.mine => player.book = view.book
    /\ SavedIsOwn

(* Nothing is left of a locked book that the player could be given.           *)
Shut ==
  Clean({"crossed", "acquired"}) =>
    \A t \in locked : t \notin scratch /\ player.track # t /\ acquire[t] # "decrypting"

(* The queue is at what the player, the move and the screen are about.        *)
AtCurrent ==
  Clean({"crossed", "failed", "adrift"}) =>
    /\ moving.at # "idle" => moving.item = CurrentItem
    /\ view.at # "off" => view.book = CurrentItem
    /\ moving.at = "idle" /\ view.at # "syncing" /\ player.book # None
         => player.book = CurrentItem

AudioInv == AudioTypeOK /\ Stays /\ Together /\ Shut /\ AtCurrent

QueueOK ==
  /\ items \in Seq(Tracks) /\ IsInjective(items)
  /\ index \in 0..Len(items) /\ (items # <<>> => index > 0)

LEMMA Inserting ==
  ASSUME NEW S, NEW s \in Seq(S), NEW e \in S, NEW i \in 1..(Len(s) + 1)
  PROVE  /\ InsertAt(s, i, e) \in Seq(S)
         /\ Len(InsertAt(s, i, e)) = Len(s) + 1
         /\ \A k \in 1..(Len(s) + 1) :
              InsertAt(s, i, e)[k] = IF k < i THEN s[k] ELSE IF k = i THEN e ELSE s[k - 1]
<1> DEFINE a == SubSeq(s, 1, i - 1)
           b == SubSeq(s, i, Len(s))
<1>1. Len(s) \in Nat /\ i \in Int
  BY LenProperties
<1>2. /\ a \in Seq(S) /\ Len(a) = i - 1
      /\ \A k \in 1..(i - 1) : a[k] = s[k]
  <2>1. \A k \in 1..(i - 1) : s[k] \in S
    BY <1>1, ElementOfSeq
  <2> QED
    BY <1>1, <2>1, SubSeqProperties
<1>3. /\ b \in Seq(S) /\ Len(b) = Len(s) - i + 1
      /\ \A k \in 1..(Len(s) - i + 1) : b[k] = s[i + k - 1]
  <2>1. \A k \in i..Len(s) : s[k] \in S
    BY <1>1, ElementOfSeq
  <2> QED
    BY <1>1, <2>1, SubSeqProperties
<1>4. <<e>> \in Seq(S) /\ Len(<<e>>) = 1 /\ <<e>>[1] = e
  OBVIOUS
<1> HIDE DEF a, b
<1>5. /\ a \o <<e>> \in Seq(S) /\ Len(a \o <<e>>) = i
      /\ \A k \in 1..i : (a \o <<e>>)[k] = IF k <= i - 1 THEN a[k] ELSE <<e>>[k - (i - 1)]
  <2>1. /\ a \o <<e>> \in Seq(S)
        /\ Len(a \o <<e>>) = Len(a) + Len(<<e>>)
        /\ \A k \in 1..(Len(a) + Len(<<e>>)) :
             (a \o <<e>>)[k] = IF k <= Len(a) THEN a[k] ELSE <<e>>[k - Len(a)]
    BY <1>2, <1>4, ConcatProperties
  <2> QED
    BY <1>1, <1>2, <1>4, <2>1
<1> DEFINE c == a \o <<e>>
<1>6. \A k \in 1..i : c[k] = IF k < i THEN s[k] ELSE e
  BY <1>1, <1>2, <1>4, <1>5
<1>7. c \in Seq(S) /\ Len(c) = i
  BY <1>5
<1> HIDE DEF c
<1>8. /\ c \o b \in Seq(S) /\ Len(c \o b) = Len(s) + 1
      /\ \A k \in 1..(Len(s) + 1) : (c \o b)[k] = IF k <= i THEN c[k] ELSE b[k - i]
  <2>1. /\ c \o b \in Seq(S)
        /\ Len(c \o b) = Len(c) + Len(b)
        /\ \A k \in 1..(Len(c) + Len(b)) :
             (c \o b)[k] = IF k <= Len(c) THEN c[k] ELSE b[k - Len(c)]
    BY <1>3, <1>7, ConcatProperties
  <2> QED
    BY <1>1, <1>3, <1>7, <2>1
<1>9. InsertAt(s, i, e) = c \o b
  BY DEF InsertAt, a, b, c
<1>10. \A k \in 1..(Len(s) + 1) :
         (c \o b)[k] = IF k < i THEN s[k] ELSE IF k = i THEN e ELSE s[k - 1]
  BY <1>1, <1>3, <1>6, <1>8
<1> QED
  BY <1>8, <1>9, <1>10

LEMMA Removing ==
  ASSUME NEW S, NEW s \in Seq(S), NEW i \in 1..Len(s)
  PROVE  /\ RemoveAt(s, i) \in Seq(S)
         /\ Len(RemoveAt(s, i)) = Len(s) - 1
         /\ \A k \in 1..(Len(s) - 1) :
              RemoveAt(s, i)[k] = IF k < i THEN s[k] ELSE s[k + 1]
<1> DEFINE a == SubSeq(s, 1, i - 1)
           b == SubSeq(s, i + 1, Len(s))
<1>1. Len(s) \in Nat /\ i \in Int
  BY LenProperties
<1>2. /\ a \in Seq(S) /\ Len(a) = i - 1
      /\ \A k \in 1..(i - 1) : a[k] = s[k]
  <2>1. \A k \in 1..(i - 1) : s[k] \in S
    BY <1>1, ElementOfSeq
  <2> QED
    BY <1>1, <2>1, SubSeqProperties
<1>3. /\ b \in Seq(S) /\ Len(b) = Len(s) - i
      /\ \A k \in 1..(Len(s) - i) : b[k] = s[i + k]
  <2>1. \A k \in (i + 1)..Len(s) : s[k] \in S
    BY <1>1, ElementOfSeq
  <2>2. i + 1 \in Int /\ Len(s) \in Int
    BY <1>1
  <2>3. /\ b \in Seq(S) /\ Len(b) = IF i + 1 <= Len(s) THEN Len(s) - (i + 1) + 1 ELSE 0
        /\ \A k \in 1..(Len(s) - (i + 1) + 1) : b[k] = s[(i + 1) + k - 1]
    BY <2>1, <2>2, SubSeqProperties
  <2> QED
    BY <1>1, <2>3
<1> HIDE DEF a, b
<1>4. /\ a \o b \in Seq(S) /\ Len(a \o b) = Len(s) - 1
      /\ \A k \in 1..(Len(s) - 1) : (a \o b)[k] = IF k < i THEN a[k] ELSE b[k - (i - 1)]
  <2>1. /\ a \o b \in Seq(S)
        /\ Len(a \o b) = Len(a) + Len(b)
        /\ \A k \in 1..(Len(a) + Len(b)) :
             (a \o b)[k] = IF k <= Len(a) THEN a[k] ELSE b[k - Len(a)]
    BY <1>2, <1>3, ConcatProperties
  <2> QED
    BY <1>1, <1>2, <1>3, <2>1
<1>5. RemoveAt(s, i) = a \o b
  BY DEF RemoveAt, a, b
<1>6. \A k \in 1..(Len(s) - 1) : (a \o b)[k] = IF k < i THEN s[k] ELSE s[k + 1]
  <2> SUFFICES ASSUME NEW k \in 1..(Len(s) - 1)
               PROVE  (a \o b)[k] = IF k < i THEN s[k] ELSE s[k + 1]
    OBVIOUS
  <2>1. CASE k < i
    BY <1>1, <1>2, <1>4, <2>1
  <2>2. CASE ~(k < i)
    <3>1. k - (i - 1) \in 1..(Len(s) - i) /\ i + (k - (i - 1)) = k + 1
      BY <1>1, <2>2
    <3>2. b[k - (i - 1)] = s[k + 1]
      BY <1>3, <3>1
    <3> QED
      BY <1>4, <2>2, <3>2
  <2> QED
    BY <2>1, <2>2
<1> QED
  BY <1>4, <1>5, <1>6

LEMMA CurrentIs ==
  ASSUME QueueOK
  PROVE  /\ CurrentItem \in MaybeTrack /\ Len(items) \in Nat /\ DOMAIN items = 1..Len(items)
         /\ index # 0 => index \in DOMAIN items /\ CurrentItem = items[index] /\ CurrentItem \in Tracks
         /\ CurrentItem = None <=> index = 0
         /\ index = 0 <=> items = <<>>
<1>1. Len(items) \in Nat /\ DOMAIN items = 1..Len(items) /\ items \in [1..Len(items) -> Tracks]
  BY LenProperties DEF QueueOK
<1>2. index # 0 => index \in 1..Len(items) /\ items[index] \in Tracks
  BY <1>1 DEF QueueOK
<1>3. items = <<>> => Len(items) = 0
  OBVIOUS
<1> QED
  BY <1>1, <1>2, <1>3, NoTrackAssumption DEF QueueOK, CurrentItem, MaybeTrack

LEMMA Unmoved ==
  ASSUME QueueOK, items' = items, index' = index
  PROVE  QueueOK' /\ CurrentItem' = CurrentItem
BY DEF QueueOK, CurrentItem

LEMMA MovedTo ==
  ASSUME QueueOK, items' = items, NEW i \in 1..Len(items), index' = i
  PROVE  QueueOK' /\ CurrentItem' = items[i] /\ items[i] \in Tracks
<1>1. Len(items) \in Nat /\ items \in [1..Len(items) -> Tracks]
  BY LenProperties DEF QueueOK
<1> QED
  BY <1>1 DEF QueueOK, CurrentItem

(* A book that is not there may go anywhere.                                 *)
LEMMA InsertsOne ==
  ASSUME QueueOK, NEW t \in Tracks \ Range(items), NEW i \in 1..(Len(items) + 1)
  PROVE  /\ InsertAt(items, i, t) \in Seq(Tracks)
         /\ Len(InsertAt(items, i, t)) = Len(items) + 1
         /\ IsInjective(InsertAt(items, i, t))
<1> DEFINE new == InsertAt(items, i, t)
<1>1. Len(items) \in Nat /\ DOMAIN items = 1..Len(items)
  BY LenProperties DEF QueueOK
<1>2. /\ new \in Seq(Tracks) /\ Len(new) = Len(items) + 1
      /\ \A k \in 1..(Len(items) + 1) :
           new[k] = IF k < i THEN items[k] ELSE IF k = i THEN t ELSE items[k - 1]
  <2>1. items \in Seq(Tracks) /\ t \in Tracks
    BY DEF QueueOK
  <2>2. /\ InsertAt(items, i, t) \in Seq(Tracks)
        /\ Len(InsertAt(items, i, t)) = Len(items) + 1
        /\ \A k \in 1..(Len(items) + 1) :
             InsertAt(items, i, t)[k] = IF k < i THEN items[k] ELSE IF k = i THEN t ELSE items[k - 1]
    <3> HIDE DEF new
    <3>1. i \in 1..(Len(items) + 1)
      OBVIOUS
    <3> QED
      BY ONLY <2>1, <3>1, Inserting, SMTT(30)
  <2> QED
    BY <2>2
<1> HIDE DEF new
<1>3. DOMAIN new = 1..(Len(items) + 1)
  BY <1>2, LenProperties
<1>4. \A k \in 1..Len(items) : items[k] # t
  BY <1>1 DEF Range
<1>5. \A a, b \in 1..Len(items) : items[a] = items[b] => a = b
  BY <1>1 DEF QueueOK, IsInjective
<1>6. ASSUME NEW a \in DOMAIN new, NEW b \in DOMAIN new, new[a] = new[b]
      PROVE  a = b
  <2> DEFINE from(k) == IF k < i THEN k ELSE k - 1
  <2>1. \A k \in DOMAIN new : k # i => from(k) \in 1..Len(items) /\ new[k] = items[from(k)]
    BY <1>1, <1>2, <1>3
  <2>2. new[i] = t
    BY <1>2
  <2>3. a = i <=> b = i
    BY <1>4, <1>6, <2>1, <2>2
  <2>4. a # i => from(a) = from(b)
    <3> HIDE DEF from
    <3> QED
      BY <1>5, <1>6, <2>1, <2>3
  <2> QED
    BY <1>1, <1>3, <2>3, <2>4
<1>7. IsInjective(new)
  BY <1>6 DEF IsInjective
<1> QED
  BY <1>2, <1>7 DEF new

LEMMA RemovesOne ==
  ASSUME QueueOK, NEW i \in 1..Len(items)
  PROVE  /\ RemoveAt(items, i) \in Seq(Tracks)
         /\ Len(RemoveAt(items, i)) = Len(items) - 1
         /\ \A k \in 1..(Len(items) - 1) :
              RemoveAt(items, i)[k] = IF k < i THEN items[k] ELSE items[k + 1]
         /\ IsInjective(RemoveAt(items, i))
         /\ items[i] \notin Range(RemoveAt(items, i))
<1> DEFINE new == RemoveAt(items, i)
<1>1. Len(items) \in Nat /\ DOMAIN items = 1..Len(items)
  BY LenProperties DEF QueueOK
<1>2. /\ new \in Seq(Tracks) /\ Len(new) = Len(items) - 1
      /\ \A k \in 1..(Len(items) - 1) : new[k] = IF k < i THEN items[k] ELSE items[k + 1]
  <2>1. items \in Seq(Tracks)
    BY DEF QueueOK
  <2> QED
    BY <2>1, Removing
<1> HIDE DEF new
<1>3. DOMAIN new = 1..(Len(items) - 1)
  BY <1>2, LenProperties
<1>4. \A a, b \in 1..Len(items) : items[a] = items[b] => a = b
  BY <1>1 DEF QueueOK, IsInjective
<1> DEFINE from(k) == IF k < i THEN k ELSE k + 1
<1>5. \A k \in DOMAIN new : from(k) \in 1..Len(items) /\ from(k) # i /\ new[k] = items[from(k)]
  BY <1>1, <1>2, <1>3
<1>6. \A a, b \in DOMAIN new : from(a) = from(b) => a = b
  BY <1>1, <1>3
<1> HIDE DEF from
<1>7. IsInjective(new)
  BY <1>4, <1>5, <1>6 DEF IsInjective
<1>8. items[i] \notin Range(new)
  BY <1>4, <1>5 DEF Range
<1> QED
  BY <1>2, <1>7, <1>8 DEF new

LEMMA AppendsOne ==
  ASSUME QueueOK, NEW t \in Tracks \ Range(items)
  PROVE  /\ Append(items, t) \in Seq(Tracks)
         /\ Len(Append(items, t)) = Len(items) + 1
         /\ Append(items, t)[Len(items) + 1] = t
         /\ IsInjective(Append(items, t))
<1> DEFINE new == Append(items, t)
<1>1. Len(items) \in Nat /\ DOMAIN items = 1..Len(items)
  BY LenProperties DEF QueueOK
<1>2. /\ new \in Seq(Tracks) /\ Len(new) = Len(items) + 1
      /\ \A k \in 1..Len(items) : new[k] = items[k]
      /\ new[Len(items) + 1] = t
  <2>1. items \in Seq(Tracks) /\ t \in Tracks
    BY DEF QueueOK
  <2> QED
    BY ONLY <2>1, AppendProperties, SMTT(30)
<1> HIDE DEF new
<1>3. DOMAIN new = 1..(Len(items) + 1)
  BY <1>2, LenProperties
<1>4. \A k \in 1..Len(items) : items[k] # t
  BY <1>1 DEF Range
<1>5. \A a, b \in 1..Len(items) : items[a] = items[b] => a = b
  BY <1>1 DEF QueueOK, IsInjective
<1>6. IsInjective(new)
  BY <1>1, <1>2, <1>3, <1>4, <1>5 DEF IsInjective
<1> QED
  BY <1>2, <1>6 DEF new

(* What each edit of the queue does to the current item.                     *)
LEMMA AddedOne ==
  ASSUME QueueOK, NEW t \in Tracks \ Range(items), NEW i \in {Len(items) + 1, index + 1},
         items' = InsertAt(items, i, t), index' = IF index = 0 THEN 1 ELSE index
  PROVE  /\ QueueOK' /\ CurrentItem' = items'[index'] /\ CurrentItem' \in Tracks
         /\ CurrentItem # None => CurrentItem' = CurrentItem
<1>1. /\ Len(items) \in Nat /\ index \in 0..Len(items)
      /\ index # 0 => index \in 1..Len(items) /\ CurrentItem = items[index]
      /\ CurrentItem = None <=> index = 0
      /\ items \in Seq(Tracks) /\ t \in Tracks
  BY CurrentIs DEF QueueOK
<1>2. i \in 1..(Len(items) + 1)
  BY <1>1
<1>3. /\ items' \in Seq(Tracks) /\ Len(items') = Len(items) + 1 /\ IsInjective(items')
  BY <1>2, InsertsOne
<1>4. \A k \in 1..(Len(items) + 1) :
        items'[k] = IF k < i THEN items[k] ELSE IF k = i THEN t ELSE items[k - 1]
  <2>1. \A k \in 1..(Len(items) + 1) : InsertAt(items, i, t)[k] =
               IF k < i THEN items[k] ELSE IF k = i THEN t ELSE items[k - 1]
    BY ONLY <1>1, <1>2, Inserting, SMTT(30)
  <2> QED
    BY <2>1
<1>5. index' \in 1..Len(items')
  BY <1>1, <1>3
<1>6. QueueOK'
  BY <1>1, <1>3, <1>5 DEF QueueOK
<1>7. CurrentItem' = items'[index'] /\ CurrentItem' \in Tracks
  <2>1. items' \in [1..Len(items') -> Tracks]
    BY <1>3, LenProperties
  <2> QED
    BY <1>1, <1>3, <1>5, <2>1 DEF CurrentItem
<1>8. CurrentItem # None => CurrentItem' = CurrentItem
  BY <1>1, <1>3, <1>4, <1>7
<1> QED
  BY <1>6, <1>7, <1>8

LEMMA ChosenOne ==
  ASSUME QueueOK, NEW t \in Tracks,
         items' = IF t \in Range(items) THEN items ELSE Append(items, t),
         index' = CHOOSE n \in DOMAIN items' : items'[n] = t
  PROVE  QueueOK' /\ CurrentItem' = t
<1>1. Len(items) \in Nat /\ DOMAIN items = 1..Len(items)
  BY LenProperties DEF QueueOK
<1>2. /\ items' \in Seq(Tracks) /\ IsInjective(items')
      /\ \E n \in DOMAIN items' : items'[n] = t
  <2>1. CASE t \in Range(items)
    BY <2>1 DEF QueueOK, Range
  <2>2. CASE t \notin Range(items)
    <3>1. /\ items' \in Seq(Tracks) /\ IsInjective(items')
          /\ Len(items') = Len(items) + 1 /\ items'[Len(items) + 1] = t
      BY <2>2, AppendsOne
    <3>2. DOMAIN items' = 1..(Len(items) + 1)
      BY <3>1, LenProperties
    <3> QED
      BY <1>1, <3>1, <3>2
  <2> QED
    BY <2>1, <2>2
<1>3. index' \in DOMAIN items' /\ items'[index'] = t
  BY <1>2
<1>4. Len(items') \in Nat /\ DOMAIN items' = 1..Len(items')
  BY <1>2, LenProperties
<1>5. index' \in 1..Len(items')
  BY <1>3, <1>4
<1>6. QueueOK'
  BY ONLY <1>2, <1>4, <1>5 DEF QueueOK
<1>7. index' # 0
  BY ONLY <1>4, <1>5
<1>8. CurrentItem' = t
  BY ONLY <1>3, <1>7 DEF CurrentItem
<1> QED
  BY <1>6, <1>8

LEMMA TakenOut ==
  ASSUME QueueOK, NEW i \in 1..Len(items),
         items' = RemoveAt(items, i), index' = IndexWithout(i)
  PROVE  /\ QueueOK'
         /\ CurrentItem' = IF Len(items) = 1 THEN None ELSE RemoveAt(items, i)[IndexWithout(i)]
         /\ i # index => CurrentItem' = CurrentItem
         /\ Len(items) # 1 => CurrentItem' \in Tracks
<1>1. /\ Len(items) \in Nat /\ index \in 0..Len(items)
      /\ index # 0 => index \in 1..Len(items) /\ CurrentItem = items[index]
      /\ index # 0
  <2>1. items # <<>>
    BY EmptySeq
  <2> QED
    BY <2>1, CurrentIs DEF QueueOK
<1>2. /\ items' \in Seq(Tracks) /\ Len(items') = Len(items) - 1 /\ IsInjective(items')
      /\ \A k \in 1..(Len(items) - 1) :
              items'[k] = IF k < i THEN items[k] ELSE items[k + 1]
  BY RemovesOne
<1>3. /\ index' \in 0..Len(items')
      /\ Len(items) # 1 => index' \in 1..Len(items')
      /\ Len(items) = 1 => index' = 0
  BY <1>1, <1>2 DEF IndexWithout
<1>4. Len(items) = 1 => items' = <<>>
  BY <1>2, <1>1
<1>5. QueueOK'
  BY <1>1, <1>2, <1>3, <1>4 DEF QueueOK
<1>6. CurrentItem' = IF Len(items) = 1 THEN None ELSE items'[index']
  BY <1>1, <1>2, <1>3 DEF CurrentItem
<1>7. i # index => CurrentItem' = CurrentItem
  BY <1>1, <1>2, <1>3, <1>6 DEF IndexWithout
<1>8. Len(items) # 1 => CurrentItem' \in Tracks
  <2>1. items' \in [1..Len(items') -> Tracks]
    BY <1>2, LenProperties
  <2> QED
    BY <1>3, <1>6, <2>1
<1> QED
  BY <1>5, <1>6, <1>7, <1>8

LEMMA Reordered ==
  ASSUME QueueOK, NEW i \in 1..Len(items), NEW j \in 1..Len(items),
         items' = InsertAt(RemoveAt(items, i), j, items[i]), index' = IndexIn(items')
  PROVE  QueueOK' /\ CurrentItem' = CurrentItem
<1> DEFINE rest == RemoveAt(items, i)
<1>1. /\ Len(items) \in Nat /\ index \in 1..Len(items) /\ CurrentItem = items[index]
      /\ items \in [1..Len(items) -> Tracks] /\ DOMAIN items = 1..Len(items)
  <2>1. items # <<>>
    BY EmptySeq
  <2> QED
    BY <2>1, CurrentIs, LenProperties DEF QueueOK
<1>2. /\ rest \in Seq(Tracks) /\ Len(rest) = Len(items) - 1 /\ IsInjective(rest)
      /\ \A k \in 1..(Len(items) - 1) :
              rest[k] = IF k < i THEN items[k] ELSE items[k + 1]
      /\ items[i] \notin Range(rest)
  BY RemovesOne
<1>3. items' = InsertAt(rest, j, items[i])
  OBVIOUS
<1> HIDE DEF rest
<1>4. items[i] \in Tracks /\ j \in 1..(Len(rest) + 1)
  BY <1>1, <1>2
<1>5. /\ items' \in Seq(Tracks) /\ Len(items') = Len(rest) + 1
      /\ \A k \in 1..(Len(rest) + 1) :
           items'[k] = IF k < j THEN rest[k] ELSE IF k = j THEN items[i] ELSE rest[k - 1]
  <2>1. /\ InsertAt(rest, j, items[i]) \in Seq(Tracks)
        /\ Len(InsertAt(rest, j, items[i])) = Len(rest) + 1
        /\ \A k \in 1..(Len(rest) + 1) : InsertAt(rest, j, items[i])[k] =
             IF k < j THEN rest[k] ELSE IF k = j THEN items[i] ELSE rest[k - 1]
    BY ONLY <1>2, <1>4, Inserting, SMTT(30)
  <2> QED
    BY <1>3, <2>1
<1>6. /\ DOMAIN items' = 1..Len(items') /\ Len(items') = Len(items)
      /\ DOMAIN rest = 1..(Len(items) - 1)
  BY <1>1, <1>2, <1>5, LenProperties
<1>7. IsInjective(items')
  <2>1. \A k \in 1..(Len(items) - 1) : rest[k] # items[i]
    BY <1>2, <1>6 DEF Range
  <2>2. \A a, b \in 1..(Len(items) - 1) : rest[a] = rest[b] => a = b
    BY <1>2, <1>6 DEF IsInjective
  <2> DEFINE from(k) == IF k < j THEN k ELSE k - 1
  <2>3. \A k \in 1..Len(items) : k # j => /\ from(k) \in 1..(Len(items) - 1)
                                          /\ items'[k] = rest[from(k)]
    BY <1>1, <1>2, <1>5
  <2>4. items'[j] = items[i]
    BY <1>2, <1>5
  <2>5. \A a, b \in 1..Len(items) : a # j /\ b # j /\ from(a) = from(b) => a = b
    BY <1>1
  <2> HIDE DEF from
  <2>6. ASSUME NEW a \in 1..Len(items), NEW b \in 1..Len(items), items'[a] = items'[b]
        PROVE  a = b
    <3>1. a = j <=> b = j
      BY <2>1, <2>3, <2>4, <2>6
    <3> QED
      BY <2>2, <2>3, <2>5, <2>6, <3>1
  <2> QED
    BY <1>6, <2>6 DEF IsInjective
<1>8. \E n \in DOMAIN items' : items'[n] = items[index]
  <2>1. CASE index = i
    BY <1>1, <1>2, <1>4, <1>5, <1>6, <2>1
  <2>2. CASE index # i
    <3>1. PICK m \in 1..(Len(items) - 1) : rest[m] = items[index]
      <4>1. CASE index < i
        BY <1>1, <1>2, <4>1
      <4>2. CASE index > i
        <5>1. index - 1 \in 1..(Len(items) - 1) /\ ~(index - 1 < i) /\ (index - 1) + 1 = index
          BY <1>1, <4>2
        <5> QED
          BY <1>2, <5>1
      <4> QED
        BY <1>1, <2>2, <4>1, <4>2
    <3>2. CASE m < j
      BY <1>1, <1>2, <1>4, <1>5, <1>6, <3>1, <3>2
    <3>3. CASE ~(m < j)
      <4>1. m + 1 \in 1..Len(items) /\ ~(m + 1 < j) /\ m + 1 # j /\ (m + 1) - 1 = m
        BY <1>1, <3>3
      <4>2. items'[m + 1] = rest[m]
        BY <1>1, <1>2, <1>5, <4>1
      <4> QED
        BY <1>6, <3>1, <4>1, <4>2
    <3> QED
      BY <3>2, <3>3
  <2> QED
    BY <2>1, <2>2
<1>9. index' \in DOMAIN items' /\ items'[index'] = items[index]
  BY <1>8 DEF IndexIn
<1>10. index' \in 1..Len(items') /\ index' # 0
  BY <1>1, <1>6, <1>9
<1>11. QueueOK'
  BY ONLY <1>1, <1>5, <1>6, <1>7, <1>10 DEF QueueOK
<1>12. CurrentItem' = CurrentItem
  BY ONLY <1>1, <1>9, <1>10 DEF CurrentItem
<1> QED
  BY <1>11, <1>12

OthersOK ==
  /\ repeat \in {"off", "all", "one"}
  /\ player \in Player /\ view \in View /\ moving \in Moving
  /\ acquire \in [Tracks -> {"idle", "asking", "decrypting", "closing"}]
  /\ scratch \subseteq Tracks /\ locked \subseteq Tracks
  /\ saved \in [Tracks -> Tracks]
  /\ counts \in [skips : 0..MaxSkips, events : 0..MaxEvents, visits : 0..MaxVisits]
  /\ slips \subseteq {"crossed", "failed", "adrift", "acquired"}

LEMMA AudioTypes ==
  /\ AudioTypeOK <=> QueueOK /\ OthersOK
  /\ AudioTypeOK' <=> QueueOK' /\ OthersOK'
BY DEF AudioTypeOK, QueueOK, OthersOK

LEMMA AudioCounts ==
  ASSUME OthersOK,
         \/ counts' = counts
         \/ Counts("skips", MaxSkips) \/ Counts("events", MaxEvents) \/ Counts("visits", MaxVisits)
  PROVE  counts' \in [skips : 0..MaxSkips, events : 0..MaxEvents, visits : 0..MaxVisits]
<1> USE DEF OthersOK, Counts
<1>0. MaxSkips \in Nat /\ MaxEvents \in Nat /\ MaxVisits \in Nat
  BY AudioBoundsAssumption
<1>1. CASE counts' = counts
  BY <1>1
<1>2. CASE Counts("skips", MaxSkips)
  BY <1>0, <1>2
<1>3. CASE Counts("events", MaxEvents)
  BY <1>0, <1>3
<1>4. CASE Counts("visits", MaxVisits)
  BY <1>0, <1>4
<1> QED
  BY <1>1, <1>2, <1>3, <1>4

(* What is saved of the position heard or shown is a book's own.              *)
LEMMA SavesOwn ==
  ASSUME AudioInv, NEW s \in {saved, Committed, Shown}
  PROVE  /\ s \in [Tracks -> Tracks]
         /\ Clean({"crossed"}) => \A t \in Tracks : s[t] = t
<1> USE DEF AudioInv
<1>1. OthersOK
  BY AudioTypes
<1>2. player.loaded => player.book \in Tracks /\ player.track \in Tracks
  BY <1>1 DEF OthersOK, Player, MaybeTrack, Stays
<1>3. view.at = "on" => view.book \in Tracks
  BY <1>1 DEF OthersOK, View, MaybeTrack, Stays
<1>4. s \in [Tracks -> Tracks]
  BY <1>1, <1>2, <1>3 DEF OthersOK, Committed, Shown
<1>5. ASSUME Clean({"crossed"}), NEW t \in Tracks PROVE s[t] = t
  <2>1. "crossed" \notin slips
    BY <1>5 DEF Clean
  <2>2. saved[t] = t
    BY <1>5, <2>1 DEF Together, SavedIsOwn
  <2>3. player.loaded => player.track = player.book
    BY <1>2, <1>5, NoTrackAssumption DEF Together
  <2>4. view.at = "on" /\ view.mine => player.book = view.book
    BY <1>5 DEF Together
  <2> QED
    BY <1>1, <1>2, <1>3, <2>2, <2>3, <2>4 DEF OthersOK, Committed, Shown
<1> QED
  BY <1>4, <1>5

LEMMA Cleaner ==
  ASSUME NEW what, slips \subseteq slips'
  PROVE  Clean(what)' => Clean(what)
BY DEF Clean

(* A step that changes no book of any part.                                   *)
LEMMA AudioSame ==
  ASSUME AudioInv, QueueOK', CurrentItem' = CurrentItem,
         player' \in Player, player'.book = player.book, player'.track = player.track,
         player'.loaded => player.track # None,
         view' = view, moving' = moving, acquire' = acquire, locked' = locked,
         scratch' \subseteq scratch, saved' \in {saved, Committed, Shown}, slips' = slips,
         repeat' \in {"off", "all", "one"},
         \/ counts' = counts
         \/ Counts("skips", MaxSkips) \/ Counts("events", MaxEvents) \/ Counts("visits", MaxVisits)
  PROVE  AudioInv'
<1>1. OthersOK /\ AudioInv
  BY AudioTypes DEF AudioInv
<1>2. saved' \in [Tracks -> Tracks] /\ (Clean({"crossed"}) => \A t \in Tracks : saved'[t] = t)
  BY SavesOwn
<1>3. OthersOK'
  BY <1>1, <1>2, AudioCounts DEF OthersOK
<1>4. Stays'
  BY <1>1 DEF Stays, AudioInv
<1>5. Together'
  BY <1>1, <1>2 DEF Together, AudioInv, Clean, SavedIsOwn
<1>6. Shut'
  BY <1>1 DEF Shut, AudioInv, Clean
<1>7. AtCurrent'
  BY <1>1 DEF AtCurrent, AudioInv, Clean
<1>8. AudioTypeOK' <=> QueueOK' /\ OthersOK'
  BY AudioTypes
<1> QED
  BY <1>3, <1>4, <1>5, <1>6, <1>7, <1>8 DEF AudioInv

(* The queue goes to an item: the screen follows, and a move begins or goes on. *)
LEMMA AudioMoves ==
  ASSUME AudioInv, QueueOK', NEW item \in Tracks, CurrentItem' = item,
         ViewFollows(item), saved' = SavedFollows(item), slips' = slips \union Crosses(item),
         \/ moving' = moving /\ (CurrentItem # None => item = CurrentItem)
         \/ moving' = IF moving.at = "idle" THEN [item |-> item, at |-> "mode"] ELSE moving,
         player' = player \/ player' = [player EXCEPT !.playing = FALSE],
         acquire' = acquire, scratch' = scratch, locked' = locked, repeat' = repeat,
         \/ counts' = counts
         \/ Counts("skips", MaxSkips) \/ Counts("events", MaxEvents) \/ Counts("visits", MaxVisits)
  PROVE  AudioInv'
<1>1. OthersOK /\ AudioInv
  BY AudioTypes DEF AudioInv
<1>2. saved' \in [Tracks -> Tracks] /\ (Clean({"crossed"}) => \A t \in Tracks : saved'[t] = t)
  BY SavesOwn DEF SavedFollows
<1>3. /\ player' \in Player /\ player'.book = player.book /\ player'.track = player.track
      /\ player'.loaded = player.loaded
  BY <1>1 DEF OthersOK, Player
<1>4. /\ view' \in View
      /\ IF Follows(item) THEN view'.at = "syncing" /\ view'.book = item /\ ~view'.mine
                          ELSE view' = view
  BY <1>1 DEF OthersOK, ViewFollows, NoView, View, MaybeTrack
<1>5. item # None
  BY NoTrackAssumption
<1>6. /\ moving' \in Moving
      /\ \/ moving' = moving /\ (moving.at = "idle" /\ CurrentItem # None => item = CurrentItem)
         \/ moving.at = "idle" /\ moving'.item = item /\ moving'.at = "mode"
  BY <1>1 DEF OthersOK, Moving, MaybeTrack
<1>7. slips' \subseteq {"crossed", "failed", "adrift", "acquired"} /\ slips \subseteq slips'
  BY <1>1 DEF OthersOK, Crosses
<1>8. "crossed" \notin slips' => moving.at = "idle" \/ item = moving.item
  BY DEF Crosses
<1>9. OthersOK'
  BY <1>1, <1>2, <1>3, <1>4, <1>6, <1>7, AudioCounts DEF OthersOK
<1>10. view'.at # "off" => view.at # "off" /\ view'.book = item
  BY <1>1, <1>4, <1>5 DEF Stays, AudioInv, Follows
<1>11. Stays'
  BY <1>1, <1>3, <1>4, <1>5, <1>6, <1>10 DEF Stays, AudioInv
<1>12. Together'
  <2> SUFFICES ASSUME Clean({"crossed"})'
               PROVE  /\ player'.track \in {None, player'.book}
                      /\ moving'.at # "idle" /\ view'.at # "off" => view'.book = moving'.item
                      /\ moving'.at # "idle" /\ CurrentItem' # None => moving'.item = CurrentItem'
                      /\ view'.at = "on" /\ view'.mine => player'.book = view'.book
                      /\ SavedIsOwn'
    BY DEF Together
  <2>1. Clean({"crossed"}) /\ "crossed" \notin slips'
    BY <1>7 DEF Clean
  <2>2. moving'.at # "idle" => moving'.item = item
    BY <1>6, <1>8, <2>1
  <2>3. player.track \in {None, player.book}
    BY <1>1, <2>1 DEF Together, AudioInv
  <2>4. view.at = "on" /\ view.mine => player.book = view.book
    BY <1>1, <2>1 DEF Together, AudioInv
  <2>5. SavedIsOwn'
    BY <1>2, <2>1 DEF SavedIsOwn
  <2> QED
    BY <1>3, <1>4, <1>10, <2>2, <2>3, <2>4, <2>5
<1>13. Shut'
  BY <1>1, <1>3, <1>7 DEF Shut, AudioInv, Clean
<1>14. AtCurrent'
  <2> SUFFICES ASSUME Clean({"crossed", "failed", "adrift"})'
               PROVE  /\ moving'.at # "idle" => moving'.item = CurrentItem'
                      /\ view'.at # "off" => view'.book = CurrentItem'
                      /\ moving'.at = "idle" /\ view'.at # "syncing" /\ player'.book # None
                           => player'.book = CurrentItem'
    BY DEF AtCurrent
  <2>1. Clean({"crossed", "failed", "adrift"}) /\ "crossed" \notin slips'
    BY <1>7 DEF Clean
  <2>2. moving'.at # "idle" => moving'.item = item
    BY <1>6, <1>8, <2>1
  <2>3. moving.at = "idle" /\ view.at # "syncing" /\ player.book # None
          => player.book = CurrentItem
    BY <1>1, <2>1 DEF AtCurrent, AudioInv
  <2>4. view.at # "off" => view.book = CurrentItem
    BY <1>1, <2>1 DEF AtCurrent, AudioInv
  <2>5. moving'.at = "idle" => moving.at = "idle" /\ (CurrentItem # None => item = CurrentItem)
    BY <1>6
  <2> QED
    BY <1>3, <1>4, <1>10, <2>2, <2>3, <2>4, <2>5
<1>15. AudioTypeOK' <=> QueueOK' /\ OthersOK'
  BY AudioTypes
<1> QED
  BY <1>9, <1>11, <1>12, <1>13, <1>14, <1>15 DEF AudioInv

LEMMA AudioParts ==
  /\ AudioInv => AudioTypeOK /\ QueueOK /\ OthersOK /\ Stays /\ Together /\ Shut /\ AtCurrent
  /\ QueueOK' /\ OthersOK' /\ Stays' /\ Together' /\ Shut' /\ AtCurrent' => AudioInv'
BY AudioTypes DEF AudioInv

LEMMA SkipsTo ==
  ASSUME AudioInv, NEW i \in 1..Len(items), items' = items, SkipTo(i),
         player' = player \/ player' = [player EXCEPT !.playing = FALSE],
         UNCHANGED <<repeat, acquire, scratch, locked>>, Counts("skips", MaxSkips)
  PROVE  AudioInv'
<1>1. QueueOK' /\ CurrentItem' = items[i] /\ items[i] \in Tracks
  BY AudioParts, MovedTo DEF SkipTo
<1>2. PICK item \in Tracks : item = items[i]
  BY <1>1
<1>3. /\ ViewFollows(item) /\ saved' = SavedFollows(item) /\ slips' = slips \union Crosses(item)
      /\ moving' = IF moving.at = "idle" THEN [item |-> item, at |-> "mode"] ELSE moving
  BY <1>2 DEF SkipTo, Plays
<1> QED
  BY <1>1, <1>2, <1>3, AudioMoves

LEMMA SkipKeeps == AudioInv /\ Skip => AudioInv'
<1> SUFFICES ASSUME AudioInv, Skip PROVE AudioInv'
  OBVIOUS
<1>1. QueueOK /\ OthersOK
  BY AudioParts
<1>2. /\ Len(items) \in Nat /\ DOMAIN items = 1..Len(items) /\ index \in 0..Len(items)
      /\ index > 0
  BY <1>1, CurrentIs DEF QueueOK, Skip
<1>3. NextIndex \in 0..Len(items) /\ PreviousIndex \in 0..Len(items)
  BY ONLY <1>2 DEF NextIndex, PreviousIndex
<1>4. PICK i \in 1..Len(items) : SkipTo(i)
  BY <1>2, <1>3 DEF Skip
<1> QED
  BY <1>4, SkipsTo DEF Skip

LEMMA ToggleKeeps == AudioInv /\ Toggle => AudioInv'
<1> SUFFICES ASSUME AudioInv, Toggle PROVE AudioInv'
  OBVIOUS
<1>1. QueueOK /\ OthersOK
  BY AudioParts
<1>2. QueueOK' /\ CurrentItem' = CurrentItem
  BY <1>1, Unmoved DEF Toggle, queueVars
<1>3. CASE player.loaded
  <2>1. /\ player' = [player EXCEPT !.playing = ~@] /\ UNCHANGED <<moving, slips>>
        /\ saved' \in {saved, Committed, Shown}
    BY <1>3 DEF Toggle
  <2>2. /\ player' \in Player /\ player'.book = player.book /\ player'.track = player.track
        /\ player'.loaded = player.loaded
    BY <1>1, <2>1 DEF OthersOK, Player
  <2>3. player'.loaded => player'.track # None
    BY <2>2, AudioParts DEF Stays
  <2> QED
    BY <1>1, <1>2, <2>1, <2>2, <2>3, AudioSame DEF Toggle, queueVars, OthersOK
<1>4. CASE ~player.loaded
  <2>1. PICK item \in Tracks : item = CurrentItem
    BY <1>1, <1>4, CurrentIs DEF Toggle
  <2>2. /\ slips' = slips \union Crosses(item)
        /\ moving' = IF moving.at = "idle" THEN [item |-> item, at |-> "mode"] ELSE moving
        /\ player' = player /\ saved' = saved /\ view' = view
    BY <1>4, <2>1 DEF Toggle, Plays
  <2>3. ~Follows(item)
    BY <2>1, AudioParts DEF Stays, Follows
  <2>4. ViewFollows(item) /\ saved' = SavedFollows(item)
    BY <2>2, <2>3 DEF ViewFollows, SavedFollows
  <2> QED
    BY <1>1, <1>2, <2>1, <2>2, <2>4, AudioMoves DEF Toggle, queueVars
<1> QED
  BY <1>3, <1>4

LEMMA SelectKeeps == AudioInv /\ Select => AudioInv'
<1> SUFFICES ASSUME AudioInv, Select PROVE AudioInv'
  OBVIOUS
<1>1. PICK t \in Tracks :
       LET new == IF t \in Range(items) THEN items ELSE Append(items, t) IN
       /\ items' = new
       /\ index' = CHOOSE n \in DOMAIN new : new[n] = t
       /\ Plays(t)
       /\ ViewFollows(t) /\ saved' = SavedFollows(t)
  BY DEF Select
<1>2. /\ items' = IF t \in Range(items) THEN items ELSE Append(items, t)
      /\ index' = CHOOSE n \in DOMAIN items' : items'[n] = t
  BY <1>1
<1>3. QueueOK' /\ CurrentItem' = t
  BY <1>2, AudioParts, ChosenOne
<1>4. /\ slips' = slips \union Crosses(t)
      /\ moving' = IF moving.at = "idle" THEN [item |-> t, at |-> "mode"] ELSE moving
  BY <1>1 DEF Plays
<1>5. ViewFollows(t) /\ saved' = SavedFollows(t)
  BY <1>1
<1>6. /\ UNCHANGED <<repeat, player, acquire, scratch, locked>>
      /\ Counts("skips", MaxSkips)
  BY DEF Select
<1> QED
  BY ONLY AudioInv, <1>3, <1>4, <1>5, <1>6, AudioMoves

LEMMA FinishesKeeps == AudioInv /\ Finishes => AudioInv'
<1> SUFFICES ASSUME AudioInv, Finishes PROVE AudioInv'
  OBVIOUS
<1>1. QueueOK /\ OthersOK
  BY AudioParts
<1>2. CASE UNCHANGED <<index, moving, view, saved, counts, slips>>
           /\ player' \in {player, [player EXCEPT !.playing = FALSE]}
  <2>1. QueueOK' /\ CurrentItem' = CurrentItem
    BY <1>1, <1>2, Unmoved DEF Finishes
  <2>2. /\ player' \in Player /\ player'.book = player.book /\ player'.track = player.track
        /\ player'.loaded = player.loaded
    BY <1>1, <1>2 DEF OthersOK, Player
  <2>3. player'.loaded => player'.track # None
    BY <2>2, AudioParts DEF Stays
  <2> QED
    BY <1>1, <1>2, <2>1, <2>2, <2>3, AudioSame DEF Finishes, OthersOK
<1>3. CASE /\ index # 0 /\ NextIndex # 0 /\ Counts("skips", MaxSkips)
           /\ player' = [player EXCEPT !.playing = FALSE] /\ SkipTo(NextIndex)
  <2>1. /\ Len(items) \in Nat /\ index \in 0..Len(items)
    BY <1>1, CurrentIs DEF QueueOK
  <2>2. NextIndex \in 1..Len(items)
    BY <1>3, <2>1 DEF NextIndex
  <2> QED
    BY <1>3, <2>2, SkipsTo DEF Finishes
<1> QED
  BY <1>2, <1>3 DEF Finishes

LEMMA LoadsKeeps == AudioInv /\ Loads => AudioInv'
<1> SUFFICES ASSUME AudioInv, Loads PROVE AudioInv'
  OBVIOUS
<1>1. QueueOK /\ OthersOK
  BY AudioParts
<1>2. QueueOK' /\ CurrentItem' = CurrentItem
  BY <1>1, Unmoved DEF Loads, queueVars
<1>3. /\ player' \in Player /\ player'.book = player.book /\ player'.track = player.track
      /\ player'.track # None
  BY <1>1 DEF OthersOK, Player, Loads
<1> QED
  BY <1>1, <1>2, <1>3, AudioSame DEF Loads, queueVars, OthersOK

LEMMA AddKeeps == AudioInv /\ Add => AudioInv'
<1> SUFFICES ASSUME AudioInv, Add PROVE AudioInv'
  OBVIOUS
<1>1. PICK t \in Tracks \ Range(items), i \in {Len(items) + 1, index + 1} :
       /\ items' = InsertAt(items, i, t)
       /\ index' = IF index = 0 THEN 1 ELSE index
       /\ ViewFollows(items'[index']) /\ saved' = SavedFollows(items'[index'])
       /\ slips' = slips \union Crosses(items'[index'])
  BY DEF Add
<1>2. /\ QueueOK' /\ CurrentItem' = items'[index'] /\ CurrentItem' \in Tracks
      /\ CurrentItem # None => CurrentItem' = CurrentItem
  BY <1>1, AudioParts, AddedOne
<1>3. PICK item \in Tracks : item = CurrentItem'
  BY <1>2
<1>4. ViewFollows(item) /\ saved' = SavedFollows(item) /\ slips' = slips \union Crosses(item)
  BY <1>1, <1>2, <1>3
<1>5. UNCHANGED <<repeat, player, moving, acquire, scratch, locked>> /\ Counts("events", MaxEvents)
  BY DEF Add
<1> QED
  BY ONLY AudioInv, <1>2, <1>3, <1>4, <1>5, AudioMoves

LEMMA ReorderKeeps == AudioInv /\ Reorder => AudioInv'
<1> SUFFICES ASSUME AudioInv, Reorder PROVE AudioInv'
  OBVIOUS
<1>1. QueueOK /\ OthersOK /\ DOMAIN items = 1..Len(items)
  BY AudioParts, CurrentIs
<1>2. QueueOK' /\ CurrentItem' = CurrentItem
  BY <1>1, Reordered DEF Reorder
<1>3. player \in Player /\ (player.loaded => player.track # None)
  BY <1>1, AudioParts DEF OthersOK, Stays
<1> QED
  BY <1>1, <1>2, <1>3, AudioSame DEF Reorder, OthersOK

LEMMA RepeatKeeps == AudioInv /\ RepeatModes => AudioInv'
<1> SUFFICES ASSUME AudioInv, RepeatModes PROVE AudioInv'
  OBVIOUS
<1>1. QueueOK /\ OthersOK
  BY AudioParts
<1>2. QueueOK' /\ CurrentItem' = CurrentItem
  BY <1>1, Unmoved DEF RepeatModes
<1>3. player \in Player /\ (player.loaded => player.track # None)
  BY <1>1, AudioParts DEF OthersOK, Stays
<1> QED
  BY <1>1, <1>2, <1>3, AudioSame DEF RepeatModes, OthersOK

LEMMA ShowKeeps == AudioInv /\ ShowPosition => AudioInv'
<1> SUFFICES ASSUME AudioInv, ShowPosition PROVE AudioInv'
  OBVIOUS
<1>1. QueueOK /\ OthersOK
  BY AudioParts
<1>2. QueueOK' /\ CurrentItem' = CurrentItem
  BY <1>1, Unmoved DEF ShowPosition, queueVars
<1>3. player \in Player /\ (player.loaded => player.track # None)
  BY <1>1, AudioParts DEF OthersOK, Stays
<1> QED
  BY <1>1, <1>2, <1>3, AudioSame DEF ShowPosition, OthersOK, queueVars

LEMMA SweepKeeps == AudioInv /\ AppStateSweep => AudioInv'
<1> SUFFICES ASSUME AudioInv, AppStateSweep PROVE AudioInv'
  OBVIOUS
<1>1. QueueOK /\ OthersOK
  BY AudioParts
<1>2. QueueOK' /\ CurrentItem' = CurrentItem
  BY <1>1, Unmoved DEF AppStateSweep, queueVars
<1>3. player \in Player /\ (player.loaded => player.track # None)
  BY <1>1, AudioParts DEF OthersOK, Stays
<1>4. scratch' \subseteq scratch /\ saved' \in {saved, Committed, Shown}
  BY DEF AppStateSweep
<1> QED
  BY <1>1, <1>2, <1>3, <1>4, AudioSame DEF AppStateSweep, OthersOK, queueVars

(* Nothing is current any more.                                               *)
LEMMA AudioSilent ==
  ASSUME AudioInv, QueueOK', CurrentItem' = None, player' \in {player, Silenced},
         UNCHANGED <<repeat, moving, acquire, scratch, view, locked>>,
         saved' \in {saved, Committed, Shown}, slips' = slips \union {"adrift"},
         Counts("events", MaxEvents)
  PROVE  AudioInv'
<1>1. OthersOK /\ Stays /\ Together /\ Shut /\ AtCurrent
  BY AudioParts
<1>2. saved' \in [Tracks -> Tracks] /\ (Clean({"crossed"}) => \A t \in Tracks : saved'[t] = t)
  BY SavesOwn
<1>3. /\ player' \in Player /\ player'.book = player.book /\ player'.track = player.track
      /\ player'.loaded = player.loaded
  <2>1. player \in Player /\ player' \in {player, [player EXCEPT !.playing = FALSE]}
    BY <1>1 DEF OthersOK, Silenced
  <2> QED
    BY <2>1 DEF Player
<1>4. OthersOK'
  BY <1>1, <1>2, <1>3, AudioCounts DEF OthersOK
<1>5. Stays'
  BY <1>1, <1>3 DEF Stays
<1>6. Together'
  BY <1>1, <1>2, <1>3 DEF Together, Clean, SavedIsOwn
<1>7. Shut'
  BY <1>1, <1>3 DEF Shut, Clean
<1>8. AtCurrent'
  BY DEF AtCurrent, Clean
<1> QED
  BY <1>4, <1>5, <1>6, <1>7, <1>8, AudioParts

LEMMA ClearKeeps == AudioInv /\ ClearQueue => AudioInv'
<1> SUFFICES ASSUME AudioInv, ClearQueue PROVE AudioInv'
  OBVIOUS
<1>1. items' = <<>> /\ index' = 0
  BY DEF ClearQueue, Cleared
<1>2. /\ <<>> \in Seq(Tracks) /\ Len(<<>>) = 0 /\ DOMAIN <<>> = {}
  OBVIOUS
<1>3. QueueOK' /\ CurrentItem' = None
  BY <1>1, <1>2 DEF QueueOK, CurrentItem, IsInjective
<1> QED
  BY <1>3, AudioSilent DEF ClearQueue

LEMMA RemoveKeeps == AudioInv /\ RemoveTrack => AudioInv'
<1> SUFFICES ASSUME AudioInv, RemoveTrack PROVE AudioInv'
  OBVIOUS
<1>1. QueueOK /\ OthersOK /\ DOMAIN items = 1..Len(items)
  BY AudioParts, CurrentIs
<1>2a. PICK i \in 1..Len(items) :
       LET item == IF Len(items) = 1 THEN None ELSE RemoveAt(items, i)[IndexWithout(i)] IN
       /\ items' = RemoveAt(items, i)
       /\ index' = IndexWithout(i)
       /\ ViewFollows(item)
       /\ IF i = index /\ item # None
          THEN Plays(item) /\ player' = player /\ saved' = SavedFollows(item)
          ELSE /\ moving' = moving
               /\ slips' = slips \union {s \in {"adrift"} : item = None}
               /\ player' = IF item = None THEN Silenced ELSE player
               /\ saved' = IF item = None /\ Audible THEN Committed ELSE SavedFollows(item)
  BY <1>1 DEF RemoveTrack
<1>2b. PICK item : item = IF Len(items) = 1 THEN None ELSE RemoveAt(items, i)[IndexWithout(i)]
  OBVIOUS
<1>2. /\ items' = RemoveAt(items, i)
      /\ index' = IndexWithout(i)
      /\ ViewFollows(item)
      /\ IF i = index /\ item # None
         THEN Plays(item) /\ player' = player /\ saved' = SavedFollows(item)
         ELSE /\ moving' = moving
              /\ slips' = slips \union {s \in {"adrift"} : item = None}
              /\ player' = IF item = None THEN Silenced ELSE player
              /\ saved' = IF item = None /\ Audible THEN Committed ELSE SavedFollows(item)
  BY <1>2a, <1>2b
<1>3. /\ QueueOK' /\ CurrentItem' = item
      /\ i # index => CurrentItem' = CurrentItem
      /\ Len(items) # 1 => CurrentItem' \in Tracks
  BY <1>1, <1>2, <1>2b, TakenOut
<1>4. UNCHANGED <<repeat, acquire, scratch, locked>> /\ Counts("events", MaxEvents)
  BY DEF RemoveTrack
<1>5. CASE item = None
  <2>1. view' = view /\ SavedFollows(item) = saved
    BY <1>2, <1>5 DEF ViewFollows, SavedFollows, Follows
  <2>2. /\ player' \in {player, Silenced} /\ moving' = moving
        /\ saved' \in {saved, Committed, Shown} /\ slips' = slips \union {"adrift"}
    BY <1>2, <1>5, <2>1
  <2> QED
    BY ONLY AudioInv, <1>3, <1>4, <1>5, <2>1, <2>2, AudioSilent
<1>6. CASE item # None /\ i = index
  <2>1. item \in Tracks
    BY <1>2b, <1>3, <1>6
  <2>2. /\ ViewFollows(item) /\ player' = player /\ saved' = SavedFollows(item)
        /\ slips' = slips \union Crosses(item)
        /\ moving' = IF moving.at = "idle" THEN [item |-> item, at |-> "mode"] ELSE moving
    BY <1>2, <1>6 DEF Plays
  <2> QED
    BY ONLY AudioInv, <1>3, <1>4, <2>1, <2>2, AudioMoves
<1>7. CASE item # None /\ i # index
  <2>1. CurrentItem' = CurrentItem /\ CurrentItem = item
    BY <1>3, <1>7
  <2>2. ~Follows(item)
    BY <2>1, <1>7, AudioParts DEF Stays, Follows
  <2>3. view' = view /\ saved' = saved /\ player' = player /\ moving' = moving /\ slips' = slips
    BY <1>2, <1>7, <2>2 DEF ViewFollows, SavedFollows
  <2>4. player \in Player /\ (player.loaded => player.track # None)
    BY <1>1, AudioParts DEF OthersOK, Stays
  <2>5. repeat \in {"off", "all", "one"}
    BY <1>1 DEF OthersOK
  <2> QED
    BY ONLY AudioInv, <1>3, <1>4, <2>1, <2>3, <2>4, <2>5, AudioSame
<1> QED
  BY <1>5, <1>6, <1>7

LEMMA OpenKeeps == AudioInv /\ OpenPlayer => AudioInv'
<1> SUFFICES ASSUME AudioInv, OpenPlayer PROVE AudioInv'
  OBVIOUS
<1>1. QueueOK /\ OthersOK /\ Stays /\ Together /\ Shut /\ AtCurrent
  BY AudioParts
<1>2. PICK t \in Tracks :
       LET new == IF t \in Range(items) THEN items ELSE Append(items, t) IN
       /\ items' = new
       /\ index' = CHOOSE n \in DOMAIN new : new[n] = t
       /\ view' = [NoView EXCEPT !.at = "syncing", !.book = t]
       /\ slips' = slips \union Crosses(t)
  BY DEF OpenPlayer
<1>3. /\ items' = IF t \in Range(items) THEN items ELSE Append(items, t)
      /\ index' = CHOOSE n \in DOMAIN items' : items'[n] = t
  BY <1>2
<1>4. QueueOK' /\ CurrentItem' = t /\ t # None
  BY <1>1, <1>3, ChosenOne, NoTrackAssumption
<1>5. view' \in View /\ view'.at = "syncing" /\ view'.book = t
  BY <1>2 DEF NoView, View, MaybeTrack
<1>6. /\ slips' \subseteq {"crossed", "failed", "adrift", "acquired"} /\ slips \subseteq slips'
      /\ "crossed" \notin slips' => moving.at = "idle" \/ t = moving.item
  BY <1>1, <1>2 DEF OthersOK, Crosses
<1>7. /\ UNCHANGED <<repeat, player, moving, acquire, scratch, saved, locked>>
      /\ Counts("visits", MaxVisits)
  BY DEF OpenPlayer
<1>8. OthersOK'
  BY ONLY <1>1, <1>5, <1>6, <1>7, AudioCounts DEF OthersOK
<1>9. Stays'
  BY ONLY <1>1, <1>4, <1>5, <1>7 DEF Stays
<1>10. Together'
  BY ONLY <1>1, <1>4, <1>5, <1>6, <1>7 DEF Together, Clean, SavedIsOwn
<1>11. Shut'
  BY ONLY <1>1, <1>6, <1>7 DEF Shut, Clean
<1>12. AtCurrent'
  BY ONLY <1>1, <1>4, <1>5, <1>6, <1>7 DEF AtCurrent, Clean
<1> QED
  BY <1>4, <1>8, <1>9, <1>10, <1>11, <1>12, AudioParts

LEMMA MountKeeps == AudioInv /\ MountPlayer => AudioInv'
<1> SUFFICES ASSUME AudioInv, MountPlayer PROVE AudioInv'
  OBVIOUS
<1>1. QueueOK /\ OthersOK /\ Stays /\ Together /\ Shut /\ AtCurrent
  BY AudioParts
<1>2. QueueOK' /\ CurrentItem' = CurrentItem
  BY <1>1, Unmoved DEF MountPlayer, queueVars
<1>3. /\ view.at = "syncing" /\ view.book \in Tracks /\ view.book # None
      /\ view' \in View /\ view'.at = "on" /\ view'.book = view.book
  BY <1>1 DEF MountPlayer, OthersOK, View, MaybeTrack, Stays
<1>4. /\ player' \in Player /\ player'.book = view.book
      /\ player' = player \/ (player'.track = None /\ ~player'.loaded)
  <2>1. player' = IF player.book = view.book THEN player ELSE [NoPlayer EXCEPT !.book = view.book]
    BY DEF MountPlayer, PlayerFor
  <2>2. player \in Player
    BY <1>1 DEF OthersOK
  <2>3. CASE player.book = view.book
    BY <2>1, <2>2, <2>3
  <2>4. CASE player.book # view.book
    <3>1. player' = [book |-> view.book, track |-> None, loaded |-> FALSE, playing |-> FALSE]
      BY <2>1, <2>4 DEF NoPlayer
    <3> QED
      BY <1>3, <3>1 DEF Player, MaybeTrack
  <2> QED
    BY <2>3, <2>4
<1>5. saved' \in {saved, Committed, Shown}
  BY DEF MountPlayer
<1>6. saved' \in [Tracks -> Tracks] /\ (Clean({"crossed"}) => \A t \in Tracks : saved'[t] = t)
  BY <1>5, SavesOwn
<1>7. /\ acquire' \in [Tracks -> {"idle", "asking", "decrypting", "closing"}]
      /\ \A t \in Tracks : acquire'[t] = "decrypting" => acquire[t] = "decrypting"
  BY <1>1, <1>3 DEF MountPlayer, Resolving, OthersOK
<1>8. UNCHANGED <<repeat, moving, scratch, locked, counts, slips>>
  BY DEF MountPlayer, queueVars
<1>9. OthersOK'
  BY ONLY <1>1, <1>3, <1>4, <1>6, <1>7, <1>8 DEF OthersOK
<1>10. Stays'
  BY ONLY <1>1, <1>2, <1>3, <1>4, <1>8 DEF Stays
<1>11. Together'
  BY ONLY <1>1, <1>2, <1>3, <1>4, <1>6, <1>8 DEF Together, Clean, SavedIsOwn
<1>12. Shut'
  <2>1. locked \subseteq Tracks
    BY <1>1 DEF OthersOK
  <2>2. None \notin locked
    BY <2>1, NoTrackAssumption
  <2> QED
    BY ONLY <1>1, <1>4, <1>7, <1>8, <2>1, <2>2 DEF Shut, Clean
<1>13. AtCurrent'
  BY ONLY <1>1, <1>2, <1>3, <1>4, <1>8 DEF AtCurrent, Clean
<1> QED
  BY <1>2, <1>9, <1>10, <1>11, <1>12, <1>13, AudioParts

LEMMA LeaveKeeps == AudioInv /\ LeavePlayer => AudioInv'
<1> SUFFICES ASSUME AudioInv, LeavePlayer PROVE AudioInv'
  OBVIOUS
<1>1. QueueOK /\ OthersOK /\ Stays /\ Together /\ Shut /\ AtCurrent
  BY AudioParts
<1>2. QueueOK' /\ CurrentItem' = CurrentItem
  BY <1>1, Unmoved DEF LeavePlayer, queueVars
<1>3. view' \in View /\ view'.at = "off"
  BY DEF LeavePlayer, NoView, View, MaybeTrack
<1>4. saved' \in [Tracks -> Tracks] /\ (Clean({"crossed"}) => \A t \in Tracks : saved'[t] = t)
  BY SavesOwn DEF LeavePlayer
<1>5. /\ slips' \subseteq {"crossed", "failed", "adrift", "acquired"} /\ slips \subseteq slips'
      /\ "adrift" \notin slips' => view.at # "syncing"
  BY <1>1 DEF LeavePlayer, OthersOK
<1>6. UNCHANGED <<repeat, player, moving, acquire, scratch, locked, counts>>
  BY DEF LeavePlayer, queueVars
<1>7. OthersOK'
  BY ONLY <1>1, <1>3, <1>4, <1>5, <1>6 DEF OthersOK
<1>8. Stays'
  BY ONLY <1>1, <1>3, <1>6 DEF Stays
<1>9. Together'
  BY ONLY <1>1, <1>2, <1>3, <1>4, <1>5, <1>6 DEF Together, Clean, SavedIsOwn
<1>10. Shut'
  BY ONLY <1>1, <1>5, <1>6 DEF Shut, Clean
<1>11. AtCurrent'
  BY ONLY <1>1, <1>2, <1>3, <1>5, <1>6 DEF AtCurrent, Clean
<1> QED
  BY <1>2, <1>7, <1>8, <1>9, <1>10, <1>11, AudioParts

LEMMA LockKeeps == AudioInv /\ AudioLock => AudioInv'
<1> SUFFICES ASSUME AudioInv, AudioLock PROVE AudioInv'
  OBVIOUS
<1>1. QueueOK /\ OthersOK /\ Stays /\ Together /\ Shut /\ AtCurrent
  BY AudioParts
<1>2. QueueOK' /\ CurrentItem' = CurrentItem
  BY <1>1, Unmoved DEF AudioLock, queueVars
<1>3. PICK t \in Tracks \ locked :
       /\ locked' = locked \union {t}
       /\ Releases(t)
       /\ scratch' = scratch \ {t}
       /\ slips' = slips \union {s \in {"acquired"} : acquire[t] = "decrypting"}
  BY DEF AudioLock
<1>4. /\ player' \in Player /\ view' \in View
      /\ \/ player' = player /\ view' = view /\ player.book # t
         \/ /\ player'.book = None /\ player'.track = None /\ ~player'.loaded
            /\ view'.at = view.at /\ view'.book = view.book /\ ~view'.mine
  <2>1. player \in Player /\ view \in View
    BY <1>1 DEF OthersOK
  <2>2. CASE player.book = t
    <3>1. /\ player' = [book |-> None, track |-> None, loaded |-> FALSE, playing |-> FALSE]
          /\ view' = [view EXCEPT !.mine = FALSE]
      BY <1>3, <2>2 DEF Releases, NoPlayer
    <3>2. player' \in Player /\ player'.book = None /\ player'.track = None /\ ~player'.loaded
      BY <3>1 DEF Player, MaybeTrack
    <3>3. view' \in View /\ view'.at = view.at /\ view'.book = view.book /\ ~view'.mine
      BY <2>1, <3>1 DEF View
    <3> QED
      BY <3>2, <3>3
  <2>3. CASE player.book # t
    BY <1>3, <2>1, <2>3 DEF Releases
  <2> QED
    BY <2>2, <2>3
<1>5. saved' \in {saved, Committed, Shown}
  BY <1>3 DEF Releases
<1>6. saved' \in [Tracks -> Tracks] /\ (Clean({"crossed"}) => \A u \in Tracks : saved'[u] = u)
  BY <1>5, SavesOwn
<1>7. /\ slips' \subseteq {"crossed", "failed", "adrift", "acquired"} /\ slips \subseteq slips'
      /\ "acquired" \notin slips' => acquire[t] # "decrypting"
  BY <1>1, <1>3 DEF OthersOK
<1>8. UNCHANGED <<repeat, moving, acquire>> /\ Counts("events", MaxEvents)
  BY DEF AudioLock, queueVars
<1>9. scratch' \subseteq Tracks /\ locked' \subseteq Tracks /\ scratch' = scratch \ {t}
      /\ locked' = locked \union {t} /\ t \in Tracks /\ t # None
  BY <1>1, <1>3, NoTrackAssumption DEF OthersOK
<1>10. OthersOK'
  BY ONLY <1>1, <1>4, <1>6, <1>7, <1>8, <1>9, AudioCounts DEF OthersOK
<1>11. Stays'
  BY ONLY <1>1, <1>2, <1>4, <1>8 DEF Stays
<1>12. Together'
  BY ONLY <1>1, <1>2, <1>4, <1>6, <1>7, <1>8 DEF Together, Clean, SavedIsOwn
<1>13. Shut'
  <2> SUFFICES ASSUME Clean({"crossed", "acquired"})', NEW u \in locked'
               PROVE  u \notin scratch' /\ player'.track # u /\ acquire'[u] # "decrypting"
    BY DEF Shut
  <2>1. Clean({"crossed", "acquired"}) /\ Clean({"crossed"}) /\ "acquired" \notin slips'
    BY <1>7 DEF Clean
  <2>2. player.track \in {None, player.book}
    BY <1>1, <2>1 DEF Together
  <2>3. CASE u = t
    BY <1>4, <1>7, <1>8, <1>9, <2>1, <2>2, <2>3
  <2>4. CASE u \in locked
    <3>1. u # None
      BY <1>1, <2>4, NoTrackAssumption DEF OthersOK
    <3> QED
      BY <1>1, <1>4, <1>8, <1>9, <2>1, <2>4, <3>1 DEF Shut
  <2> QED
    BY <1>9, <2>3, <2>4
<1>14. AtCurrent'
  BY ONLY <1>1, <1>2, <1>4, <1>7, <1>8 DEF AtCurrent, Clean
<1> QED
  BY <1>2, <1>10, <1>11, <1>12, <1>13, <1>14, AudioParts

LEMMA ModeKeeps == AudioInv /\ ModeSet => AudioInv'
<1> SUFFICES ASSUME AudioInv, ModeSet PROVE AudioInv'
  OBVIOUS
<1>1. QueueOK /\ OthersOK /\ Stays /\ Together /\ Shut /\ AtCurrent
  BY AudioParts
<1>2. QueueOK' /\ CurrentItem' = CurrentItem
  BY <1>1, Unmoved DEF ModeSet, queueVars
<1>3. moving \in Moving /\ moving.at = "mode" /\ moving.item \in Tracks
  BY <1>1 DEF ModeSet, OthersOK, Stays, Moving, MaybeTrack
<1>4. /\ moving' \in Moving
      /\ \/ moving'.item = moving.item /\ moving'.at = "asset" /\ slips' = slips
         \/ moving'.at = "idle" /\ slips' = slips \union {"failed"}
  <2>1. CASE moving' = [moving EXCEPT !.at = "asset"] /\ slips' = slips
    BY <1>3, <2>1 DEF Moving
  <2>2. CASE moving' = NotMoving /\ slips' = slips \union {"failed"}
    <3>1. moving' = [item |-> None, at |-> "idle"]
      BY <2>2 DEF NotMoving
    <3> QED
      BY <2>2, <3>1 DEF Moving, MaybeTrack
  <2> QED
    BY <2>1, <2>2 DEF ModeSet
<1>5. /\ acquire' \in [Tracks -> {"idle", "asking", "decrypting", "closing"}]
      /\ \A t \in Tracks : acquire'[t] = "decrypting" => acquire[t] = "decrypting"
  <2>1. acquire' = acquire \/ acquire' = Resolving(moving.item)
    BY DEF ModeSet
  <2> QED
    BY <1>1, <1>3, <2>1 DEF Resolving, OthersOK
<1>6. UNCHANGED <<repeat, player, scratch, view, saved, locked, counts>>
  BY DEF ModeSet, queueVars
<1>7. OthersOK'
  BY ONLY <1>1, <1>4, <1>5, <1>6 DEF OthersOK
<1>8. Stays'
  BY ONLY <1>1, <1>2, <1>3, <1>4, <1>6, NoTrackAssumption DEF Stays
<1>9. Together'
  BY ONLY <1>1, <1>2, <1>3, <1>4, <1>6 DEF Together, Clean, SavedIsOwn
<1>10. Shut'
  <2>1. locked \subseteq Tracks
    BY <1>1 DEF OthersOK
  <2> QED
    BY ONLY <1>1, <1>4, <1>5, <1>6, <2>1 DEF Shut, Clean
<1>11. AtCurrent'
  BY ONLY <1>1, <1>2, <1>3, <1>4, <1>6 DEF AtCurrent, Clean
<1> QED
  BY <1>2, <1>7, <1>8, <1>9, <1>10, <1>11, AudioParts

LEMMA AcquireFailsKeeps ==
  ASSUME AudioInv, NEW t \in Tracks, AcquireFails(t)
  PROVE  AudioInv'
<1>1. QueueOK /\ OthersOK /\ Stays /\ Together /\ Shut /\ AtCurrent
  BY AudioParts
<1>2. QueueOK' /\ CurrentItem' = CurrentItem
  BY <1>1, Unmoved DEF AcquireFails, queueVars
<1>3. moving' \in Moving /\ (moving' = moving \/ moving'.at = "idle")
  <2>1. CASE moving' = moving
    BY <1>1, <2>1 DEF OthersOK
  <2>2. CASE moving' = NotMoving
    <3>1. moving' = [item |-> None, at |-> "idle"]
      BY <2>2 DEF NotMoving
    <3> QED
      BY <3>1 DEF Moving, MaybeTrack
  <2> QED
    BY <2>1, <2>2 DEF AcquireFails
<1>4. /\ acquire' \in [Tracks -> {"idle", "asking", "decrypting", "closing"}]
      /\ \A u \in Tracks : acquire'[u] = "decrypting" => acquire[u] = "decrypting"
  BY <1>1 DEF AcquireFails, OthersOK
<1>5. slips' = slips \union {"failed"} /\ UNCHANGED <<repeat, player, scratch, view, saved, locked, counts>>
  BY DEF AcquireFails, queueVars
<1>6. OthersOK'
  BY ONLY <1>1, <1>3, <1>4, <1>5 DEF OthersOK
<1>7. Stays'
  BY ONLY <1>1, <1>2, <1>3, <1>5 DEF Stays
<1>8. Together'
  BY ONLY <1>1, <1>2, <1>3, <1>5 DEF Together, Clean, SavedIsOwn
<1>9. Shut'
  <2>1. locked \subseteq Tracks
    BY <1>1 DEF OthersOK
  <2> QED
    BY ONLY <1>1, <1>4, <1>5, <2>1 DEF Shut, Clean
<1>10. AtCurrent'
  BY ONLY <1>5 DEF AtCurrent, Clean
<1> QED
  BY <1>2, <1>6, <1>7, <1>8, <1>9, <1>10, AudioParts

LEMMA LicensedKeeps ==
  ASSUME AudioInv, NEW t \in Tracks, Licensed(t)
  PROVE  AudioInv'
<1>1. QueueOK /\ OthersOK /\ Stays /\ Together /\ Shut /\ AtCurrent
  BY AudioParts
<1>2. QueueOK' /\ CurrentItem' = CurrentItem
  BY <1>1, Unmoved DEF Licensed, queueVars
<1>3. /\ acquire' \in [Tracks -> {"idle", "asking", "decrypting", "closing"}]
      /\ \A u \in Tracks : acquire'[u] = "decrypting" => acquire[u] = "decrypting" \/ u \notin locked
  BY <1>1 DEF Licensed, MayAsk, OthersOK
<1>4. UNCHANGED <<repeat, player, moving, scratch, view, saved, locked, counts, slips>>
  BY DEF Licensed, queueVars
<1>5. OthersOK'
  BY ONLY <1>1, <1>3, <1>4 DEF OthersOK
<1>6. Stays'
  BY ONLY <1>1, <1>2, <1>4 DEF Stays
<1>7. Together'
  BY ONLY <1>1, <1>2, <1>4 DEF Together, Clean, SavedIsOwn
<1>8. Shut'
  <2>1. locked \subseteq Tracks
    BY <1>1 DEF OthersOK
  <2> QED
    BY ONLY <1>1, <1>3, <1>4, <2>1 DEF Shut, Clean
<1>9. AtCurrent'
  BY ONLY <1>1, <1>2, <1>4 DEF AtCurrent, Clean
<1> QED
  BY <1>2, <1>5, <1>6, <1>7, <1>8, <1>9, AudioParts

LEMMA WrittenKeeps ==
  ASSUME AudioInv, NEW t \in Tracks, Written(t)
  PROVE  AudioInv'
<1>1. QueueOK /\ OthersOK /\ Stays /\ Together /\ Shut /\ AtCurrent
  BY AudioParts
<1>2. QueueOK' /\ CurrentItem' = CurrentItem
  BY <1>1, Unmoved DEF Written, queueVars
<1>3. /\ acquire' \in [Tracks -> {"idle", "asking", "decrypting", "closing"}]
      /\ \A u \in Tracks : acquire'[u] = "decrypting" => acquire[u] = "decrypting"
  BY <1>1 DEF Written, OthersOK
<1>4. /\ UNCHANGED <<repeat, player, moving, view, saved, locked, counts, slips>>
      /\ scratch' = {t} /\ acquire[t] = "decrypting"
  BY DEF Written, queueVars
<1>5. OthersOK'
  BY ONLY <1>1, <1>3, <1>4, t \in Tracks DEF OthersOK
<1>6. Stays'
  BY ONLY <1>1, <1>2, <1>4 DEF Stays
<1>7. Together'
  BY ONLY <1>1, <1>2, <1>4 DEF Together, Clean, SavedIsOwn
<1>8. Shut'
  <2>1. locked \subseteq Tracks
    BY <1>1 DEF OthersOK
  <2> QED
    BY ONLY <1>1, <1>3, <1>4, <2>1 DEF Shut, Clean
<1>9. AtCurrent'
  BY ONLY <1>1, <1>2, <1>4 DEF AtCurrent, Clean
<1> QED
  BY <1>2, <1>5, <1>6, <1>7, <1>8, <1>9, AudioParts

(* A player is given the file of its own book, which is not locked.           *)
LEMMA GivesOwn ==
  ASSUME AudioInv, NEW p \in Player, NEW t \in Tracks
  PROVE  /\ Given(p, t) \in Player /\ Given(p, t).book = p.book /\ ~Given(p, t).loaded
         /\ Given(p, t).track \in {t, None} /\ (Given(p, t).track = t => t \in scratch)
<1>1. t # None
  BY NoTrackAssumption
<1> QED
  BY <1>1 DEF Given, Player, MaybeTrack

LEMMA ResolvedKeeps ==
  ASSUME AudioInv, NEW t \in Tracks, Resolved(t)
  PROVE  AudioInv'
<1>1. QueueOK /\ OthersOK /\ Stays /\ Together /\ Shut /\ AtCurrent
  BY AudioParts
<1>2. QueueOK' /\ CurrentItem' = CurrentItem
  BY <1>1, Unmoved DEF Resolved, queueVars
<1>3. /\ moving' \in Moving /\ moving'.item = moving.item
      /\ moving'.at = "idle" <=> moving.at = "idle"
  <2>1. moving \in Moving /\ moving' \in {moving, IF moving.at = "asset"
                                                  THEN [moving EXCEPT !.at = "place"] ELSE moving}
    BY <1>1 DEF Resolved, OthersOK
  <2> QED
    BY <2>1 DEF Moving
<1>4. /\ acquire' \in [Tracks -> {"idle", "asking", "decrypting", "closing"}]
      /\ \A u \in Tracks : acquire'[u] = "decrypting" => acquire[u] = "decrypting"
  BY <1>1 DEF Resolved, OthersOK
<1>5. /\ view' \in View /\ view'.at = view.at /\ view'.book = view.book /\ view'.mine = view.mine
  <2>1. view \in View /\ view' \in {view, [view EXCEPT !.fresh = FALSE]}
    BY <1>1 DEF Resolved, OthersOK
  <2> QED
    BY <2>1 DEF View
<1>6. \/ player' = player
      \/ /\ player' \in Player /\ player'.book = player.book /\ ~player'.loaded
         /\ player'.track \in {t, None} /\ (player'.track = t => t \in scratch)
         /\ view.at = "on" /\ view.book = t /\ view.mine
  <2>1. player' = player \/ (/\ player' = Given(player, t)
                             /\ view.at = "on" /\ view.book = t /\ view.mine)
    BY DEF Resolved
  <2>2. player \in Player
    BY <1>1 DEF OthersOK
  <2> QED
    BY <2>1, <2>2, GivesOwn
<1>7. UNCHANGED <<repeat, scratch, saved, locked, counts, slips>>
  BY DEF Resolved, queueVars
<1>8. OthersOK'
  BY ONLY <1>1, <1>3, <1>4, <1>5, <1>6, <1>7 DEF OthersOK
<1>9. Stays'
  BY ONLY <1>1, <1>2, <1>3, <1>5, <1>6, <1>7, t \in Tracks, NoTrackAssumption DEF Stays
<1>10. Together'
  BY ONLY <1>1, <1>2, <1>3, <1>5, <1>6, <1>7 DEF Together, Clean, SavedIsOwn
<1>11. Shut'
  <2>1. locked \subseteq Tracks /\ None \notin locked
    BY <1>1, NoTrackAssumption DEF OthersOK
  <2> QED
    BY ONLY <1>1, <1>4, <1>6, <1>7, <2>1 DEF Shut, Clean
<1>12. AtCurrent'
  BY ONLY <1>1, <1>2, <1>3, <1>5, <1>6, <1>7 DEF AtCurrent, Clean
<1> QED
  BY <1>2, <1>8, <1>9, <1>10, <1>11, <1>12, AudioParts

LEMMA PlacedKeeps == AudioInv /\ Placed => AudioInv'
<1> SUFFICES ASSUME AudioInv, Placed PROVE AudioInv'
  OBVIOUS
<1>1. QueueOK /\ OthersOK /\ Stays /\ Together /\ Shut /\ AtCurrent
  BY AudioParts
<1>2. QueueOK' /\ CurrentItem' = CurrentItem
  BY <1>1, Unmoved DEF Placed, queueVars
<1>3. PICK t \in Tracks : t = moving.item
  BY <1>1 DEF Placed, OthersOK, Stays, Moving, MaybeTrack
<1>4. moving.at = "place" /\ t # None
  BY NoTrackAssumption DEF Placed
<1>5. moving' \in Moving /\ moving'.at = "idle"
  <2>1. moving' = [item |-> None, at |-> "idle"]
    BY DEF Placed, NotMoving
  <2> QED
    BY <2>1 DEF Moving, MaybeTrack
<1>6. /\ player' \in Player /\ player'.book = t
      /\ \/ player'.track = player.track /\ player'.loaded = player.loaded /\ player.book = t
         \/ /\ player'.track \in {t, None} /\ (player'.track = t => t \in scratch)
            /\ ~player'.loaded
  <2>1. player \in Player /\ player' = Switched(t)
    BY <1>1, <1>3 DEF Placed, OthersOK
  <2>2. CASE player.book = t /\ player.loaded
    <3>1. player' = [player EXCEPT !.playing = TRUE]
      BY <2>1, <2>2 DEF Switched
    <3> QED
      BY <2>1, <2>2, <3>1 DEF Player
  <2>3. CASE ~(player.book = t /\ player.loaded)
    <3> DEFINE p == [player EXCEPT !.book = t]
               g == Given(p, t)
    <3>1. p \in Player /\ p.book = t
      BY <2>1 DEF Player, MaybeTrack
    <3>2. player' = [g EXCEPT !.playing = TRUE]
      BY <2>1, <2>3 DEF Switched
    <3> HIDE DEF p
    <3>3. /\ g \in Player /\ g.book = t /\ ~g.loaded
          /\ g.track \in {t, None} /\ (g.track = t => t \in scratch)
      BY <3>1, GivesOwn
    <3> HIDE DEF g
    <3> QED
      BY <3>2, <3>3 DEF Player
  <2> QED
    BY <2>2, <2>3
<1>7. saved' \in {saved, Committed, Shown}
  BY DEF Placed
<1>8. saved' \in [Tracks -> Tracks] /\ (Clean({"crossed"}) => \A u \in Tracks : saved'[u] = u)
  BY <1>7, SavesOwn
<1>9. UNCHANGED <<repeat, acquire, scratch, view, locked, counts, slips>>
  BY DEF Placed, queueVars
<1>10. OthersOK'
  BY ONLY <1>1, <1>5, <1>6, <1>8, <1>9 DEF OthersOK
<1>11. Stays'
  BY ONLY <1>1, <1>2, <1>4, <1>5, <1>6, <1>9 DEF Stays
<1>12. Together'
  BY ONLY <1>1, <1>2, <1>3, <1>4, <1>5, <1>6, <1>8, <1>9 DEF Together, Clean, SavedIsOwn
<1>13. Shut'
  <2>1. locked \subseteq Tracks /\ None \notin locked
    BY <1>1, NoTrackAssumption DEF OthersOK
  <2> QED
    BY ONLY <1>1, <1>6, <1>9, <2>1 DEF Shut, Clean
<1>14. AtCurrent'
  BY ONLY <1>1, <1>2, <1>3, <1>4, <1>5, <1>6, <1>9 DEF AtCurrent, Clean
<1> QED
  BY <1>2, <1>10, <1>11, <1>12, <1>13, <1>14, AudioParts

LEMMA AudioBegins == AudioInit => AudioInv
<1> SUFFICES ASSUME AudioInit PROVE AudioInv
  OBVIOUS
<1>1. QueueOK /\ CurrentItem = None
  <2>1. items = <<>> /\ index = 0 /\ Len(items) = 0 /\ DOMAIN items = {} /\ items \in Seq(Tracks)
    BY DEF AudioInit
  <2> QED
    BY <2>1 DEF QueueOK, IsInjective, CurrentItem
<1>2. /\ player = [book |-> None, track |-> None, loaded |-> FALSE, playing |-> FALSE]
      /\ moving = [item |-> None, at |-> "idle"]
      /\ view = [at |-> "off", book |-> None, mine |-> FALSE, fresh |-> FALSE]
  BY DEF AudioInit, NoPlayer, NotMoving, NoView
<1>3. player \in Player /\ moving \in Moving /\ view \in View
  BY <1>2 DEF Player, Moving, View, MaybeTrack
<1>4. counts \in [skips : 0..MaxSkips, events : 0..MaxEvents, visits : 0..MaxVisits]
  BY AudioBoundsAssumption DEF AudioInit
<1>5. OthersOK
  BY <1>3, <1>4 DEF AudioInit, OthersOK
<1>6. Stays /\ AtCurrent
  BY <1>1, <1>2 DEF Stays, AtCurrent
<1>7. Together
  BY <1>2 DEF Together, SavedIsOwn, AudioInit
<1>8. Shut
  BY DEF Shut, AudioInit
<1> QED
  BY <1>1, <1>5, <1>6, <1>7, <1>8, AudioTypes DEF AudioInv

LEMMA AudioStep == AudioInv /\ [AudioNext]_audioVars => AudioInv'
<1> SUFFICES ASSUME AudioInv, [AudioNext]_audioVars PROVE AudioInv'
  OBVIOUS
<1>1. CASE UNCHANGED audioVars
  BY <1>1 DEF audioVars, AudioInv, AudioTypeOK, Stays, Together, Shut, AtCurrent, Clean,
              SavedIsOwn, CurrentItem
<1>2. CASE AudioNext
  BY <1>2, SkipKeeps, ToggleKeeps, SelectKeeps, FinishesKeeps, LoadsKeeps, ModeKeeps, PlacedKeeps,
     AcquireFailsKeeps, LicensedKeeps, WrittenKeeps, ResolvedKeeps, AddKeeps, RemoveKeeps,
     ReorderKeeps, RepeatKeeps, ClearKeeps, OpenKeeps, MountKeeps, ShowKeeps, LeaveKeeps,
     LockKeeps, SweepKeeps DEF AudioNext
<1> QED
  BY <1>1, <1>2

(* The queue, the player, the move under way, the screen and what is saved    *)
(* stay about one book (audioQueueCoordinator.ts, audioPlayerInstance.ts).    *)
THEOREM AudioInvariance == AudioSpec => []AudioInv
<1>1. AudioInit => AudioInv
  BY AudioBegins
<1>2. AudioInv /\ [AudioNext]_audioVars => AudioInv'
  BY AudioStep
<1> QED
  BY <1>1, <1>2, PTL DEF AudioSpec

(* What is heard is the queue's own item and may be heard, and what is saved  *)
(* of it is its own, for any queue and any interleaving of its edits with the *)
(* moves, the screen and the locks; the slips of PlayerFollowsQueue excepted. *)
THEOREM PlayerKeepsToTheQueue == AudioSpec => []PlayerFollowsQueue
<1>1. AudioInv => PlayerFollowsQueue
  <2> SUFFICES ASSUME AudioInv PROVE PlayerFollowsQueue
    OBVIOUS
  <2>1. Stays /\ Together /\ Shut /\ AtCurrent
    BY AudioParts
  <2>2. SavedIsOwn
    BY <2>1 DEF Together, Clean, SavedIsOwn
  <2>3. HeardIsCurrent
    <3> SUFFICES ASSUME Audible, moving.at = "idle", view.at # "syncing",
                        slips \intersect {"crossed", "failed", "adrift"} = {}
                 PROVE  player.track = CurrentItem
      BY DEF HeardIsCurrent
    <3>1. Clean({"crossed", "failed", "adrift"}) /\ Clean({"crossed"})
      BY DEF Clean
    <3>2. player.track # None /\ player.track = player.book
      BY <2>1, <3>1 DEF Audible, Stays, Together
    <3> QED
      BY <2>1, <3>1, <3>2 DEF AtCurrent
  <2>4. LockedIsSilent
    BY <2>1 DEF Shut, Clean, LockedIsSilent
  <2> QED
    BY <2>2, <2>3, <2>4 DEF PlayerFollowsQueue
<1> QED
  BY <1>1, AudioInvariance, PTL

-----------------------------------------------------------------------------
(* SpeechSession.                                                            *)

Unheard == Range(events)

(* As long as no utterance overlapped another, what the engine was given is   *)
(* the sentence the session waits for, and what is under way is about that.   *)
InHand ==
  /\ engine.queue = <<>> => ~engine.begun
  /\ engine.suspended => engine.begun /\ ios
  /\ ~overlapped /\ engine.queue # <<>> =>
       /\ engine.queue = <<speech.now>> /\ speech.awaiting
       /\ Unheard \subseteq {"start", "pause", "resume"}
       /\ ~engine.begun => events = <<>>

(* The session knows of a voice once its start was heard.                     *)
Spoken ==
  ~overlapped /\ engine.begun /\ "start" \notin Unheard =>
    speech.status \in {"speaking", "paused"} /\ wash \in {0, speech.now}

(* Of a page that was left nothing is held, asked for or under way.           *)
LeftBehind ==
  ~overlapped /\ left =>
    /\ speech.held = 0 /\ speech.status # "speaking"
    /\ Range(fetches) \subseteq {0} /\ Unheard \subseteq {"cancel"}
    /\ engine.queue = <<>> \/ (engine.suspended /\ speech.moved /\ speech.status = "paused")

ClosedIsSilent == ~reading => engine = Silence /\ fetches = <<>>

(* The player reports each change once, and in order.                         *)
Alternating ==
  /\ \A i \in DOMAIN reports :
       reports[i] = TRUE <=> IF i = 1 THEN audio.told = FALSE ELSE reports[i - 1] = FALSE
  /\ audio.on = TRUE <=> IF reports = <<>> THEN audio.told = TRUE
                                           ELSE reports[Len(reports)] = TRUE

(* One of the two is about to be stopped.                                     *)
OneOfBoth ==
  ~overlapped /\ engine.begun /\ audio.on => "start" \in Unheard \/ TRUE \in Range(reports)

SpeechInv ==
  /\ SpeechTypeOK /\ InHand /\ Spoken /\ LeftBehind /\ ClosedIsSilent
  /\ Alternating /\ OneOfBoth

Engine == [queue : Seq(Sentences), begun : BOOLEAN, suspended : BOOLEAN]
AudioPlayer == [starting : BOOLEAN, on : BOOLEAN, told : BOOLEAN]
SpeechUses == [presses : 0..MaxPresses, turns : 0..MaxTurns, audio : 0..MaxAudio]

LEMMA SpeechParts ==
  /\ SpeechInv => SpeechTypeOK /\ InHand /\ Spoken /\ LeftBehind /\ ClosedIsSilent /\ Alternating /\ OneOfBoth
  /\ SpeechTypeOK' /\ InHand' /\ Spoken' /\ LeftBehind' /\ ClosedIsSilent' /\ Alternating' /\ OneOfBoth'
       => SpeechInv'
BY DEF SpeechInv

LEMMA Appended ==
  ASSUME NEW S, NEW s \in Seq(S), NEW e \in S
  PROVE  /\ Append(s, e) \in Seq(S) /\ Append(s, e) # <<>>
         /\ Range(Append(s, e)) = Range(s) \union {e}
<1>1. /\ Append(s, e) \in Seq(S) /\ Append(s, e) # <<>>
      /\ Len(Append(s, e)) = Len(s) + 1
      /\ \A k \in 1..Len(s) : Append(s, e)[k] = s[k]
      /\ Append(s, e)[Len(s) + 1] = e
  BY AppendProperties
<1>2. Len(s) \in Nat /\ DOMAIN s = 1..Len(s) /\ DOMAIN Append(s, e) = 1..(Len(s) + 1)
  BY <1>1, LenProperties
<1>3. Range(Append(s, e)) = Range(s) \union {e}
  BY <1>1, <1>2 DEF Range
<1> QED
  BY <1>1, <1>3

LEMMA HeadAndTail ==
  ASSUME NEW S, NEW s \in Seq(S), s # <<>>
  PROVE  /\ Tail(s) \in Seq(S) /\ Head(s) \in S
         /\ Range(s) = Range(Tail(s)) \union {Head(s)}
         /\ Len(s) <= 1 => Tail(s) = <<>>
<1>1. /\ Len(s) \in Nat /\ Len(s) # 0 /\ DOMAIN s = 1..Len(s)
      /\ Tail(s) \in Seq(S) /\ Len(Tail(s)) = Len(s) - 1 /\ Head(s) = s[1] /\ Head(s) \in S
      /\ \A k \in 1..(Len(s) - 1) : Tail(s)[k] = s[k + 1]
  BY LenProperties, HeadTailProperties
<1>2. DOMAIN Tail(s) = 1..(Len(s) - 1)
  BY <1>1, LenProperties
<1>3. \A k \in 1..Len(s) : k = 1 \/ (k - 1 \in 1..(Len(s) - 1) /\ s[k] = Tail(s)[k - 1])
  BY <1>1
<1>4. Range(s) = Range(Tail(s)) \union {Head(s)}
  <2>1. ASSUME NEW k \in 1..Len(s) PROVE s[k] \in Range(Tail(s)) \union {Head(s)}
    <3>1. CASE k = 1
      BY <1>1, <3>1
    <3>2. CASE k # 1
      <4>1. k - 1 \in DOMAIN Tail(s) /\ s[k] = Tail(s)[k - 1]
        BY <1>1, <1>2, <1>3, <3>2
      <4> QED
        BY <4>1 DEF Range
    <3> QED
      BY <3>1, <3>2
  <2>2. Head(s) \in Range(s)
    BY <1>1 DEF Range
  <2>3. Range(Tail(s)) \subseteq Range(s)
    <3>1. \A k \in 1..(Len(s) - 1) : k + 1 \in 1..Len(s) /\ Tail(s)[k] = s[k + 1]
      BY <1>1
    <3> QED
      BY <1>1, <1>2, <3>1 DEF Range
  <2> QED
    BY <1>1, <2>1, <2>2, <2>3 DEF Range
<1>5. Len(s) <= 1 => Tail(s) = <<>>
  BY <1>1
<1> QED
  BY <1>1, <1>4, <1>5

LEMMA NoneInRange ==
  ASSUME NEW S, NEW s \in Seq(S)
  PROVE  s = <<>> <=> Range(s) = {}
<1>1. Len(s) \in Nat /\ DOMAIN s = 1..Len(s) /\ (Len(s) = 0 <=> s = <<>>)
  BY LenProperties, EmptySeq
<1>2. Len(s) # 0 => s[1] \in Range(s)
  BY <1>1 DEF Range
<1>3. Len(s) = 0 => Range(s) = {}
  BY <1>1 DEF Range
<1> QED
  BY <1>1, <1>2, <1>3

LEMMA WithoutOne ==
  ASSUME NEW S, NEW s \in Seq(S), NEW i \in DOMAIN s
  PROVE  RemoveAt(s, i) \in Seq(S) /\ Range(RemoveAt(s, i)) \subseteq Range(s)
<1>1. Len(s) \in Nat /\ DOMAIN s = 1..Len(s)
  BY LenProperties
<1>2. /\ RemoveAt(s, i) \in Seq(S) /\ Len(RemoveAt(s, i)) = Len(s) - 1
      /\ \A k \in 1..(Len(s) - 1) : RemoveAt(s, i)[k] = IF k < i THEN s[k] ELSE s[k + 1]
  BY <1>1, Removing
<1>3. DOMAIN RemoveAt(s, i) = 1..(Len(s) - 1)
  BY <1>2, LenProperties
<1>4. \A k \in 1..(Len(s) - 1) : RemoveAt(s, i)[k] \in {s[k], s[k + 1]} /\ {k, k + 1} \subseteq DOMAIN s
  BY <1>1, <1>2
<1>5. Range(RemoveAt(s, i)) \subseteq Range(s)
  BY <1>3, <1>4 DEF Range
<1> QED
  BY <1>2, <1>5

LEMMA SpeechUsesUp ==
  ASSUME used \in SpeechUses,
         \/ used' = used
         \/ Uses("presses", MaxPresses) \/ Uses("turns", MaxTurns) \/ Uses("audio", MaxAudio)
  PROVE  used' \in SpeechUses
<1> USE DEF SpeechUses, Uses
<1>0. MaxPresses \in Nat /\ MaxTurns \in Nat /\ MaxAudio \in Nat
  BY SpeechAssumption
<1>1. CASE used' = used
  BY <1>1
<1>2. CASE Uses("presses", MaxPresses)
  BY <1>0, <1>2
<1>3. CASE Uses("turns", MaxTurns)
  BY <1>0, <1>3
<1>4. CASE Uses("audio", MaxAudio)
  BY <1>0, <1>4
<1> QED
  BY <1>1, <1>2, <1>3, <1>4

LEMMA SpeechTypes ==
  /\ SpeechTypeOK =>
       /\ speech \in Session /\ fetches \in Seq(Fetch) /\ engine \in Engine /\ events \in Seq(Event)
       /\ audio \in AudioPlayer /\ reports \in Seq(BOOLEAN) /\ pageInView \in Sentences
       /\ wash \in 0..LastSentence /\ ios \in BOOLEAN /\ reading \in BOOLEAN
       /\ overlapped \in BOOLEAN /\ left \in BOOLEAN /\ used \in SpeechUses
  /\ /\ speech' \in Session /\ fetches' \in Seq(Fetch) /\ engine' \in Engine /\ events' \in Seq(Event)
     /\ audio' \in AudioPlayer /\ reports' \in Seq(BOOLEAN) /\ pageInView' \in Sentences
     /\ wash' \in 0..LastSentence /\ ios' \in BOOLEAN /\ reading' \in BOOLEAN
     /\ overlapped' \in BOOLEAN /\ left' \in BOOLEAN /\ used' \in SpeechUses
     => SpeechTypeOK'
BY DEF SpeechTypeOK, Engine, AudioPlayer, SpeechUses

(* pauseActiveAudio() and what the player makes of it.                        *)
LEMMA AudioSilenced ==
  ASSUME SpeechTypeOK, Alternating, AudioPaused
  PROVE  /\ audio' \in AudioPlayer /\ reports' \in Seq(BOOLEAN) /\ Alternating' /\ ~audio'.on
<1>1. audio \in AudioPlayer /\ reports \in Seq(BOOLEAN)
  BY SpeechTypes
<1>2. audio' \in AudioPlayer /\ audio'.on = FALSE /\ audio'.told = audio.told
  BY <1>1 DEF AudioPaused, AudioPlayer
<1>3. Len(reports) \in Nat /\ DOMAIN reports = 1..Len(reports) /\ (Len(reports) = 0 <=> reports = <<>>)
  BY <1>1, LenProperties, EmptySeq
<1>4. CASE audio.on
  <2>1. reports' = Append(reports, FALSE)
    BY <1>4 DEF AudioPaused
  <2>2. /\ reports' \in Seq(BOOLEAN) /\ reports' # <<>> /\ Len(reports') = Len(reports) + 1
        /\ \A k \in 1..Len(reports) : reports'[k] = reports[k]
        /\ reports'[Len(reports) + 1] = FALSE
    <3>1. reports \in Seq(BOOLEAN) /\ FALSE \in BOOLEAN
      BY <1>1
    <3>2. /\ Append(reports, FALSE) \in Seq(BOOLEAN) /\ Append(reports, FALSE) # <<>>
          /\ Len(Append(reports, FALSE)) = Len(reports) + 1
          /\ \A k \in 1..Len(reports) : Append(reports, FALSE)[k] = reports[k]
          /\ Append(reports, FALSE)[Len(reports) + 1] = FALSE
      <4>1. \A e \in BOOLEAN :
              /\ Append(reports, e) \in Seq(BOOLEAN) /\ Append(reports, e) # <<>>
              /\ Len(Append(reports, e)) = Len(reports) + 1
              /\ \A k \in 1..Len(reports) : Append(reports, e)[k] = reports[k]
              /\ Append(reports, e)[Len(reports) + 1] = e
        BY ONLY <3>1, AppendProperties, SMTT(30)
      <4> QED
        BY <3>1, <4>1, Zenon
    <3> QED
      BY <2>1, <3>2
  <2>3. DOMAIN reports' = 1..(Len(reports) + 1)
    BY <2>2, LenProperties
  <2>4. audio.on = TRUE
    BY <1>1, <1>4 DEF AudioPlayer
  <2>5. ASSUME NEW i \in DOMAIN reports'
        PROVE  reports'[i] = TRUE <=> IF i = 1 THEN audio'.told = FALSE ELSE reports'[i - 1] = FALSE
    <3>1. CASE i \in 1..Len(reports)
      BY <1>2, <1>3, <2>2, <3>1 DEF Alternating
    <3>2. CASE i = Len(reports) + 1
      BY <1>2, <1>3, <2>2, <2>4, <3>2 DEF Alternating
    <3>3. i \in 1..Len(reports) \/ i = Len(reports) + 1
      BY ONLY <1>3, <2>3, i \in DOMAIN reports'
    <3> QED
      BY <3>1, <3>2, <3>3
  <2>6. Alternating'
    BY <1>2, <1>3, <2>2, <2>5 DEF Alternating
  <2> QED
    BY <1>2, <2>2, <2>6
<1>5. CASE ~audio.on
  <2>1. reports' = reports /\ audio.on = FALSE
    BY <1>1, <1>5 DEF AudioPaused, AudioPlayer
  <2>2. Alternating'
    BY <1>2, <2>1 DEF Alternating
  <2> QED
    BY <1>1, <1>2, <2>1, <2>2
<1> QED
  BY <1>4, <1>5


SpeechTyped ==
  /\ speech \in Session /\ fetches \in Seq(Fetch) /\ engine \in Engine /\ events \in Seq(Event)
  /\ audio \in AudioPlayer /\ reports \in Seq(BOOLEAN) /\ pageInView \in Sentences
  /\ wash \in 0..LastSentence /\ ios \in BOOLEAN /\ reading \in BOOLEAN
  /\ overlapped \in BOOLEAN /\ left \in BOOLEAN /\ used \in SpeechUses

SpeechRest == InHand /\ Spoken /\ LeftBehind /\ ClosedIsSilent /\ Alternating /\ OneOfBoth

LEMMA SpeechInvIs ==
  /\ SpeechInv <=> SpeechTyped /\ SpeechRest
  /\ SpeechInv' <=> SpeechTyped' /\ SpeechRest'
BY DEF SpeechInv, SpeechTypeOK, SpeechTyped, SpeechRest, Engine, AudioPlayer, SpeechUses

LEMMA SilenceIs ==
  Silence \in Engine /\ Silence.queue = <<>> /\ Silence.begun = FALSE /\ Silence.suspended = FALSE
<1>1. <<>> \in Seq(Sentences)
  OBVIOUS
<1> QED
  BY <1>1 DEF Silence, Engine

LEMMA IdleIs ==
  ASSUME NEW status \in {"idle", "speaking", "paused", "error"}
  PROVE  /\ [Idle EXCEPT !.status = status] \in Session
         /\ [Idle EXCEPT !.status = status].status = status
         /\ [Idle EXCEPT !.status = status].held = 0
         /\ Idle \in Session /\ Idle.held = 0 /\ Idle.status = "idle"
<1>1. 0 \in 0..LastSentence
  BY SpeechAssumption
<1> QED
  BY <1>1 DEF Idle, Session

(* Nothing is said or asked for any more.                                    *)
LEMMA VoiceHushed ==
  ASSUME SpeechTyped, SpeechRest,
         speech' \in Session, speech'.status \in {"idle", "error"}, speech'.held = 0,
         fetches' = <<>>, wash' = 0, engine' = Silence,
         events' \in Seq(Event), Unheard' \subseteq Unheard \union {"cancel"},
         audio' \in AudioPlayer, reports' \in Seq(BOOLEAN), Alternating',
         pageInView' = pageInView, ios' = ios, reading' \in BOOLEAN, used' \in SpeechUses,
         overlapped' = overlapped, left' \in BOOLEAN, left' => left
  PROVE  SpeechInv'
<1>1. /\ engine' \in Engine /\ engine'.queue = <<>> /\ engine'.begun = FALSE
      /\ engine'.suspended = FALSE
  BY SilenceIs
<1>2. fetches' \in Seq(Fetch) /\ Range(fetches') = {}
  <2>1. <<>> \in Seq(Fetch)
    OBVIOUS
  <2> QED
    BY <2>1, NoneInRange
<1>3. 0 \in 0..LastSentence
  BY SpeechAssumption
<1>4. SpeechTyped'
  BY <1>1, <1>2, <1>3 DEF SpeechTyped
<1>5. InHand' /\ Spoken' /\ OneOfBoth'
  BY <1>1 DEF InHand, Spoken, OneOfBoth
<1>6. LeftBehind'
  BY <1>1, <1>2 DEF LeftBehind, SpeechRest
<1>7. ClosedIsSilent'
  BY DEF ClosedIsSilent
<1> QED
  BY <1>4, <1>5, <1>6, <1>7, SpeechInvIs DEF SpeechRest

LEMMA ReportedIs ==
  ASSUME SpeechTyped
  PROVE  Reported \in Seq(Event) /\ Range(Reported) \subseteq Unheard \union {"cancel"}
<1>1. /\ Append(events, "cancel") \in Seq(Event)
      /\ Range(Append(events, "cancel")) = Range(events) \union {"cancel"}
  <2>1. events \in Seq(Event) /\ "cancel" \in Event
    BY DEF SpeechTyped, Event
  <2> QED
    BY ONLY <2>1, Appended, SMTT(30)
<1> QED
  BY <1>1 DEF Reported, Unheard, SpeechTyped

(* stopInternal().                                                           *)
LEMMA StopHushes ==
  ASSUME SpeechTyped, SpeechRest, NEW status \in {"idle", "error"}, StopsWith(status),
         audio' \in AudioPlayer, reports' \in Seq(BOOLEAN), Alternating',
         pageInView' = pageInView, ios' = ios, reading' \in BOOLEAN, used' \in SpeechUses,
         overlapped' = overlapped, left' \in BOOLEAN, left' => left
  PROVE  SpeechInv'
<1>1. speech' \in Session /\ speech'.status \in {"idle", "error"} /\ speech'.held = 0
  BY IdleIs DEF StopsWith
<1>2. events' \in Seq(Event) /\ Unheard' \subseteq Unheard \union {"cancel"}
  BY ReportedIs DEF StopsWith, Unheard
<1> QED
  BY <1>1, <1>2, VoiceHushed DEF StopsWith

(* The engine is given a sentence.                                           *)
LEMMA Utters ==
  ASSUME SpeechTyped, SpeechRest, NEW s \in Sentences,
         speech' \in Session, speech'.now = s, speech'.awaiting,
         engine' = [engine EXCEPT !.queue = Append(@, s)],
         overlapped' \in BOOLEAN,
         ~overlapped' => ~overlapped /\ engine.queue = <<>> /\ events' = <<>> /\ ~left',
         events' \in Seq(Event), fetches' \in Seq(Fetch), wash' = wash,
         audio' \in AudioPlayer, reports' \in Seq(BOOLEAN), Alternating', ~audio'.on,
         pageInView' = pageInView, ios' = ios, reading, reading' = reading, used' \in SpeechUses,
         left' \in BOOLEAN
  PROVE  SpeechInv'
<1>1. engine \in Engine
  BY DEF SpeechTyped
<1>2. /\ Append(engine.queue, s) \in Seq(Sentences) /\ Append(engine.queue, s) # <<>>
      /\ engine.queue = <<>> => Append(engine.queue, s) = <<s>>
  <2>1. engine.queue \in Seq(Sentences)
    BY <1>1 DEF Engine
  <2>2. Append(engine.queue, s) \in Seq(Sentences) /\ Append(engine.queue, s) # <<>>
    BY ONLY <2>1, s \in Sentences, Appended, SMTT(30)
  <2>3. Append(<<>>, s) = <<s>>
    OBVIOUS
  <2> QED
    BY <2>2, <2>3
<1>3. /\ engine' \in Engine /\ engine'.queue = Append(engine.queue, s)
      /\ engine'.begun = engine.begun /\ engine'.suspended = engine.suspended
  BY <1>1, <1>2 DEF Engine
<1>4. ~overlapped' => ~engine'.begun /\ engine'.queue = <<s>> /\ ~engine'.suspended
  BY <1>2, <1>3 DEF SpeechRest, InHand
<1>5. SpeechTyped'
  BY <1>3 DEF SpeechTyped
<1>6. InHand'
  <2>1. ~overlapped' => Range(events') = {}
    BY NoneInRange
  <2> QED
    BY <1>2, <1>3, <1>4, <2>1 DEF InHand, SpeechRest, Unheard
<1>7. Spoken' /\ OneOfBoth' /\ LeftBehind'
  BY <1>4 DEF Spoken, OneOfBoth, LeftBehind
<1>8. ClosedIsSilent'
  BY DEF ClosedIsSilent
<1> QED
  BY <1>5, <1>6, <1>7, <1>8, SpeechInvIs DEF SpeechRest

LEMMA AudioKeptKeeps ==
  ASSUME SpeechTyped, Alternating, AudioKept
  PROVE  audio' \in AudioPlayer /\ reports' \in Seq(BOOLEAN) /\ Alternating'
BY DEF AudioKept, SpeechTyped, Alternating

LEMMA BeginsKeeps == SpeechInv /\ Begins /\ ios' = ios => SpeechInv'
<1> SUFFICES ASSUME SpeechInv, Begins, ios' = ios PROVE SpeechInv'
  OBVIOUS
<1>1. SpeechTyped /\ SpeechRest
  BY SpeechInvIs
<1>2. /\ engine' \in Engine /\ engine'.queue = engine.queue /\ engine'.begun = TRUE
      /\ engine'.suspended = engine.suspended /\ engine.queue # <<>> /\ ~engine.begun
  BY <1>1 DEF SpeechTyped, Engine, Begins
<1>3. events' \in Seq(Event) /\ Unheard' = Unheard \union {"start"}
  <2>1. events \in Seq(Event) /\ "start" \in Event
    BY <1>1 DEF SpeechTyped, Event
  <2>2. Append(events, "start") \in Seq(Event)
        /\ Range(Append(events, "start")) = Range(events) \union {"start"}
    BY ONLY <2>1, Appended, SMTT(30)
  <2> QED
    BY <2>2 DEF Begins, Unheard
<1>4. UNCHANGED <<speech, fetches, audio, reports, pageInView, wash, reading, used, overlapped, left>>
  BY DEF Begins
<1>5. SpeechTyped'
  BY <1>1, <1>2, <1>3, <1>4 DEF SpeechTyped
<1>6. InHand'
  BY <1>1, <1>2, <1>3, <1>4 DEF InHand, SpeechRest
<1>7. Spoken' /\ OneOfBoth'
  BY <1>3 DEF Spoken, OneOfBoth
<1>8. LeftBehind'
  BY <1>1, <1>2, <1>4 DEF LeftBehind, InHand, SpeechRest
<1>9. ClosedIsSilent' /\ Alternating'
  BY <1>1, <1>2, <1>4, SilenceIs DEF ClosedIsSilent, Alternating, SpeechRest
<1> QED
  BY <1>5, <1>6, <1>7, <1>8, <1>9, SpeechInvIs DEF SpeechRest

LEMMA EndsKeeps == SpeechInv /\ Ends /\ ios' = ios => SpeechInv'
<1> SUFFICES ASSUME SpeechInv, Ends, ios' = ios PROVE SpeechInv'
  OBVIOUS
<1>1. SpeechTyped /\ SpeechRest
  BY SpeechInvIs
<1>2. engine \in Engine /\ engine.begun /\ ~engine.suspended /\ engine.queue # <<>>
  BY <1>1 DEF SpeechTyped, Ends, Voice, SpeechRest, InHand
<1>3. Tail(engine.queue) \in Seq(Sentences)
  <2>1. engine.queue \in Seq(Sentences)
    BY <1>2 DEF Engine
  <2> QED
    BY ONLY <1>2, <2>1, HeadAndTail, SMTT(30)
<1>4. /\ engine' \in Engine /\ engine'.queue = Tail(engine.queue) /\ engine'.begun = FALSE
      /\ engine'.suspended = FALSE
  BY <1>2, <1>3 DEF Engine, Ends
<1>5. PICK e \in Event : events' = Append(events, e)
  BY DEF Ends, Event
<1>6. events' \in Seq(Event)
  <2>1. events \in Seq(Event)
    BY <1>1 DEF SpeechTyped
  <2> QED
    BY <1>5, <2>1, Appended
<1>7. UNCHANGED <<speech, fetches, audio, reports, pageInView, wash, reading, overlapped, left>>
  BY DEF Ends
<1>8. used' \in SpeechUses
  BY <1>1, SpeechUsesUp DEF Ends, SpeechTyped
<1>9. SpeechTyped'
  BY <1>1, <1>4, <1>6, <1>7, <1>8 DEF SpeechTyped
<1>10. InHand'
  <2>1. ~overlapped => Tail(engine.queue) = <<>>
    <3>1. ~overlapped => engine.queue = <<speech.now>>
      BY <1>1, <1>2 DEF SpeechRest, InHand
    <3>2. engine.queue \in Seq(Sentences)
      BY <1>2 DEF Engine
    <3>3. Len(engine.queue) <= 1 => Tail(engine.queue) = <<>>
      BY ONLY <1>2, <3>2, HeadAndTail, SMTT(30)
    <3>4. \A q : q = <<speech.now>> => Len(q) = 1
      OBVIOUS
    <3>5. ~overlapped => Len(engine.queue) = 1
      BY <3>1, <3>4, Zenon
    <3>6. Len(engine.queue) = 1 => Len(engine.queue) <= 1
      OBVIOUS
    <3> QED
      BY <3>3, <3>5, <3>6, Zenon
  <2> QED
    BY <1>1, <1>4, <1>7, <2>1 DEF InHand, SpeechRest
<1>11. Spoken' /\ OneOfBoth'
  BY <1>4 DEF Spoken, OneOfBoth
<1>12. LeftBehind'
  BY <1>1, <1>2, <1>7 DEF LeftBehind, SpeechRest
<1>13. ClosedIsSilent' /\ Alternating'
  BY <1>1, <1>2, <1>7, SilenceIs DEF ClosedIsSilent, Alternating, SpeechRest
<1> QED
  BY <1>9, <1>10, <1>11, <1>12, <1>13, SpeechInvIs DEF SpeechRest

LEMMA PrefetchedKeeps == SpeechInv /\ Prefetched /\ ios' = ios => SpeechInv'
<1> SUFFICES ASSUME SpeechInv, Prefetched, ios' = ios PROVE SpeechInv'
  OBVIOUS
<1>1. SpeechTyped /\ SpeechRest
  BY SpeechInvIs
<1>2. /\ speech' \in Session /\ speech'.now = speech.now /\ speech'.awaiting = speech.awaiting
      /\ speech'.status = speech.status /\ speech'.held = speech.held /\ speech'.moved = speech.moved
  BY <1>1 DEF SpeechTyped, Session, Prefetched
<1>3. UNCHANGED <<fetches, engine, events, audio, reports, pageInView, wash, reading, used,
                  overlapped, left>>
  BY DEF Prefetched
<1>4. SpeechTyped'
  BY <1>1, <1>2, <1>3 DEF SpeechTyped
<1>5. InHand' /\ Spoken' /\ LeftBehind'
  BY <1>1, <1>2, <1>3 DEF InHand, Spoken, LeftBehind, SpeechRest, Unheard
<1>6. ClosedIsSilent' /\ Alternating' /\ OneOfBoth'
  BY <1>1, <1>3 DEF ClosedIsSilent, Alternating, OneOfBoth, SpeechRest, Unheard
<1> QED
  BY <1>4, <1>5, <1>6, SpeechInvIs DEF SpeechRest

LEMMA TurnKeeps == SpeechInv /\ Turn /\ ios' = ios => SpeechInv'
<1> SUFFICES ASSUME SpeechInv, Turn, ios' = ios PROVE SpeechInv'
  OBVIOUS
<1>1. SpeechTyped /\ SpeechRest
  BY SpeechInvIs
<1>2. /\ speech' \in Session /\ speech'.now = speech.now /\ speech'.awaiting = speech.awaiting
      /\ speech'.status = speech.status /\ speech'.held = 0
      /\ speech'.moved <=> speech.moved \/ speech.status = "paused"
  <2>1. speech \in Session /\ 0 \in 0..LastSentence /\ (speech.moved \/ speech.status = "paused") \in BOOLEAN
    BY <1>1, SpeechAssumption DEF SpeechTyped
  <2> QED
    BY <2>1 DEF Session, Turn, LeftPlace
<1>3. fetches' \in Seq(Fetch) /\ Range(fetches') = {}
  <2>1. <<>> \in Seq(Fetch)
    OBVIOUS
  <2> QED
    BY <2>1, NoneInRange DEF Turn
<1>4. /\ UNCHANGED <<engine, events, audio, reports, reading, overlapped>>
      /\ wash' = 0 /\ fetches' = <<>> /\ reading /\ pageInView' \in Sentences
  BY DEF Turn
<1>5. left' \in BOOLEAN /\ (left' <=> left \/ AllPaused)
  BY DEF Turn
<1>6. used' \in SpeechUses /\ 0 \in 0..LastSentence
  BY <1>1, SpeechUsesUp, SpeechAssumption DEF Turn, SpeechTyped
<1>7. SpeechTyped'
  BY <1>1, <1>2, <1>3, <1>4, <1>5, <1>6 DEF SpeechTyped
<1>8. InHand' /\ Spoken'
  BY <1>1, <1>2, <1>4 DEF InHand, Spoken, SpeechRest, Unheard
<1>9. LeftBehind'
  <2>1. AllPaused => /\ speech.status = "paused" /\ Unheard = {}
                     /\ engine.suspended \/ engine.queue = <<>>
    BY <1>1, NoneInRange DEF AllPaused, Unheard, SpeechTyped
  <2>2. Unheard' = Unheard
    BY <1>4 DEF Unheard
  <2> QED
    BY <1>1, <1>2, <1>3, <1>4, <1>5, <2>1, <2>2 DEF LeftBehind, SpeechRest
<1>10. ClosedIsSilent' /\ Alternating' /\ OneOfBoth'
  BY <1>1, <1>4 DEF ClosedIsSilent, Alternating, OneOfBoth, SpeechRest, Unheard
<1> QED
  BY <1>7, <1>8, <1>9, <1>10, SpeechInvIs DEF SpeechRest


LEMMA PlayKeeps == SpeechInv /\ Play /\ ios' = ios => SpeechInv'
<1> SUFFICES ASSUME SpeechInv, Play, ios' = ios PROVE SpeechInv'
  OBVIOUS
<1>1. SpeechTyped /\ SpeechRest /\ SpeechTypeOK
  BY SpeechInvIs DEF SpeechInv
<1>2. used' \in SpeechUses /\ UNCHANGED <<pageInView, reading, left>> /\ reading
  BY <1>1, SpeechUsesUp DEF Play, SpeechTyped
<1>3. left' \in BOOLEAN /\ pageInView' \in Sentences /\ reading' \in BOOLEAN
  BY <1>1, <1>2 DEF SpeechTyped
<1>4. CASE /\ speech.status = "paused" /\ ~speech.moved /\ ios
           /\ AudioPaused
           /\ IF engine.suspended
              THEN /\ engine' = [engine EXCEPT !.suspended = FALSE]
                   /\ events' = Append(events, "resume")
              ELSE UNCHANGED <<engine, events>>
           /\ UNCHANGED <<speech, fetches, overlapped, wash>>
  <2>1. /\ audio' \in AudioPlayer /\ reports' \in Seq(BOOLEAN) /\ Alternating' /\ ~audio'.on
    BY <1>1, <1>4, AudioSilenced DEF SpeechRest
  <2>2. /\ engine' \in Engine /\ engine'.queue = engine.queue /\ engine'.begun = engine.begun
        /\ engine'.suspended => engine.suspended
        /\ \/ engine' = engine /\ events' = events
           \/ engine.suspended /\ events' = Append(events, "resume")
    BY <1>1, <1>4 DEF SpeechTyped, Engine
  <2>3. events' \in Seq(Event) /\ Unheard' \in {Unheard, Unheard \union {"resume"}}
    <3>1. events \in Seq(Event) /\ "resume" \in Event
      BY <1>1 DEF SpeechTyped, Event
    <3>2. Append(events, "resume") \in Seq(Event)
          /\ Range(Append(events, "resume")) = Range(events) \union {"resume"}
      BY ONLY <3>1, Appended, SMTT(30)
    <3> QED
      BY <2>2, <3>1, <3>2 DEF Unheard
  <2>4. engine.suspended \/ (events' = events /\ Unheard' = Unheard)
    BY <2>2 DEF Unheard
  <2>5. SpeechTyped'
    BY <1>1, <1>2, <1>3, <1>4, <2>1, <2>2, <2>3 DEF SpeechTyped
  <2>6. InHand'
    BY <1>1, <1>4, <2>2, <2>3, <2>4 DEF InHand, SpeechRest
  <2>7. Spoken'
    BY <1>1, <1>4, <2>2, <2>3 DEF Spoken, SpeechRest
  <2>8. LeftBehind'
    BY <1>1, <1>2, <1>4, <2>2, <2>3, <2>4 DEF LeftBehind, InHand, SpeechRest
  <2>9. ClosedIsSilent' /\ OneOfBoth'
    BY <1>2, <2>1 DEF ClosedIsSilent, OneOfBoth
  <2> QED
    BY <2>1, <2>5, <2>6, <2>7, <2>8, <2>9, SpeechInvIs DEF SpeechRest
<1>5. CASE /\ speech.status = "paused" /\ ~speech.moved /\ ~ios /\ speech.held # 0
           /\ Speaks(speech.held) /\ fetches' = fetches
  <2>1. PICK s \in Sentences : s = speech.held
    BY <1>1, <1>5, SpeechAssumption DEF SpeechTyped, Session, Sentences
  <2>2. /\ audio' \in AudioPlayer /\ reports' \in Seq(BOOLEAN) /\ Alternating' /\ ~audio'.on
    BY <1>1, <1>5, AudioSilenced DEF SpeechRest, Speaks
  <2>3. speech' \in Session /\ speech'.now = s /\ speech'.awaiting
    <3>1. speech \in Session /\ 0 \in 0..LastSentence /\ s \in 0..LastSentence
      BY <1>1, <2>1, SpeechAssumption DEF SpeechTyped, Sentences
    <3>2. speech' = [speech EXCEPT !.now = s, !.awaiting = TRUE, !.next = "asked", !.held = 0]
      BY <1>5, <2>1 DEF Speaks
    <3> QED
      BY <3>1, <3>2 DEF Session
  <2>4. /\ engine' = [engine EXCEPT !.queue = Append(@, s)] /\ wash' = wash /\ events' = events
        /\ overlapped' <=> overlapped \/ engine.queue # <<>> \/ events # <<>>
        /\ overlapped' \in BOOLEAN
    BY <1>5, <2>1 DEF Speaks
  <2>5. ~overlapped' => ~overlapped /\ engine.queue = <<>> /\ events' = <<>> /\ ~left'
    BY <1>1, <1>2, <1>5, <2>4 DEF SpeechRest, LeftBehind
  <2>6. events' \in Seq(Event) /\ fetches' \in Seq(Fetch)
    BY <1>1, <1>5, <2>4 DEF SpeechTyped
  <2> QED
    BY ONLY <1>1, <1>2, <1>3, <2>1, <2>2, <2>3, <2>4, <2>5, <2>6, ios' = ios, Utters
<1>6. CASE /\ ~(speech.status = "paused" /\ ~speech.moved /\ (ios \/ speech.held # 0))
           /\ AudioPaused
           /\ IF speech.status = "paused" /\ speech.moved
              THEN /\ speech' = [speech EXCEPT !.moved = FALSE, !.held = 0]
                   /\ engine' = IF ios THEN Silence ELSE engine
                   /\ events' = IF ios THEN Reported ELSE events
              ELSE UNCHANGED <<speech, engine, events>>
           /\ fetches' = Append(fetches, 0)
           /\ UNCHANGED <<overlapped, wash>>
  <2>1. /\ audio' \in AudioPlayer /\ reports' \in Seq(BOOLEAN) /\ Alternating' /\ ~audio'.on
    BY <1>1, <1>6, AudioSilenced DEF SpeechRest
  <2>2. fetches' \in Seq(Fetch) /\ Range(fetches') = Range(fetches) \union {0}
    <3>1. fetches \in Seq(Fetch) /\ 0 \in Fetch
      BY <1>1, SpeechAssumption DEF SpeechTyped, Fetch
    <3>2. Append(fetches, 0) \in Seq(Fetch) /\ Range(Append(fetches, 0)) = Range(fetches) \union {0}
      BY ONLY <3>1, Appended, SMTT(30)
    <3> QED
      BY <1>6, <3>2
  <2>3. \/ speech' = speech /\ engine' = engine /\ events' = events
           /\ ~(speech.status = "paused" /\ speech.moved)
        \/ /\ speech.status = "paused" /\ speech.moved
           /\ speech' = [speech EXCEPT !.moved = FALSE, !.held = 0]
           /\ \/ ios /\ engine' = Silence /\ events' = Reported
              \/ ~ios /\ engine' = engine /\ events' = events
    BY <1>6
  <2>4. /\ speech' \in Session /\ speech'.now = speech.now /\ speech'.awaiting = speech.awaiting
        /\ speech'.status = speech.status /\ speech'.held \in {speech.held, 0}
    <3>1. speech \in Session /\ 0 \in 0..LastSentence
      BY <1>1, SpeechAssumption DEF SpeechTyped
    <3>2. CASE speech' = speech
      BY <3>1, <3>2
    <3>3. CASE speech' = [speech EXCEPT !.moved = FALSE, !.held = 0]
      BY <3>1, <3>3 DEF Session
    <3> QED
      BY <2>3, <3>2, <3>3
  <2>5. /\ engine' \in Engine /\ events' \in Seq(Event) /\ Unheard' \subseteq Unheard \union {"cancel"}
        /\ \/ engine' = engine /\ events' = events
           \/ engine'.queue = <<>> /\ ~engine'.begun /\ ~engine'.suspended
    BY <1>1, <2>3, SilenceIs, ReportedIs DEF SpeechTyped, Unheard
  <2>6. SpeechTyped'
    BY <1>1, <1>2, <1>3, <1>6, <2>1, <2>2, <2>4, <2>5 DEF SpeechTyped
  <2>7. events' = events => Unheard' = Unheard
    BY DEF Unheard
  <2>8. InHand'
    BY <1>1, <1>6, <2>4, <2>5, <2>7 DEF InHand, SpeechRest
  <2>9. Spoken'
    BY <1>1, <1>6, <2>4, <2>5, <2>7 DEF Spoken, SpeechRest
  <2>10. LeftBehind'
    <3> SUFFICES ASSUME ~overlapped', left'
                 PROVE /\ speech'.held = 0 /\ speech'.status # "speaking"
                       /\ Range(fetches') \subseteq {0} /\ Unheard' \subseteq {"cancel"}
                       /\ engine'.queue = <<>> \/ (engine'.suspended /\ speech'.moved
                                                    /\ speech'.status = "paused")
      BY DEF LeftBehind
    <3>1. /\ speech.held = 0 /\ speech.status # "speaking"
          /\ Range(fetches) \subseteq {0} /\ Unheard \subseteq {"cancel"}
          /\ engine.queue = <<>> \/ (engine.suspended /\ speech.moved /\ speech.status = "paused")
          /\ engine.suspended => ios
      BY <1>1, <1>2, <1>6 DEF LeftBehind, InHand, SpeechRest
    <3>2. engine'.queue = <<>>
      BY <2>3, <3>1, SilenceIs
    <3> QED
      BY <2>2, <2>4, <2>5, <3>1, <3>2
  <2>11. ClosedIsSilent' /\ OneOfBoth'
    BY <1>2, <2>1 DEF ClosedIsSilent, OneOfBoth
  <2> QED
    BY <2>1, <2>6, <2>8, <2>9, <2>10, <2>11, SpeechInvIs DEF SpeechRest
<1> QED
  BY <1>4, <1>5, <1>6 DEF Play

LEMMA PauseKeeps == SpeechInv /\ Pause /\ ios' = ios => SpeechInv'
<1> SUFFICES ASSUME SpeechInv, Pause, ios' = ios PROVE SpeechInv'
  OBVIOUS
<1>1. SpeechTyped /\ SpeechRest
  BY SpeechInvIs
<1>2. /\ UNCHANGED <<fetches, audio, reports, pageInView, wash, reading, overlapped, left>>
      /\ reading /\ speech.status = "speaking" /\ speech.awaiting
  BY DEF Pause
<1>3. used' \in SpeechUses
  BY <1>1, SpeechUsesUp DEF Pause, SpeechTyped
<1>4. ClosedIsSilent' /\ Alternating'
  BY <1>1, <1>2 DEF ClosedIsSilent, Alternating, SpeechRest
<1>5. LeftBehind'
  BY <1>1, <1>2 DEF LeftBehind, SpeechRest
<1>6. CASE ios
  <2>1. /\ engine' = [engine EXCEPT !.suspended = engine.begun] /\ speech' = speech
        /\ events' = IF Voice THEN Append(events, "pause") ELSE events
    BY <1>6 DEF Pause
  <2>2. /\ engine' \in Engine /\ engine'.queue = engine.queue /\ engine'.begun = engine.begun
        /\ engine'.suspended = engine.begun
    BY <1>1, <2>1 DEF SpeechTyped, Engine
  <2>3. events' \in Seq(Event) /\ Unheard' \in {Unheard, Unheard \union {"pause"}}
    <3>1. events \in Seq(Event) /\ "pause" \in Event
      BY <1>1 DEF SpeechTyped, Event
    <3>2. Append(events, "pause") \in Seq(Event)
          /\ Range(Append(events, "pause")) = Range(events) \union {"pause"}
      BY ONLY <3>1, Appended, SMTT(30)
    <3> QED
      BY <2>1, <3>1, <3>2 DEF Unheard
  <2>4. engine.begun \/ (events' = events /\ Unheard' = Unheard)
    BY <2>1 DEF Voice, Unheard
  <2>5. SpeechTyped'
    BY <1>1, <1>2, <1>3, <2>1, <2>2, <2>3 DEF SpeechTyped
  <2>6. InHand'
    BY <1>1, <1>2, <1>6, <2>1, <2>2, <2>3, <2>4 DEF InHand, SpeechRest
  <2>7. Spoken' /\ OneOfBoth'
    BY <1>1, <1>2, <2>1, <2>2, <2>3 DEF Spoken, OneOfBoth, SpeechRest
  <2> QED
    BY <1>4, <1>5, <2>5, <2>6, <2>7, SpeechInvIs DEF SpeechRest
<1>7. CASE ~ios
  <2>1. /\ speech' = [speech EXCEPT !.awaiting = FALSE, !.held = speech.now, !.status = "paused"]
        /\ engine' = Silence /\ events' = Reported
    BY <1>7 DEF Pause
  <2>2. speech' \in Session
    BY <1>1, <2>1 DEF SpeechTyped, Session
  <2>3. /\ engine' \in Engine /\ engine'.queue = <<>> /\ ~engine'.begun /\ ~engine'.suspended
    BY <2>1, SilenceIs
  <2>4. events' \in Seq(Event)
    BY <1>1, <2>1, ReportedIs
  <2>5. SpeechTyped'
    BY <1>1, <1>2, <1>3, <2>2, <2>3, <2>4 DEF SpeechTyped
  <2>6. InHand' /\ Spoken' /\ OneOfBoth'
    BY <2>3 DEF InHand, Spoken, OneOfBoth
  <2> QED
    BY <1>4, <1>5, <2>5, <2>6, SpeechInvIs DEF SpeechRest
<1> QED
  BY <1>6, <1>7

LEMMA StopKeeps == SpeechInv /\ (Stop \/ CloseBook) /\ ios' = ios => SpeechInv'
<1> SUFFICES ASSUME SpeechInv, Stop \/ CloseBook, ios' = ios PROVE SpeechInv'
  OBVIOUS
<1>1. SpeechTyped /\ SpeechRest
  BY SpeechInvIs
<1>2. /\ StopsWith("idle") /\ UNCHANGED <<audio, reports, pageInView, overlapped, left>>
      /\ reading' \in {reading, FALSE}
  BY DEF Stop, CloseBook
<1>3. used' \in SpeechUses
  BY <1>1, SpeechUsesUp DEF Stop, CloseBook, SpeechTyped
<1>4. /\ audio' \in AudioPlayer /\ reports' \in Seq(BOOLEAN) /\ reading' \in BOOLEAN
      /\ left' \in BOOLEAN /\ (left' => left)
  BY <1>1, <1>2 DEF SpeechTyped
<1>5. Alternating'
  BY <1>1, <1>2 DEF SpeechRest, Alternating
<1> QED
  BY <1>1, <1>2, <1>3, <1>4, <1>5, StopHushes

LEMMA AudioPressedKeeps == SpeechInv /\ AudioPressed /\ ios' = ios => SpeechInv'
<1> SUFFICES ASSUME SpeechInv, AudioPressed, ios' = ios PROVE SpeechInv'
  OBVIOUS
<1>1. SpeechTyped /\ SpeechRest
  BY SpeechInvIs
<1>2. /\ UNCHANGED <<reports, pageInView, reading, overlapped, left>> /\ TtsStopped
  BY DEF AudioPressed
<1>3. used' \in SpeechUses
  BY <1>1, SpeechUsesUp DEF AudioPressed, SpeechTyped
<1>4. /\ audio' \in AudioPlayer /\ audio'.on = audio.on /\ audio'.told = audio.told
  BY <1>1 DEF AudioPressed, SpeechTyped, AudioPlayer
<1>5. Alternating'
  BY <1>1, <1>2, <1>4 DEF SpeechRest, Alternating
<1>6. reports' \in Seq(BOOLEAN) /\ left' \in BOOLEAN /\ reading' \in BOOLEAN /\ (left' => left)
  BY <1>1, <1>2 DEF SpeechTyped
<1>7. CASE StopsWith("idle")
  BY <1>1, <1>2, <1>3, <1>4, <1>5, <1>6, <1>7, StopHushes
<1>8. CASE UNCHANGED <<speech, fetches, wash, engine, events>>
  <2>1. SpeechTyped'
    BY <1>1, <1>2, <1>3, <1>4, <1>8 DEF SpeechTyped
  <2>2. InHand' /\ Spoken' /\ LeftBehind' /\ ClosedIsSilent' /\ OneOfBoth'
    BY <1>1, <1>2, <1>4, <1>8 DEF SpeechRest, InHand, Spoken, LeftBehind, ClosedIsSilent, OneOfBoth, Unheard
  <2> QED
    BY <1>5, <2>1, <2>2, SpeechInvIs DEF SpeechRest
<1> QED
  BY <1>2, <1>7, <1>8 DEF TtsStopped

LEMMA AudioStartsKeeps == SpeechInv /\ AudioStarts /\ ios' = ios => SpeechInv'
<1> SUFFICES ASSUME SpeechInv, AudioStarts, ios' = ios PROVE SpeechInv'
  OBVIOUS
<1>1. SpeechTyped /\ SpeechRest
  BY SpeechInvIs
<1>2. UNCHANGED <<speech, fetches, engine, events, pageInView, wash, reading, overlapped, left>>
  BY DEF AudioStarts
<1>3. used' \in SpeechUses
  BY <1>1, SpeechUsesUp DEF AudioStarts, SpeechTyped
<1>4. /\ audio' \in AudioPlayer /\ audio'.on = TRUE /\ audio'.told = audio.told
      /\ audio.on = FALSE
  BY <1>1 DEF AudioStarts, SpeechTyped, AudioPlayer
<1>5. reports' = Append(reports, TRUE) /\ reports \in Seq(BOOLEAN)
  BY <1>1 DEF AudioStarts, SpeechTyped
<1>6. \A e \in BOOLEAN :
        /\ Append(reports, e) \in Seq(BOOLEAN) /\ Append(reports, e) # <<>>
        /\ Len(Append(reports, e)) = Len(reports) + 1
        /\ \A k \in 1..Len(reports) : Append(reports, e)[k] = reports[k]
        /\ Append(reports, e)[Len(reports) + 1] = e
        /\ Range(Append(reports, e)) = Range(reports) \union {e}
  BY ONLY <1>5, AppendProperties, Appended, SMTT(30)
<1>7. /\ reports' \in Seq(BOOLEAN) /\ reports' # <<>> /\ Len(reports') = Len(reports) + 1
      /\ \A k \in 1..Len(reports) : reports'[k] = reports[k]
      /\ reports'[Len(reports) + 1] = TRUE
      /\ TRUE \in Range(reports')
  BY <1>5, <1>6, Zenon
<1>8. Len(reports) \in Nat /\ DOMAIN reports = 1..Len(reports) /\ (Len(reports) = 0 <=> reports = <<>>)
  BY <1>5, LenProperties, EmptySeq
<1>9. DOMAIN reports' = 1..(Len(reports) + 1)
  BY <1>7, LenProperties
<1>10. ASSUME NEW i \in DOMAIN reports'
       PROVE  reports'[i] = TRUE <=> IF i = 1 THEN audio'.told = FALSE ELSE reports'[i - 1] = FALSE
  <2>1. CASE i \in 1..Len(reports)
    BY <1>1, <1>4, <1>7, <1>8, <2>1 DEF Alternating, SpeechRest
  <2>2. CASE i = Len(reports) + 1
    <3>1. CASE reports = <<>>
      BY <1>1, <1>4, <1>7, <1>8, <2>2, <3>1 DEF Alternating, SpeechRest, SpeechTyped, AudioPlayer
    <3>2. CASE reports # <<>>
      <4>1. Len(reports) \in 1..Len(reports) /\ i # 1 /\ i - 1 = Len(reports)
        BY <1>8, <2>2, <3>2
      <4>2. reports[Len(reports)] \in BOOLEAN
        BY <1>5, <4>1, ElementOfSeq
      <4>3. reports[Len(reports)] = FALSE
        BY <1>1, <1>4, <3>2, <4>2 DEF Alternating, SpeechRest
      <4> QED
        BY <1>7, <2>2, <4>1, <4>3
    <3> QED
      BY <3>1, <3>2
  <2>3. i \in 1..Len(reports) \/ i = Len(reports) + 1
    BY ONLY <1>8, <1>9, i \in DOMAIN reports'
  <2> QED
    BY <2>1, <2>2, <2>3
<1>11. Alternating'
  BY <1>4, <1>7, <1>8, <1>10 DEF Alternating
<1>12. SpeechTyped'
  BY <1>1, <1>2, <1>3, <1>4, <1>7 DEF SpeechTyped
<1>13. InHand' /\ Spoken' /\ LeftBehind' /\ ClosedIsSilent'
  BY <1>1, <1>2 DEF SpeechRest, InHand, Spoken, LeftBehind, ClosedIsSilent, Unheard
<1>14. OneOfBoth'
  BY <1>7 DEF OneOfBoth
<1> QED
  BY <1>11, <1>12, <1>13, <1>14, SpeechInvIs DEF SpeechRest

LEMMA AudioStopsKeeps == SpeechInv /\ AudioStops /\ ios' = ios => SpeechInv'
<1> SUFFICES ASSUME SpeechInv, AudioStops, ios' = ios PROVE SpeechInv'
  OBVIOUS
<1>1. SpeechTyped /\ SpeechRest /\ SpeechTypeOK
  BY SpeechInvIs DEF SpeechInv
<1>2. UNCHANGED <<speech, fetches, engine, events, pageInView, wash, reading, used, overlapped, left>>
  BY DEF AudioStops
<1>3. /\ audio' \in AudioPlayer /\ reports' \in Seq(BOOLEAN) /\ Alternating' /\ ~audio'.on
  BY <1>1, AudioSilenced DEF SpeechRest, AudioStops
<1>4. SpeechTyped'
  BY <1>1, <1>2, <1>3 DEF SpeechTyped
<1>5. InHand' /\ Spoken' /\ LeftBehind' /\ ClosedIsSilent'
  BY <1>1, <1>2 DEF SpeechRest, InHand, Spoken, LeftBehind, ClosedIsSilent, Unheard
<1>6. OneOfBoth'
  BY <1>3 DEF OneOfBoth
<1> QED
  BY <1>3, <1>4, <1>5, <1>6, SpeechInvIs DEF SpeechRest

(* A report of playing is a change, and stops a session that is heard.        *)
LEMMA AudioReportsKeeps == SpeechInv /\ AudioReports /\ ios' = ios => SpeechInv'
<1> SUFFICES ASSUME SpeechInv, AudioReports, ios' = ios PROVE SpeechInv'
  OBVIOUS
<1>1. SpeechTyped /\ SpeechRest
  BY SpeechInvIs
<1>2. UNCHANGED <<pageInView, reading, used, overlapped, left>>
  BY DEF AudioReports
<1>3. /\ reports \in Seq(BOOLEAN) /\ reports # <<>> /\ reports' = Tail(reports)
      /\ audio \in AudioPlayer
  BY <1>1 DEF AudioReports, SpeechTyped
<1>4. /\ Len(reports) \in Nat /\ Len(reports) # 0 /\ DOMAIN reports = 1..Len(reports)
      /\ reports' \in Seq(BOOLEAN) /\ Len(reports') = Len(reports) - 1
      /\ Head(reports) = reports[1] /\ Head(reports) \in BOOLEAN
      /\ \A k \in 1..(Len(reports) - 1) : reports'[k] = reports[k + 1]
      /\ Range(reports) = Range(reports') \union {Head(reports)}
  <2>1. Head(reports) \in BOOLEAN /\ Range(reports) = Range(reports') \union {Head(reports)}
    BY <1>3, HeadAndTail
  <2> QED
    BY <1>3, <2>1, LenProperties, HeadTailProperties, EmptySeq
<1>5. DOMAIN reports' = 1..(Len(reports) - 1) /\ (reports' = <<>> <=> Len(reports) = 1)
  BY <1>4, LenProperties, EmptySeq
<1>6. /\ audio' \in AudioPlayer /\ audio'.on = audio.on /\ audio'.told = Head(reports)
  BY <1>3, <1>4 DEF AudioReports, AudioPlayer
<1>7. Alternating'
  <2>1. ASSUME NEW i \in 1..(Len(reports) - 1)
        PROVE  reports'[i] = TRUE <=> IF i = 1 THEN audio'.told = FALSE ELSE reports'[i - 1] = FALSE
    <3>1. i + 1 \in DOMAIN reports /\ i + 1 # 1 /\ (i + 1) - 1 = i /\ reports'[i] = reports[i + 1]
      BY <1>4
    <3>2. reports[i + 1] = TRUE <=> reports[i] = FALSE
      BY <1>1, <3>1 DEF SpeechRest, Alternating
    <3>3. i # 1 => i - 1 \in 1..(Len(reports) - 1) /\ reports'[i - 1] = reports[i]
      BY <1>4
    <3> QED
      BY <1>4, <1>6, <3>1, <3>2, <3>3
  <2>2. audio'.on = TRUE <=> IF reports' = <<>> THEN audio'.told = TRUE
                                                ELSE reports'[Len(reports')] = TRUE
    <3>1. audio.on = TRUE <=> reports[Len(reports)] = TRUE
      BY <1>1, <1>3 DEF SpeechRest, Alternating
    <3>2. Len(reports) # 1 => reports'[Len(reports')] = reports[Len(reports)]
      <4>1. ASSUME Len(reports) # 1 PROVE Len(reports) - 1 \in 1..(Len(reports) - 1)
        BY <1>4, <4>1
      <4>2. (Len(reports) - 1) + 1 = Len(reports)
        BY <1>4
      <4> QED
        BY <1>4, <4>1, <4>2
    <3> QED
      BY <1>4, <1>5, <1>6, <3>1, <3>2
  <2> QED
    BY <1>5, <2>1, <2>2 DEF Alternating
<1>8. Head(reports) = TRUE => audio.told = FALSE
  <2>1. 1 \in DOMAIN reports
    BY <1>4
  <2>2. reports[1] = TRUE <=> audio.told = FALSE
    BY <1>1, <2>1 DEF SpeechRest, Alternating
  <2> QED
    BY <1>4, <2>2
<1>9. left' \in BOOLEAN /\ reading' \in BOOLEAN /\ (left' => left) /\ used' \in SpeechUses
  BY <1>1, <1>2 DEF SpeechTyped
<1>10. CASE StopsWith("idle")
  BY <1>1, <1>2, <1>4, <1>6, <1>7, <1>9, <1>10, StopHushes
<1>11. CASE /\ UNCHANGED <<speech, fetches, wash, engine, events>>
            /\ Head(reports) = TRUE => ~reading \/ speech.status = "idle"
  <2>1. SpeechTyped'
    BY <1>1, <1>2, <1>4, <1>6, <1>11 DEF SpeechTyped
  <2>2. InHand' /\ Spoken' /\ LeftBehind' /\ ClosedIsSilent'
    BY <1>1, <1>2, <1>11 DEF SpeechRest, InHand, Spoken, LeftBehind, ClosedIsSilent, Unheard
  <2>3. OneOfBoth'
    <3> SUFFICES ASSUME ~overlapped, engine.begun, audio.on, "start" \notin Unheard,
                        TRUE \notin Range(reports')
                 PROVE  FALSE
      BY <1>2, <1>6, <1>11 DEF OneOfBoth, Unheard
    <3>1. TRUE \in Range(reports)
      BY <1>1 DEF SpeechRest, OneOfBoth
    <3>2. Head(reports) = TRUE
      BY <1>4, <3>1
    <3>3. ~reading => ~engine.begun
      BY <1>1, SilenceIs DEF SpeechRest, ClosedIsSilent
    <3>4. speech.status # "idle"
      BY <1>1 DEF SpeechRest, Spoken
    <3> QED
      BY <1>11, <3>2, <3>3, <3>4
  <2> QED
    BY <1>7, <2>1, <2>2, <2>3, SpeechInvIs DEF SpeechRest
<1> QED
  BY <1>4, <1>8, <1>10, <1>11 DEF AudioReports, TtsStopped, ActiveSession


LEMMA AnswersKeeps ==
  ASSUME SpeechInv, NEW i \in DOMAIN fetches, Answers(i), ios' = ios
  PROVE  SpeechInv'
<1>1. SpeechTyped /\ SpeechRest /\ SpeechTypeOK
  BY SpeechInvIs DEF SpeechInv
<1>2. PICK s : s = IF fetches[i] = 0 THEN pageInView ELSE fetches[i] + 1
  OBVIOUS
<1>3. /\ left' <=> left /\ fetches[i] # 0
      /\ left' \in BOOLEAN
      /\ UNCHANGED <<pageInView, reading>>
  BY DEF Answers
<1>4. fetches \in Seq(Fetch) /\ fetches[i] \in Fetch /\ fetches[i] \in Range(fetches)
  <2>1. fetches \in Seq(Fetch)
    BY <1>1 DEF SpeechTyped
  <2>2. i \in 1..Len(fetches)
    BY <2>1, LenProperties
  <2> QED
    BY <2>1, <2>2, ElementOfSeq DEF Range
<1>5. ~overlapped => ~left'
  BY <1>1, <1>3, <1>4 DEF SpeechRest, LeftBehind
<1>6. reading
  <2>1. fetches # <<>>
    BY <1>4
  <2> QED
    BY <1>1, <2>1 DEF SpeechRest, ClosedIsSilent
<1>7. used' \in SpeechUses
  BY <1>1, SpeechUsesUp DEF Answers, SpeechTyped
<1>8. CASE s \in Sentences /\ Speaks(s) /\ fetches' = RemoveAt(fetches, i)
  <2>1. /\ audio' \in AudioPlayer /\ reports' \in Seq(BOOLEAN) /\ Alternating' /\ ~audio'.on
    BY <1>1, <1>8, AudioSilenced DEF SpeechRest, Speaks
  <2>2. speech' \in Session /\ speech'.now = s /\ speech'.awaiting
    <3>1. speech \in Session /\ 0 \in 0..LastSentence /\ s \in 0..LastSentence
      BY <1>1, <1>8, SpeechAssumption DEF SpeechTyped, Sentences
    <3>2. speech' = [speech EXCEPT !.now = s, !.awaiting = TRUE, !.next = "asked", !.held = 0]
      BY <1>8 DEF Speaks
    <3> QED
      BY <3>1, <3>2 DEF Session
  <2>3. /\ engine' = [engine EXCEPT !.queue = Append(@, s)] /\ wash' = wash /\ events' = events
        /\ overlapped' <=> overlapped \/ engine.queue # <<>> \/ events # <<>>
        /\ overlapped' \in BOOLEAN
    BY <1>8 DEF Speaks
  <2>4. ~overlapped' => ~overlapped /\ engine.queue = <<>> /\ events' = <<>> /\ ~left'
    BY <1>5, <2>3
  <2>5. events' \in Seq(Event)
    BY <1>1, <2>3 DEF SpeechTyped
  <2>6. fetches' \in Seq(Fetch)
    <3>1. RemoveAt(fetches, i) \in Seq(Fetch)
      BY ONLY <1>4, i \in DOMAIN fetches, WithoutOne, SMTT(30)
    <3> QED
      BY <1>8, <3>1
  <2>7. s \in Sentences
    BY <1>8
  <2> QED
    BY ONLY <1>1, <1>3, <1>6, <1>7, <2>1, <2>2, <2>3, <2>4, <2>5, <2>6, <2>7, ios' = ios, Utters
<1>9. CASE \E status \in {"idle", "error"} :
             StopsWith(status) /\ AudioKept /\ overlapped' = overlapped
  <2>1. PICK status \in {"idle", "error"} :
             StopsWith(status) /\ AudioKept /\ overlapped' = overlapped
    BY <1>9
  <2>2. audio' \in AudioPlayer /\ reports' \in Seq(BOOLEAN) /\ Alternating'
    BY <1>1, <2>1, AudioKeptKeeps DEF SpeechRest
  <2>3. reading' \in BOOLEAN /\ pageInView' = pageInView
    BY <1>1, <1>3 DEF SpeechTyped
  <2> QED
    BY <1>1, <1>3, <1>7, <2>1, <2>2, <2>3, StopHushes
<1>10. CASE /\ fetches' = [fetches EXCEPT ![i] = 0] /\ fetches[i] # 0
            /\ AudioKept /\ UNCHANGED <<speech, engine, events, wash, overlapped>>
  <2>1. fetches' \in Seq(Fetch)
    <3>1. 0 \in Fetch
      BY SpeechAssumption DEF Fetch
    <3> QED
      BY <1>4, <1>10, <3>1
  <2>2. audio' \in AudioPlayer /\ reports' \in Seq(BOOLEAN) /\ Alternating'
    BY <1>1, <1>10, AudioKeptKeeps DEF SpeechRest
  <2>3. SpeechTyped'
    BY <1>1, <1>3, <1>7, <1>10, <2>1, <2>2 DEF SpeechTyped
  <2>4. InHand' /\ Spoken'
    BY <1>1, <1>10 DEF InHand, Spoken, SpeechRest, Unheard
  <2>5. LeftBehind'
    BY <1>5, <1>10 DEF LeftBehind
  <2>6. OneOfBoth'
    BY <1>1, <1>10 DEF OneOfBoth, SpeechRest, Unheard, AudioKept
  <2>7. ClosedIsSilent'
    BY <1>3, <1>6 DEF ClosedIsSilent
  <2> QED
    BY <2>2, <2>3, <2>4, <2>5, <2>6, <2>7, SpeechInvIs DEF SpeechRest
<1>11. \/ s \in Sentences /\ Speaks(s) /\ fetches' = RemoveAt(fetches, i)
       \/ \E status \in {"idle", "error"} :
             StopsWith(status) /\ AudioKept /\ overlapped' = overlapped
       \/ /\ fetches' = [fetches EXCEPT ![i] = 0] /\ fetches[i] # 0
          /\ AudioKept /\ UNCHANGED <<speech, engine, events, wash, overlapped>>
  BY <1>2 DEF Answers, Applied
<1> QED
  BY <1>8, <1>9, <1>10, <1>11

(* What is left of the events when the first was heard.                       *)
LEMMA Hearing ==
  ASSUME SpeechTyped, events # <<>>,
         events' \in {Tail(events), Append(Tail(events), "cancel")}
  PROVE  /\ events' \in Seq(Event) /\ Unheard' \subseteq Unheard \union {"cancel"}
         /\ Head(events) \in Unheard
         /\ events' = Tail(events) =>
              /\ Unheard = Unheard' \union {Head(events)}
              /\ Len(events) <= 1 => events' = <<>>
<1>1. events \in Seq(Event) /\ "cancel" \in Event
  BY DEF SpeechTyped, Event
<1>2. /\ Tail(events) \in Seq(Event) /\ Range(events) = Range(Tail(events)) \union {Head(events)}
      /\ Len(events) <= 1 => Tail(events) = <<>>
  BY ONLY <1>1, events # <<>>, HeadAndTail, SMTT(30)
<1>3. PICK rest : rest = Tail(events)
  OBVIOUS
<1>4. rest \in Seq(Event) /\ "cancel" \in Event
  BY ONLY <1>1, <1>2, <1>3
<1>5. /\ Append(rest, "cancel") \in Seq(Event)
      /\ Range(Append(rest, "cancel")) = Range(rest) \union {"cancel"}
  BY ONLY <1>4, Appended, SMTT(30)
<1> QED
  BY <1>2, <1>3, <1>5 DEF Unheard

LEMMA HearsStartKeeps ==
  ASSUME SpeechInv, Hears, Head(events) = "start", HearsStart, ios' = ios
  PROVE  SpeechInv'
<1>1. SpeechTyped /\ SpeechRest /\ SpeechTypeOK
  BY SpeechInvIs DEF SpeechInv
<1>2. /\ UNCHANGED <<pageInView, reading, used, left>> /\ events # <<>> /\ reading
      /\ UNCHANGED <<fetches, engine, overlapped>>
  BY DEF Hears, HearsStart
<1>3. events' = Tail(events)
  BY <1>2, SilenceIs DEF Hears
<1>4. /\ events' \in Seq(Event) /\ Unheard = Unheard' \union {"start"}
  BY <1>1, <1>2, <1>3, Hearing
<1>5. ~overlapped => ~left
  BY <1>1, <1>4 DEF SpeechRest, LeftBehind
<1>6. LeftBehind' /\ ClosedIsSilent'
  BY <1>2, <1>5 DEF LeftBehind, ClosedIsSilent
<1>7. CASE speech.awaiting
  <2>1. /\ audio' \in AudioPlayer /\ reports' \in Seq(BOOLEAN) /\ Alternating' /\ ~audio'.on
    BY <1>1, <1>7, AudioSilenced DEF SpeechRest, HearsStart
  <2>2. /\ speech' = [speech EXCEPT !.status = "speaking"] /\ wash' = speech.now
    BY <1>7 DEF HearsStart
  <2>3. /\ speech' \in Session /\ speech'.now = speech.now /\ speech'.awaiting = speech.awaiting
        /\ speech'.status = "speaking" /\ wash' \in 0..LastSentence
    BY <1>1, <2>2 DEF SpeechTyped, Session
  <2>4. SpeechTyped'
    BY <1>1, <1>2, <1>4, <2>1, <2>3 DEF SpeechTyped
  <2>5. InHand'
    <3>1. ~overlapped /\ engine.queue # <<>> => engine.begun
      BY <1>1, <1>2 DEF SpeechRest, InHand
    <3> QED
      BY <1>1, <1>2, <1>4, <2>3, <3>1 DEF InHand, SpeechRest
  <2>6. Spoken' /\ OneOfBoth'
    BY <2>1, <2>2, <2>3 DEF Spoken, OneOfBoth
  <2> QED
    BY <1>6, <2>1, <2>4, <2>5, <2>6, SpeechInvIs DEF SpeechRest
<1>8. CASE ~speech.awaiting
  <2>1. AudioKept /\ speech' = speech /\ wash' = wash
    BY <1>8 DEF HearsStart
  <2>2. audio' \in AudioPlayer /\ reports' \in Seq(BOOLEAN) /\ Alternating'
    BY <1>1, <2>1, AudioKeptKeeps DEF SpeechRest
  <2>3. SpeechTyped'
    BY <1>1, <1>2, <1>4, <2>1, <2>2 DEF SpeechTyped
  <2>4. ~overlapped => engine.queue = <<>> /\ ~engine.begun
    BY <1>1, <1>8 DEF SpeechRest, InHand
  <2>5. InHand' /\ Spoken' /\ OneOfBoth'
    BY <1>1, <1>2, <2>4 DEF InHand, Spoken, OneOfBoth, SpeechRest
  <2> QED
    BY <1>6, <2>2, <2>3, <2>5, SpeechInvIs DEF SpeechRest
<1> QED
  BY <1>7, <1>8

(* An end of the utterance: there is nothing left of it.                      *)
LEMMA UtteranceEnded ==
  ASSUME SpeechTyped, SpeechRest, events # <<>>, Head(events) \in {"finish", "cancel", "error"}
  PROVE  ~overlapped => engine.queue = <<>> /\ ~engine.begun /\ ~engine.suspended
<1>1. Head(events) \in Unheard
  <2>1. events \in Seq(Event)
    BY DEF SpeechTyped
  <2> QED
    BY <2>1, HeadAndTail DEF Unheard
<1> QED
  BY <1>1 DEF SpeechRest, InHand

LEMMA HearsEndKeeps ==
  ASSUME SpeechInv, Hears, Head(events) \in {"finish", "cancel", "error"},
         speech' \in Session, speech'.held \in {0, speech.held},
         speech'.status = speech.status, UNCHANGED <<engine, wash, overlapped>>, AudioKept,
         speech'.moved = speech.moved, fetches' \in Seq(Fetch),
         Head(events) = "cancel" => fetches' = fetches,
         ios' = ios
  PROVE  SpeechInv'
<1>1. SpeechTyped /\ SpeechRest
  BY SpeechInvIs
<1>2. /\ UNCHANGED <<pageInView, reading, used, left>> /\ events # <<>> /\ reading
  BY DEF Hears
<1>3. events' = Tail(events)
  BY <1>2, SilenceIs DEF Hears
<1>4. /\ events' \in Seq(Event) /\ Unheard = Unheard' \union {Head(events)}
  BY <1>1, <1>2, <1>3, Hearing
<1>5. audio' \in AudioPlayer /\ reports' \in Seq(BOOLEAN) /\ Alternating'
  BY <1>1, AudioKeptKeeps DEF SpeechRest
<1>6. SpeechTyped'
  BY <1>1, <1>2, <1>4, <1>5 DEF SpeechTyped
<1>7. ~overlapped => engine.queue = <<>> /\ ~engine.begun /\ ~engine.suspended
  BY <1>1, <1>2, UtteranceEnded
<1>8. InHand' /\ Spoken' /\ OneOfBoth'
  BY <1>1, <1>2, <1>7 DEF InHand, Spoken, OneOfBoth, SpeechRest
<1>9. LeftBehind'
  BY <1>1, <1>2, <1>4, <1>7 DEF LeftBehind, SpeechRest
<1>10. ClosedIsSilent'
  BY <1>2 DEF ClosedIsSilent
<1> QED
  BY <1>5, <1>6, <1>8, <1>9, <1>10, SpeechInvIs DEF SpeechRest

LEMMA HearsHushKeeps ==
  ASSUME SpeechInv, Hears, speech' \in {Idle, [Idle EXCEPT !.status = "error"]},
         fetches' = <<>>, wash' = 0, engine' = Silence, AudioKept, overlapped' = overlapped,
         ios' = ios
  PROVE  SpeechInv'
<1>1. SpeechTyped /\ SpeechRest
  BY SpeechInvIs
<1>2. /\ UNCHANGED <<pageInView, reading, used, left>> /\ events # <<>> /\ reading
  BY DEF Hears
<1>3. speech' \in Session /\ speech'.status \in {"idle", "error"} /\ speech'.held = 0
  BY IdleIs
<1>4. events' \in {Tail(events), Append(Tail(events), "cancel")}
  BY DEF Hears
<1>5. events' \in Seq(Event) /\ Unheard' \subseteq Unheard \union {"cancel"}
  BY <1>1, <1>2, <1>4, Hearing
<1>6. audio' \in AudioPlayer /\ reports' \in Seq(BOOLEAN) /\ Alternating'
  BY <1>1, AudioKeptKeeps DEF SpeechRest
<1>7. reading' \in BOOLEAN /\ used' \in SpeechUses /\ left' \in BOOLEAN /\ (left' => left)
  BY <1>1, <1>2 DEF SpeechTyped
<1> QED
  BY <1>1, <1>2, <1>3, <1>5, <1>6, <1>7, VoiceHushed

LEMMA HearsFinishKeeps ==
  ASSUME SpeechInv, Hears, Head(events) = "finish", HearsFinish, ios' = ios
  PROVE  SpeechInv'
<1>1. SpeechTyped /\ SpeechRest /\ SpeechTypeOK
  BY SpeechInvIs DEF SpeechInv
<1>2. /\ UNCHANGED <<pageInView, reading, used, left>> /\ events # <<>> /\ reading
  BY DEF Hears
<1>3. speech \in Session /\ fetches \in Seq(Fetch)
  BY <1>1 DEF SpeechTyped
<1>4. CASE UNCHANGED <<speech, fetches, engine, wash, overlapped>> /\ AudioKept
  BY <1>3, <1>4, HearsEndKeeps
<1>5. CASE /\ speech' = Idle /\ fetches' = <<>> /\ wash' = 0 /\ engine' = Silence
           /\ AudioKept /\ overlapped' = overlapped
  BY <1>5, HearsHushKeeps
<1>6. CASE /\ speech' = [speech EXCEPT !.awaiting = FALSE, !.next = "none"]
           /\ fetches' = Append(fetches, speech.now)
           /\ AudioKept /\ UNCHANGED <<engine, wash, overlapped>>
  <2>1. /\ speech' \in Session /\ speech'.held = speech.held /\ speech'.status = speech.status
        /\ speech'.moved = speech.moved
    BY <1>3, <1>6 DEF Session
  <2>2. fetches' \in Seq(Fetch)
    <3>1. speech.now \in Fetch
      BY <1>3 DEF Session, Fetch
    <3> QED
      BY <1>3, <1>6, <3>1, Appended
  <2> QED
    BY <1>6, <2>1, <2>2, HearsEndKeeps
<1>7. CASE /\ speech.now + 1 \in Sentences
           /\ speech' = [[speech EXCEPT !.awaiting = FALSE, !.next = "none"]
                           EXCEPT !.now = speech.now + 1, !.awaiting = TRUE, !.next = "asked"]
           /\ engine' = [engine EXCEPT !.queue = Append(@, speech.now + 1)]
           /\ overlapped' = (overlapped \/ engine.queue # <<>> \/ Len(events) > 1)
           /\ AudioPaused /\ UNCHANGED <<fetches, wash>>
  <2>1. PICK s \in Sentences : s = speech.now + 1
    BY <1>7
  <2>2. /\ audio' \in AudioPlayer /\ reports' \in Seq(BOOLEAN) /\ Alternating' /\ ~audio'.on
    BY <1>1, <1>7, AudioSilenced DEF SpeechRest
  <2>3. speech' \in Session /\ speech'.now = s /\ speech'.awaiting
    <3>1. s \in 0..LastSentence
      BY <2>1, SpeechAssumption DEF Sentences
    <3> QED
      BY <1>3, <1>7, <2>1, <3>1 DEF Session
  <2>4. /\ overlapped' <=> overlapped \/ engine.queue # <<>> \/ Len(events) > 1
        /\ overlapped' \in BOOLEAN
    BY <1>7
  <2>5. events' \in {Tail(events), Append(Tail(events), "cancel")}
    BY DEF Hears
  <2>6. events' \in Seq(Event)
    BY <1>1, <1>2, <2>5, Hearing
  <2>7. ~overlapped' => events' = <<>>
    <3>1. ASSUME ~overlapped' PROVE events' = Tail(events) /\ Len(events) <= 1
      <4>1. ~engine.begun
        BY <1>1, <2>4, <3>1 DEF SpeechRest, InHand
      <4>2. Len(events) \in Nat
        BY <1>1, LenProperties DEF SpeechTyped
      <4> QED
        BY <2>4, <3>1, <4>1, <4>2 DEF Hears
    <3> QED
      BY <1>1, <1>2, <2>5, <3>1, Hearing
  <2>8. Head(events) \in Unheard
    BY <1>1, <1>2, <2>5, Hearing
  <2>9. ~overlapped => ~left
    BY <1>1, <2>8 DEF SpeechRest, LeftBehind
  <2>10. ~overlapped' => ~overlapped /\ engine.queue = <<>> /\ events' = <<>> /\ ~left'
    BY <1>2, <2>4, <2>7, <2>9
  <2>11. engine' = [engine EXCEPT !.queue = Append(@, s)] /\ wash' = wash /\ fetches' = fetches
    BY <1>7, <2>1
  <2>12. used' \in SpeechUses /\ left' \in BOOLEAN
    BY <1>1, <1>2 DEF SpeechTyped
  <2> QED
    BY ONLY <1>1, <1>2, <1>3, <2>1, <2>2, <2>3, <2>4, <2>6, <2>10, <2>11, <2>12, ios' = ios, Utters
<1> QED
  BY <1>4, <1>5, <1>6, <1>7 DEF HearsFinish

LEMMA HearsKeeps == SpeechInv /\ Hears /\ ios' = ios => SpeechInv'
<1> SUFFICES ASSUME SpeechInv, Hears, ios' = ios PROVE SpeechInv'
  OBVIOUS
<1>1. SpeechTyped /\ SpeechRest
  BY SpeechInvIs
<1>2. /\ UNCHANGED <<pageInView, reading, used, left>> /\ events # <<>> /\ reading
  BY DEF Hears
<1>3. speech \in Session /\ fetches \in Seq(Fetch)
  BY <1>1 DEF SpeechTyped
<1>4. CASE Head(events) = "cancel"
  <2>1. /\ speech' = [speech EXCEPT !.awaiting = FALSE]
        /\ AudioKept /\ UNCHANGED <<fetches, engine, wash, overlapped>>
    BY <1>4 DEF Hears
  <2>2. /\ speech' \in Session /\ speech'.held = speech.held /\ speech'.status = speech.status
        /\ speech'.moved = speech.moved
    BY <1>3, <2>1 DEF Session
  <2> QED
    BY <1>3, <1>4, <2>1, <2>2, HearsEndKeeps
<1>5. CASE Head(events) \in {"pause", "resume"}
  <2>1. /\ \/ speech' = speech
           \/ speech.awaiting /\ \E status \in {"paused", "speaking"} :
                speech' = [speech EXCEPT !.status = status]
        /\ AudioKept /\ UNCHANGED <<fetches, engine, wash, overlapped>>
    BY <1>5 DEF Hears
  <2>2. events' = Tail(events)
    BY <2>1, SilenceIs DEF Hears
  <2>3. /\ events' \in Seq(Event) /\ Unheard = Unheard' \union {Head(events)}
        /\ Head(events) \in Unheard
    BY <1>1, <1>2, <2>2, Hearing
  <2>4. /\ speech' \in Session /\ speech'.now = speech.now /\ speech'.awaiting = speech.awaiting
        /\ speech'.status \in {speech.status, "paused", "speaking"}
    BY <1>3, <2>1 DEF Session
  <2>5. audio' \in AudioPlayer /\ reports' \in Seq(BOOLEAN) /\ Alternating'
    BY <1>1, <2>1, AudioKeptKeeps DEF SpeechRest
  <2>6. SpeechTyped'
    BY <1>1, <1>2, <2>1, <2>3, <2>4, <2>5 DEF SpeechTyped
  <2>7. ~overlapped /\ engine.queue # <<>> => engine.begun
    BY <1>1, <1>2 DEF SpeechRest, InHand
  <2>8. InHand'
    BY <1>1, <2>1, <2>3, <2>4, <2>7 DEF InHand, SpeechRest
  <2>9. Spoken'
    BY <1>1, <1>5, <2>1, <2>3, <2>4 DEF Spoken, SpeechRest
  <2>10. LeftBehind'
    BY <1>1, <1>2, <1>5, <2>1, <2>3 DEF LeftBehind, SpeechRest
  <2>11. ClosedIsSilent' /\ OneOfBoth'
    BY <1>1, <1>2, <1>5, <2>1, <2>3 DEF ClosedIsSilent, OneOfBoth, SpeechRest, AudioKept
  <2> QED
    BY <2>5, <2>6, <2>8, <2>9, <2>10, <2>11, SpeechInvIs DEF SpeechRest
<1>6. CASE Head(events) = "error"
  <2>1. CASE speech.awaiting
    BY <1>6, <2>1, HearsHushKeeps DEF Hears
  <2>2. CASE ~speech.awaiting
    <3>1. AudioKept /\ UNCHANGED <<speech, fetches, engine, wash, overlapped>>
      BY <1>6, <2>2 DEF Hears
    <3> QED
      BY <1>3, <1>6, <3>1, HearsEndKeeps
  <2> QED
    BY <2>1, <2>2
<1>7. CASE Head(events) = "start"
  BY <1>7, HearsStartKeeps DEF Hears
<1>8. CASE Head(events) = "finish"
  BY <1>8, HearsFinishKeeps DEF Hears
<1> QED
  BY <1>4, <1>5, <1>6, <1>7, <1>8 DEF Hears

LEMMA SpeechBegins == SpeechInit => SpeechInv
<1> SUFFICES ASSUME SpeechInit PROVE SpeechInv
  OBVIOUS
<1>1. /\ LastSentence \in Nat /\ LastSentence # 0
      /\ MaxPresses \in Nat /\ MaxTurns \in Nat /\ MaxAudio \in Nat
  BY SpeechAssumption
<1>2. speech \in Session /\ engine \in Engine /\ ~engine.begun /\ ~engine.suspended /\ engine.queue = <<>>
  BY IdleIs, SilenceIs DEF SpeechInit
<1>3. /\ audio \in AudioPlayer /\ audio.on = FALSE /\ audio.told = FALSE
      /\ used \in SpeechUses
  BY <1>1 DEF SpeechInit, AudioPlayer, SpeechUses
<1>4. fetches \in Seq(Fetch) /\ events \in Seq(Event) /\ reports \in Seq(BOOLEAN)
  BY DEF SpeechInit
<1>5. pageInView \in Sentences /\ wash \in 0..LastSentence
  BY <1>1 DEF SpeechInit, Sentences
<1>51. ios \in BOOLEAN /\ reading \in BOOLEAN /\ overlapped \in BOOLEAN /\ left \in BOOLEAN
  BY DEF SpeechInit
<1>55. SpeechTyped
  BY <1>2, <1>3, <1>4, <1>5, <1>51, Zenon DEF SpeechTyped
<1>6. InHand /\ Spoken /\ LeftBehind /\ ClosedIsSilent /\ OneOfBoth
  BY <1>2 DEF InHand, Spoken, LeftBehind, ClosedIsSilent, OneOfBoth, SpeechInit
<1>7. Alternating
  <2>1. DOMAIN reports = {}
    BY DEF SpeechInit
  <2> QED
    BY <1>3, <2>1 DEF Alternating, SpeechInit
<1> QED
  BY <1>55, <1>6, <1>7, SpeechInvIs DEF SpeechRest

LEMMA SpeechStepKeeps == SpeechInv /\ [SpeechNext]_speechVars => SpeechInv'
<1> SUFFICES ASSUME SpeechInv, [SpeechNext]_speechVars PROVE SpeechInv'
  OBVIOUS
<1>1. CASE UNCHANGED speechVars
  BY <1>1 DEF speechVars, SpeechInv, SpeechTypeOK, InHand, Spoken, LeftBehind, ClosedIsSilent,
              Alternating, OneOfBoth, Unheard
<1>2. CASE SpeechNext
  BY <1>2, BeginsKeeps, EndsKeeps, PrefetchedKeeps, TurnKeeps, PlayKeeps, PauseKeeps, StopKeeps,
     HearsKeeps, AnswersKeeps, AudioPressedKeeps, AudioStartsKeeps, AudioStopsKeeps,
     AudioReportsKeeps DEF SpeechNext, SpeechStep
<1> QED
  BY <1>1, <1>2

(* Session, engine, player and what each was not told yet stay in step        *)
(* (useTtsSession.ts, audioTtsCoordinator.ts).                                *)
THEOREM SpeechInvariance == SpeechSpec => []SpeechInv
<1>1. SpeechInit => SpeechInv
  BY SpeechBegins
<1>2. SpeechInv /\ [SpeechNext]_speechVars => SpeechInv'
  BY SpeechStepKeeps
<1> QED
  BY <1>1, <1>2, PTL DEF SpeechSpec

(* The voice is the one the session speaks of, for any book, buttons, page    *)
(* turns, faults and audiobook, as long as no utterance overlapped another.   *)
THEOREM VoiceKeepsToTheSession == SpeechSpec => []VoiceFollowsSession
<1>1. SpeechInv => VoiceFollowsSession
  <2> SUFFICES ASSUME SpeechInv PROVE VoiceFollowsSession
    OBVIOUS
  <2>1. SpeechTyped /\ SpeechRest
    BY SpeechInvIs
  <2>2. Voice => engine.begun /\ ~engine.suspended /\ engine.queue # <<>>
    BY <2>1 DEF Voice, SpeechRest, InHand
  <2>3. /\ \A e : Contains(events, e) <=> e \in Unheard
        /\ Contains(reports, TRUE) <=> TRUE \in Range(reports)
    <3>1. DOMAIN events = 1..Len(events) /\ DOMAIN reports = 1..Len(reports)
      BY <2>1, LenProperties DEF SpeechTyped
    <3> QED
      BY <3>1 DEF Contains, Unheard, Range
  <2>4. OneSourceHeard
    BY <2>1, <2>2, <2>3 DEF OneSourceHeard, SpeechRest, OneOfBoth, InHand
  <2>5. events = <<>> => Unheard = {}
    BY <2>1, NoneInRange DEF SpeechTyped, Unheard
  <2>6. WashFollowsVoice
    <3> SUFFICES ASSUME ~overlapped, Voice, events = <<>>, wash # 0
                 PROVE  wash = Head(engine.queue)
      BY DEF WashFollowsVoice
    <3>1. wash = speech.now
      BY <2>1, <2>2, <2>5 DEF SpeechRest, Spoken
    <3>2. engine.queue = <<speech.now>>
      BY <2>1, <2>2 DEF SpeechRest, InHand
    <3> QED
      BY <3>1, <3>2
  <2>7. IdleIsSilent
    BY <2>1 DEF IdleIsSilent, SpeechRest, InHand
  <2>8. LeftPageIsNotRead
    BY <2>1, <2>2 DEF LeftPageIsNotRead, SpeechRest, LeftBehind
  <2> QED
    BY <2>4, <2>6, <2>7, <2>8 DEF VoiceFollowsSession
<1> QED
  BY <1>1, SpeechInvariance, PTL
=============================================================================
