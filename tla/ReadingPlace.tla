---------------------------- MODULE ReadingPlace ----------------------------
(***************************************************************************)
(* Where the reader is in a book: the WebView that shows it, the messages   *)
(* between it and ReaderScreen.tsx, which keeps the positions nobody chose  *)
(* to itself, ReaderRouteScreen.tsx, which throttles what it saves and asks *)
(* when the place was changed elsewhere, and the progress row of            *)
(* progressStore.ts, which sync overwrites with another device's.           *)
(*                                                                          *)
(* A place is a page or a CFI; the WebView renders Front first.             *)
(***************************************************************************)
EXTENDS Naturals, Sequences, FiniteSets, Absence

CONSTANTS
  Places, FrontPlace,     \* the places of the book, and the one rendered first
  MaxResends,        \* MAX_INITIAL_TARGET_RESENDS
  MaxMail,           \* messages under way, of each kind (bound)
  MaxMoves,          \* page turns and seeks (bound)
  MaxResizes,        \* navigations a resize of the WebView undoes (bound)
  MaxElsewhere,      \* places saved by another device (bound)
  MaxOpenings          \* times the reader is opened or remounted (bound)

ASSUME PlacesAssumption == FrontPlace \in Places /\ None \notin Places
ASSUME PlaceBoundsAssumption ==
  /\ {MaxResends, MaxMail, MaxMoves, MaxResizes, MaxElsewhere, MaxOpenings} \subseteq Nat
  /\ MaxMail > 0

VARIABLES
  row,       \* the progress row on this device: its locator
  elsewhere, \* a later row of another device, not pulled yet
  saving,    \* savePosition() calls waiting for the write lock, in order
  web,       \* [view, goTo, mail]: the WebView, commands to it, `relocated`s
  reader,    \* ReaderScreen: [at, initial, target, attempts]
  route,     \* ReaderRouteScreen: its refs, and the checks it awaits
  usedUp,    \* how often each bounded thing happened
  chosen,    \* history: places that are the reader's, here or elsewhere
  leftAt,    \* history: the last place reported when the reader left
  foreign,   \* history: a row of another device was pulled during the visit
  early      \* history: a seek ended the verification of an initial target

placeVars == <<row, elsewhere, saving, web, reader, route, usedUp, chosen, leftAt, foreign, early>>

MaybePlace == Places \union {None}
Mail == UNION {[1..n -> Places] : n \in 0..MaxMail}

(* `initial`: initialTargetRef.  `target`, `attempts`: the navigation       *)
(* pendingInitialVerifyRef waits for.  `resume`: the place of the screen to *)
(* come.                                                                    *)
Reader == [at : {"away", "resolving", "opening", "rendered", "jumping"},
           initial : MaybePlace, target : MaybePlace, attempts : 0..MaxResends,
           resume : MaybePlace]
NoReader == [at |-> "away", initial |-> None, target |-> None, attempts |-> 0,
             resume |-> None]

(* `last`: lastPositionRef.  `checks`: what was displayed when a change was *)
(* announced, for each read of the row under way.  `asked`: the alert is    *)
(* open, `incoming` is latestIncomingRef.                                   *)
Route == [last : MaybePlace, throttled : BOOLEAN, checks : SUBSET Places,
          asked : BOOLEAN, incoming : MaybePlace]
NoRoute == [last |-> None, throttled |-> FALSE, checks |-> {}, asked |-> FALSE,
            incoming |-> None]
NoWeb == [view |-> None, goTo |-> <<>>, mail |-> <<>>]

PlaceTypeOK ==
  /\ {row, elsewhere, leftAt} \subseteq MaybePlace
  /\ saving \in Mail
  /\ web \in [view : MaybePlace, goTo : Mail, mail : Mail]
  /\ reader \in Reader /\ route \in Route
  /\ usedUp \in [moves : 0..MaxMoves, resizes : 0..MaxResizes,
               elsewhere : 0..MaxElsewhere, visits : 0..MaxOpenings]
  /\ chosen \subseteq Places
  /\ foreign \in BOOLEAN /\ early \in BOOLEAN

PlaceInit ==
  /\ row \in MaybePlace
  /\ elsewhere = None /\ saving = <<>>
  /\ web = NoWeb /\ reader = NoReader /\ route = NoRoute
  /\ usedUp = [moves |-> 0, resizes |-> 0, elsewhere |-> 0, visits |-> 0]
  /\ chosen = {row} \ {None}
  /\ leftAt = None /\ foreign = FALSE /\ early = FALSE

Open == reader.at \in {"opening", "rendered", "jumping"}
HasRoom(q) == Len(q) < MaxMail
UsesUp(what) == usedUp' = [usedUp EXCEPT ![what] = @ + 1]

-----------------------------------------------------------------------------
(* Saving *)

(* flushProgress(): savePosition() of the last position, if there is one.   *)
Flushed == IF route.last = None THEN saving ELSE Append(saving, route.last)

(* A change of the row is announced: what is displayed now is compared with *)
(* the row once that has been read.                                         *)
Announced ==
  IF Open /\ route.last # None
  THEN [route EXCEPT !.checks = @ \union {route.last}] ELSE route

(* savePosition() has the lock: a row stamped after every other.            *)
Save ==
  /\ saving # <<>>
  /\ row' = Head(saving) /\ saving' = Tail(saving)
  /\ elsewhere' = None
  /\ route' = Announced
  /\ UNCHANGED <<web, reader, usedUp, chosen, leftAt, foreign, early>>

(* pull() applies another device's row: later than this one's.              *)
PullPlace ==
  /\ elsewhere # None
  /\ row' = elsewhere /\ elsewhere' = None
  /\ route' = Announced
  /\ foreign' = TRUE /\ leftAt' = None
  /\ UNCHANGED <<saving, web, reader, usedUp, chosen, early>>

(* The reader reads on elsewhere: a row later than this device's.           *)
ReadsElsewhere ==
  /\ usedUp.elsewhere < MaxElsewhere /\ UsesUp("elsewhere")
  /\ \E p \in Places : elsewhere' = p /\ chosen' = chosen \union {p}
  /\ UNCHANGED <<row, saving, web, reader, route, leftAt, foreign, early>>

-----------------------------------------------------------------------------
(* Opening, and the initial target *)

(* The reader is opened, and the sync that precedes it begins.              *)
EnterReader ==
  /\ reader.at = "away"
  /\ usedUp.visits < MaxOpenings /\ UsesUp("visits")
  /\ reader' = [NoReader EXCEPT !.at = "resolving"]
  /\ foreign' = FALSE
  /\ UNCHANGED <<row, elsewhere, saving, web, route, chosen, leftAt, early>>

(* The target: the row as it is after the sync, or the bookmark it was      *)
(* opened at.  The row is read outside the write lock.                      *)
Resolve ==
  /\ reader.at = "resolving"
  /\ \/ /\ reader' = [reader EXCEPT !.at = "opening", !.initial = row]
        /\ chosen' = IF row = None THEN chosen \union {FrontPlace} ELSE chosen
     \/ \E p \in Places :
          /\ reader' = [reader EXCEPT !.at = "opening", !.initial = p]
          /\ chosen' = chosen \union {p}
  /\ leftAt' = None
  /\ UNCHANGED <<row, elsewhere, saving, web, route, usedUp, foreign, early>>

(* The shell renders the book's front, and reports it.                      *)
Rendered ==
  /\ reader.at = "opening"
  /\ reader' = [reader EXCEPT !.at = "rendered"]
  /\ web' = [view |-> FrontPlace, goTo |-> <<>>, mail |-> <<FrontPlace>>]
  /\ UNCHANGED <<row, elsewhere, saving, route, usedUp, chosen, leftAt, foreign, early>>

SendInitial ==
  /\ reader.at = "rendered" /\ reader.initial # None /\ HasRoom(web.goTo)
  /\ reader' = [reader EXCEPT !.initial = None, !.target = reader.initial, !.attempts = 0]
  /\ web' = [web EXCEPT !.goTo = Append(@, reader.initial)]
  /\ UNCHANGED <<row, elsewhere, saving, route, usedUp, chosen, leftAt, foreign, early>>

-----------------------------------------------------------------------------
(* The WebView *)

(* A navigation lands, or the resize of the opening transition renders the  *)
(* page that was current before it.                                         *)
Navigate ==
  /\ web.goTo # <<>> /\ HasRoom(web.mail)
  /\ \/ web' = [view |-> Head(web.goTo), goTo |-> Tail(web.goTo),
                mail |-> Append(web.mail, Head(web.goTo))] /\ usedUp' = usedUp
     \/ /\ usedUp.resizes < MaxResizes /\ UsesUp("resizes")
        /\ web' = [web EXCEPT !.goTo = Tail(@), !.mail = Append(@, web.view)]
  /\ UNCHANGED <<row, elsewhere, saving, reader, route, chosen, leftAt, foreign, early>>

(* The reader turns the page in the WebView.                                *)
TurnPage ==
  /\ web.view # None /\ HasRoom(web.mail)
  /\ usedUp.moves < MaxMoves /\ UsesUp("moves")
  /\ \E p \in Places \ {web.view} :
       /\ web' = [web EXCEPT !.view = p, !.mail = Append(@, p)]
       /\ chosen' = chosen \union {p}
  /\ UNCHANGED <<row, elsewhere, saving, reader, route, leftAt, foreign, early>>

(* A bookmark, a contents entry, a search match or a page number: the       *)
(* initial target is no longer waited for.                                  *)
Seek ==
  /\ web.view # None /\ HasRoom(web.goTo)
  /\ usedUp.moves < MaxMoves /\ UsesUp("moves")
  /\ \E p \in Places :
       /\ web' = [web EXCEPT !.goTo = Append(@, p)]
       /\ chosen' = chosen \union {p}
  /\ reader' = [reader EXCEPT !.target = None]
  /\ early' = (early \/ reader.target # None)
  /\ UNCHANGED <<row, elsewhere, saving, route, leftAt, foreign>>

-----------------------------------------------------------------------------
(* `relocated` *)

Landed(p) == p = reader.target

(* Mutant: what comes before the initial target is sent is reported too.    *)
ReportsAll(p) == reader.target # None => Landed(p)

(* Whether this `relocated` is the reader's: not one before the initial     *)
(* target was sent, nor one that missed it.                                 *)
Reports(p) == IF reader.target = None THEN reader.initial = None ELSE Landed(p)

(* Mutant: one attempt too many.                                            *)
ResendsOnceMore(p) ==
  reader.target # None /\ ~Landed(p) /\ reader.attempts <= MaxResends

Resends(p) == reader.target # None /\ ~Landed(p) /\ reader.attempts < MaxResends

(* handleRelocated(): remembered, and saved unless something was in the     *)
(* last READER_PROGRESS_WRITE_THROTTLE_MS.                                  *)
Report(p) ==
  /\ route' = [route EXCEPT !.last = p, !.throttled = TRUE]
  /\ saving' = IF route.throttled THEN saving ELSE Append(saving, p)

(* The verification runs out of attempts: the place it is at is kept from   *)
(* the route this once, and every later one is reported.                    *)
Relocated ==
  /\ web.mail # <<>> /\ HasRoom(saving) /\ HasRoom(web.goTo)
  /\ LET p == Head(web.mail) IN
     /\ web' = [web EXCEPT !.mail = Tail(@),
                           !.goTo = IF Resends(p) THEN Append(@, reader.target) ELSE @]
     /\ reader' = IF Resends(p) THEN [reader EXCEPT !.attempts = @ + 1]
                  ELSE [reader EXCEPT !.target = None]
     /\ IF Reports(p) THEN Report(p) ELSE UNCHANGED <<route, saving>>
  /\ UNCHANGED <<row, elsewhere, usedUp, chosen, leftAt, foreign, early>>

ThrottleEnds ==
  /\ route.throttled
  /\ route' = [route EXCEPT !.throttled = FALSE]
  /\ UNCHANGED <<row, elsewhere, saving, web, reader, usedUp, chosen, leftAt, foreign, early>>

-----------------------------------------------------------------------------
(* Changed elsewhere *)

(* The row has been read: it differs from what was displayed when the       *)
(* change was announced, so the reader is asked where to go on.             *)
Compare ==
  /\ \E shown \in route.checks :
       route' = [route EXCEPT !.checks = @ \ {shown},
                              !.asked = @ \/ row # shown,
                              !.incoming = IF row # shown THEN row ELSE @]
  /\ UNCHANGED <<row, elsewhere, saving, web, reader, usedUp, chosen, leftAt, foreign, early>>

ContinueHere ==
  /\ route.asked /\ HasRoom(saving)
  /\ route' = [route EXCEPT !.asked = FALSE, !.incoming = None]
  /\ saving' = Flushed
  /\ UNCHANGED <<row, elsewhere, web, reader, usedUp, chosen, leftAt, foreign, early>>

(* "Resume from there": a new ReaderScreen, at the place to come.           *)
ResumeThere ==
  /\ route.asked /\ reader.at \in {"opening", "rendered"}
  /\ usedUp.visits < MaxOpenings /\ UsesUp("visits")
  /\ reader' = [reader EXCEPT !.at = "jumping", !.resume = route.incoming]
  /\ route' = [route EXCEPT !.asked = FALSE, !.incoming = None, !.last = None]
  /\ UNCHANGED <<row, elsewhere, saving, web, chosen, leftAt, foreign, early>>

(* React has rendered the new key: the old screen's messages are lost.      *)
Remount ==
  /\ reader.at = "jumping"
  /\ reader' = [NoReader EXCEPT !.at = "opening", !.initial = reader.resume]
  /\ web' = NoWeb
  /\ UNCHANGED <<row, elsewhere, saving, route, usedUp, chosen, leftAt, foreign, early>>

-----------------------------------------------------------------------------
(* Leaving *)

(* The app goes to the background: the place is saved.                      *)
GoesToBackground ==
  /\ Open /\ HasRoom(saving) /\ route.throttled
  /\ saving' = Flushed
  /\ UNCHANGED <<row, elsewhere, web, reader, route, usedUp, chosen, leftAt, foreign, early>>

(* The route unmounts: its last position is saved, its reads are cancelled. *)
LeaveReader ==
  /\ reader.at # "away" /\ HasRoom(saving)
  /\ saving' = Flushed
  /\ leftAt' = route.last
  /\ reader' = NoReader /\ route' = NoRoute /\ web' = NoWeb
  /\ UNCHANGED <<row, elsewhere, usedUp, chosen, foreign, early>>

(* The process dies: what was not written is lost.                          *)
ReaderDies ==
  /\ reader.at # "away" \/ saving # <<>>
  /\ saving' = <<>> /\ leftAt' = None
  /\ reader' = NoReader /\ route' = NoRoute /\ web' = NoWeb
  /\ UNCHANGED <<row, elsewhere, usedUp, chosen, foreign, early>>

PlaceNext ==
  \/ Save \/ PullPlace \/ ReadsElsewhere
  \/ EnterReader \/ Resolve \/ Rendered \/ SendInitial
  \/ Navigate \/ TurnPage \/ Seek \/ Relocated \/ ThrottleEnds
  \/ Compare \/ ContinueHere \/ ResumeThere \/ Remount
  \/ GoesToBackground \/ LeaveReader \/ ReaderDies

PlaceSpec == PlaceInit /\ [][PlaceNext]_placeVars

-----------------------------------------------------------------------------
(* Properties *)

(* No place is saved that is not the reader's: the front of the book, which *)
(* the WebView always shows first, never replaces the place a book was left *)
(* at, whatever the resizes of the opening do, while they are no more than  *)
(* the resends; unless a seek ended the verification with messages under    *)
(* way.                                                                     *)
SavedPlaceIsChosen ==
  ~early /\ usedUp.resizes <= MaxResends /\ row # None => row \in chosen

(* A place that was reported when the reader left is the one that is kept,  *)
(* however few of the page turns the throttle let through.                  *)
LeftPlaceIsKept ==
  reader.at = "away" /\ leftAt # None /\ saving = <<>> => row = leftAt

(* The place in the database is one that the reader chose, and the one they *)
(* left the book at.                                                        *)
PlaceIsTheReaders == SavedPlaceIsChosen /\ LeftPlaceIsKept

(* ReaderRouteScreen.tsx:358 tells the reader that "Your progress in this   *)
(* title was updated on another device".                                    *)
AskedOfAnotherDevice == route.asked => foreign
=============================================================================
