------------------------------- MODULE Offers -------------------------------
(***************************************************************************)
(* Lending of titles with limited copies: the queue, the offer of a copy   *)
(* that came free, and the reader's answer.  The phone learns of an offer  *)
(* by polling a change feed (offerPolling.ts), keeps one offer in a slot   *)
(* that survives restarts (offerStore.ts), shows loans and holds as of the *)
(* last answer of the server (libraryStore.ts) and decides by them what a  *)
(* page lets the reader do (resolveAccess.ts).                             *)
(*                                                                         *)
(* The service is not in the repository; it is modelled as its client uses *)
(* it.  Every hold is offered at most once, under an id of its own, and    *)
(* the feed's cursor is the number of promotions it has told of.           *)
(***************************************************************************)
EXTENDS Absence, Integers, FiniteSets

CONSTANTS
  Titles,        \* titles of the tier ELITE
  Ticks,        \* polls that may overlap: the interval's and a foreground's
  Answerers,    \* where an offer is answered: "card", QueueNotificationHost, and "page"
  MaxOffers,    \* bound: promotions
  MaxGrants,    \* bound: titles borrowed or queued for
  MaxFailures,  \* bound: requests or replies that are lost
  MaxRestarts   \* bound: restarts of the app

ASSUME OffersAssumption ==
  /\ None \notin Titles /\ Answerers \subseteq {"card", "page"}
  /\ MaxOffers \in Nat /\ MaxGrants \in Nat /\ MaxFailures \in Nat /\ MaxRestarts \in Nat

VARIABLES
  holding,    \* server: the reader's hold or loan of each title
  offered,    \* server: the id of each title's last offer, 0 before the first
  promotions, \* server: how many offers were made
  lapsed,     \* server: the offers whose time is over
  slot,       \* offerStore.offer
  since,      \* the poll's cursor
  tick,       \* polls under way
  library,    \* libraryStore: the holding of each title, as last told
  reply,      \* an answer to an offer under way: by the card, by a page
  covered,    \* history: promotions a delivered library has shown the phone
  passed,     \* history: offers that found the slot taken by another live one
  dismissed,  \* history: live offers cleared by an answer to another offer
  ghosts,     \* history: offers that were answered, and that the slot may still
              \*          hold or be given: the reply was lost, the process died
              \*          before it, or a poll had read the library before it
  grants,     \* bound: grants so far
  misses,     \* bound: failures so far
  restarts    \* bound: restarts so far

offerVars == <<holding, offered, promotions, lapsed, slot, since, tick, library,
               reply, covered, passed, dismissed, ghosts, grants, misses, restarts>>

serverVars == <<holding, offered, promotions, lapsed>>
offerHistories == <<covered, passed, dismissed, ghosts>>

Holdings == {"none", "queued", "offered", "lent"}

Offer == [book : Titles, id : 1 .. MaxOffers]

NoTick == [at |-> "idle", from |-> 0, next |-> 0, offers |-> {}]
NoReply == [at |-> "idle", offer |-> None]

OffersTypeOK ==
  /\ holding \in [Titles -> Holdings]
  /\ offered \in [Titles -> 0 .. MaxOffers]
  /\ promotions \in 0 .. MaxOffers
  /\ lapsed \subseteq 1 .. MaxOffers
  /\ slot \in {None} \cup Offer
  /\ since \in 0 .. MaxOffers
  /\ tick \in [Ticks -> [at : {"idle", "changes", "told", "library", "shown"},
                         from : 0 .. MaxOffers, next : 0 .. MaxOffers,
                         offers : SUBSET Offer]]
  /\ library \in [Titles -> [state : Holdings, id : 0 .. MaxOffers]]
  /\ reply \in [Answerers -> [at : {"idle", "sent", "taken", "failed"},
                              offer : {None} \cup Offer]]
  /\ covered \in 0 .. MaxOffers
  /\ passed \subseteq Offer /\ dismissed \subseteq Offer /\ ghosts \subseteq Offer
  /\ grants \in 0 .. MaxGrants
  /\ misses \in 0 .. MaxFailures
  /\ restarts \in 0 .. MaxRestarts

OffersInit ==
  /\ holding = [b \in Titles |-> "none"] /\ offered = [b \in Titles |-> 0]
  /\ promotions = 0 /\ lapsed = {}
  /\ slot = None /\ since = 0
  /\ tick = [t \in Ticks |-> NoTick]
  /\ library = [b \in Titles |-> [state |-> "none", id |-> 0]]
  /\ reply = [p \in Answerers |-> NoReply]
  /\ covered = 0 /\ passed = {} /\ dismissed = {} /\ ghosts = {}
  /\ grants = 0 /\ misses = 0 /\ restarts = 0

-----------------------------------------------------------------------------
(* The service *)

\* getLibrary
Library == [b \in Titles |-> [state |-> holding[b], id |-> offered[b]]]
Offered == {[book |-> b, id |-> offered[b]] : b \in {x \in Titles : holding[x] = "offered"}}

\* A copy came free and the reader is next: HOLD_PROMOTED in the feed.
Promote(b) ==
  /\ holding[b] = "queued" /\ promotions < MaxOffers
  /\ holding' = [holding EXCEPT ![b] = "offered"]
  /\ offered' = [offered EXCEPT ![b] = promotions + 1]
  /\ promotions' = promotions + 1
  /\ UNCHANGED <<lapsed, slot, since, tick, library, reply, offerHistories, grants, misses, restarts>>

\* The time of an offer is over, answered or not; a hold that waits expires.
Lapse(i) ==
  /\ i <= promotions /\ i \notin lapsed
  /\ lapsed' = lapsed \cup {i}
  /\ holding' = [b \in Titles |-> IF holding[b] = "offered" /\ offered[b] = i THEN "none"
                                 ELSE holding[b]]
  /\ UNCHANGED <<offered, promotions, slot, since, tick, library, reply, offerHistories,
                 grants, misses, restarts>>

-----------------------------------------------------------------------------
(* offerStore *)

\* isLiveOffer: by the server's clock, so it knows of a lapse without being told.
Live(o) == o # None /\ o.id \notin lapsed

\* The service still waits for an answer to an offer.
Stands(o) == holding[o.book] = "offered" /\ offered[o.book] = o.id

ReceivedLast(offers) == IF offers = {} THEN {slot} ELSE offers

\* receiveOffer for every hold of the library in its order: a live offer keeps
\* the slot, a dead one gives way to the next, and what receiveOffer answers is
\* not looked at.
Received(offers) ==
  IF Live(slot) \/ offers = {} THEN {slot}
  ELSE LET live == {o \in offers : Live(o)} IN IF live = {} THEN offers ELSE live

-----------------------------------------------------------------------------
(* offerPolling *)

\* The interval, or the app coming to the foreground: `since` is read now.
TickStarts(t) ==
  /\ tick[t].at = "idle"
  /\ tick' = [tick EXCEPT ![t] = [NoTick EXCEPT !.at = "changes", !.from = since]]
  /\ UNCHANGED <<serverVars, slot, since, library, reply, offerHistories, grants, misses, restarts>>

\* getChanges answers: with a promotion the library is read next.
ChangesTold(t) ==
  /\ tick[t].at = "changes"
  /\ tick' = [tick EXCEPT ![t] = [NoTick EXCEPT
                 !.at = IF promotions > tick[t].from THEN "library" ELSE "told",
                 !.next = promotions]]
  /\ UNCHANGED <<serverVars, slot, since, library, reply, offerHistories, grants, misses, restarts>>

LibraryTold(t) ==
  /\ tick[t].at = "library"
  /\ tick' = [tick EXCEPT ![t].at = "shown", ![t].offers = Offered]
  /\ UNCHANGED <<serverVars, slot, since, library, reply, offerHistories, grants, misses, restarts>>

\* The end of pollOfferChanges, and the cursor of the next tick.
TickEnds(t) ==
  /\ tick[t].at \in {"told", "shown"}
  /\ slot' \in Received(tick[t].offers)
  /\ since' = tick[t].next
  /\ covered' = IF tick[t].at = "shown" /\ tick[t].next > covered THEN tick[t].next ELSE covered
  /\ passed' = passed \cup ({o \in tick[t].offers : Live(o)} \ {slot'})
  /\ tick' = [tick EXCEPT ![t] = NoTick]
  /\ UNCHANGED <<serverVars, library, reply, dismissed, ghosts, grants, misses, restarts>>

TickFailsAhead(t) ==
  /\ tick[t].at \in {"changes", "library"} /\ misses < MaxFailures
  /\ misses' = misses + 1
  /\ since' = IF tick[t].at = "library" THEN tick[t].next ELSE since
  /\ tick' = [tick EXCEPT ![t] = NoTick]
  /\ UNCHANGED <<serverVars, slot, library, reply, offerHistories, grants, restarts>>

\* Either request fails: the cursor stays where it was.
TickFails(t) ==
  /\ tick[t].at \in {"changes", "library"} /\ misses < MaxFailures
  /\ misses' = misses + 1
  /\ tick' = [tick EXCEPT ![t] = NoTick]
  /\ UNCHANGED <<serverVars, slot, since, library, reply, offerHistories, grants, restarts>>

-----------------------------------------------------------------------------
(* libraryStore and resolveAccess *)

\* A refresh: the reply replaces what is shown.  A reply that is late is the
\* shelf being late; two replies that overtake each other are left out.
Refresh ==
  /\ library # Library
  /\ library' = Library
  /\ UNCHANGED <<serverVars, slot, since, tick, reply, offerHistories, grants, misses, restarts>>

\* resolveAccess for ELITE: a loan before an offer before a place in the queue.
Access(b) ==
  CASE library[b].state = "lent" -> "available"
    [] library[b].state = "offered" -> "offered"
    [] library[b].state = "queued" -> "queued"
    [] OTHER -> "requires_grant"

\* grantAccess: borrowOrPlaceHold.  There is a copy, or there is a queue; a
\* title that is lent or held already is answered as it is.
Grant(b) ==
  /\ Access(b) = "requires_grant"
  /\ holding[b] = "none" /\ grants < MaxGrants
  /\ grants' = grants + 1
  /\ \E h \in {"lent", "queued"} : holding' = [holding EXCEPT ![b] = h]
  /\ UNCHANGED <<offered, promotions, lapsed, slot, since, tick, library, reply,
                 offerHistories, misses, restarts>>

\* revokeLicence: returnLoan.
Return(b) ==
  /\ Access(b) = "available"
  /\ holding[b] = "lent"
  /\ holding' = [holding EXCEPT ![b] = "none"]
  /\ UNCHANGED <<offered, promotions, lapsed, slot, since, tick, library, reply,
                 offerHistories, grants, misses, restarts>>

-----------------------------------------------------------------------------
(* Answering an offer *)

\* What the card or a page lets the reader answer.
Answerable(p) ==
  IF p = "card" THEN {slot} \ {None}
  ELSE {[book |-> b, id |-> library[b].id] : b \in {x \in Titles : Access(x) = "offered"}}

\* Accepting and declining differ only in what the server makes of the hold.
Answer(p) ==
  /\ reply[p].at = "idle"
  /\ \E o \in Answerable(p) : reply' = [reply EXCEPT ![p] = [at |-> "sent", offer |-> o]]
  /\ UNCHANGED <<serverVars, slot, since, tick, library, offerHistories, grants, misses, restarts>>

\* The server takes the answer when the offer still stands; its reply may be
\* lost, and a library may be on its way that was read before.
Taken(p) ==
  /\ reply[p].at = "sent"
  /\ LET o == reply[p].offer
         read == \E t \in Ticks : o \in tick[t].offers
     IN \E told \in {"taken", "failed"} :
          /\ reply' = [reply EXCEPT ![p].at = told]
          /\ IF Stands(o)
             THEN /\ \E h \in {"lent", "none"} : holding' = [holding EXCEPT ![o.book] = h]
                  /\ ghosts' = IF told = "failed" \/ read THEN ghosts \cup {o} ELSE ghosts
                  /\ IF told = "taken" THEN UNCHANGED misses
                     ELSE misses < MaxFailures /\ misses' = misses + 1
             ELSE told = "failed" /\ UNCHANGED <<holding, ghosts, misses>>
  /\ UNCHANGED <<offered, promotions, lapsed, slot, since, tick, library, covered, passed,
                 dismissed, grants, restarts>>

\* The request fails before the server has it: an error like any other.
AnswerFails(p) ==
  /\ reply[p].at = "sent" /\ misses < MaxFailures
  /\ misses' = misses + 1
  /\ reply' = [reply EXCEPT ![p].at = "failed"]
  /\ UNCHANGED <<serverVars, slot, since, tick, library, offerHistories, grants, restarts>>

\* After a success the slot is cleared, whatever it holds by then; after an
\* error it is left alone.  (A page then refreshes: Refresh.)
Answered(p) ==
  /\ reply[p].at \in {"taken", "failed"}
  /\ IF reply[p].at = "failed" THEN UNCHANGED <<slot, dismissed>>
     ELSE /\ slot' = None
          /\ dismissed' = dismissed \cup {o \in {slot} \ {reply[p].offer} : Live(o)}
  /\ reply' = [reply EXCEPT ![p] = NoReply]
  /\ UNCHANGED <<serverVars, since, tick, library, covered, passed, ghosts, grants, misses,
                 restarts>>

\* The process dies: the slot is on disk, the cursor and the shelf are not.
AppRestarts ==
  /\ restarts < MaxRestarts
  /\ restarts' = restarts + 1
  /\ since' = 0
  /\ tick' = [t \in Ticks |-> NoTick]
  /\ library' = [b \in Titles |-> [state |-> "none", id |-> 0]]
  /\ reply' = [p \in Answerers |-> NoReply]
  /\ ghosts' = ghosts \cup {reply[p].offer : p \in {q \in Answerers : reply[q].at = "taken"}}
  /\ UNCHANGED <<serverVars, slot, covered, passed, dismissed, grants, misses>>

PollStep(t) == TickStarts(t) \/ ChangesTold(t) \/ LibraryTold(t) \/ TickEnds(t)

OffersNext ==
  \/ \E b \in Titles : Promote(b) \/ Grant(b) \/ Return(b)
  \/ \E i \in 1 .. MaxOffers : Lapse(i)
  \/ \E t \in Ticks : PollStep(t) \/ TickFails(t)
  \/ Refresh
  \/ \E p \in Answerers : Answer(p) \/ Taken(p) \/ AnswerFails(p) \/ Answered(p)
  \/ AppRestarts

OffersSpec == OffersInit /\ [][OffersNext]_offerVars

-----------------------------------------------------------------------------
(* Properties *)

\* The cursor never passes a promotion whose library the phone has not read,
\* whatever polls overlap, fail and restart: no offer is skipped by the feed
\* (pollOfferChanges returns the cursor only after getLibrary; since = nextCursor).
PromotionIsLookedUp == since <= covered

\* What the card asks of the reader can still be answered: an offer that the
\* service no longer waits on is only before the reader while the answer is on its
\* way, or as one of the ghosts (QueueNotificationHost, clear() after an answer).
CardStands ==
  Live(slot) => \/ Stands(slot) \/ slot \in ghosts
                \/ \E p \in Answerers : reply[p].at = "taken" /\ reply[p].offer = slot

\* A live offer leaves the slot by its own answer, taken, and by that to another
\* offer, which clear() does not ask about (`dismissed`); no poll puts another in
\* its place (receiveOffer).
LiveOfferStays ==
  [][ (slot # None /\ slot' # slot /\ slot.id \notin lapsed')
      => /\ slot' = None
         /\ \E p \in Answerers :
              /\ reply[p].at = "taken" /\ reply'[p].at = "idle"
              /\ reply[p].offer = slot \/ slot \in dismissed' ]_offerVars

\* The feed passes an offer over only for another that is live (receiveOffer).
PassedForALiveOne ==
  [][ passed' # passed => Live(slot)' ]_offerVars

\* What the feed promotes is looked up, what is put before the reader can be
\* answered and stays there until it is, or another is; and what is not put there
\* has found it taken (useOfferPolling, offerStore).
OffersAreKept ==
  []PromotionIsLookedUp /\ []CardStands /\ LiveOfferStays /\ PassedForALiveOne

\* The polls run while the app is in front: setInterval, and at once on return.
FairPolls == \A t \in Ticks : WF_offerVars(PollStep(t))
FairOffersSpec == OffersSpec /\ FairPolls

\* An offer comes before the reader, is over, or was kept from them by another:
\* it found a live one in the slot, or was cleared by the answer to one.  With fair
\* polls, however the requests fail a bounded number of times (useOfferPolling).
OfferIsShown ==
  \A i \in 1 .. MaxOffers :
    (\E b \in Titles : Stands([book |-> b, id |-> i]))
      ~> \/ slot # None /\ slot.id = i
         \/ \A b \in Titles : ~Stands([book |-> b, id |-> i])
         \/ \E o \in passed \cup dismissed : o.id = i

-----------------------------------------------------------------------------
(* What comments of the source say, and the code contradicts. *)

\* Stated of the offer store: when the slot is free and the feed has been read to
\* its end, no offer stands that the reader has not been shown.
FreeSlotMeansNoOffer ==
  (slot = None /\ since = promotions /\ \A t \in Ticks : tick[t] = NoTick)
    => \A b \in Titles : holding[b] # "offered"

\* "A second offer must not silently replace the first" (offerStore), and clearing
\* "would dismiss a live, still-valid offer banner for whatever this reader was
\* actually queued for elsewhere" (ItemDetailScreen): nothing dismisses one but
\* the answer to it.
OnlyItsAnswerDismisses == dismissed = {}

\* Clearing the slot is there because the banner "kept offering an already-consumed
\* copy until its own expiry" (ItemDetailScreen): none is put there that is over.
NoConsumedOfferIsShown ==
  [][ slot' # slot /\ slot' # None => Stands(slot)' \/ slot'.id \in lapsed' ]_offerVars
=============================================================================
