---------------------------- MODULE AccessProofs ----------------------------
(* Proofs about what lets a reader at a book: Offers (offers are kept and     *)
(* polls miss none), BookOpening (what opens a book without the server is a   *)
(* licence that is fresh and was not revoked) and ReaderSession (a book that  *)
(* was locked stays shut, and the monitor follows the book); for any titles,  *)
(* polls, opens, mounts and rulings that overlap, and any bounds.             *)
EXTENDS Offers, BookOpening, ReaderSession, TLAPS

USE DEF serverVars, offerHistories

(* Offers.                                                                  *)

(* An offer that stands, or is shown to stand, has an id.                     *)
Numbered ==
  /\ \A b \in Titles : holding[b] = "offered" => offered[b] # 0
  /\ \A b \in Titles : library[b].state = "offered" => library[b].id # 0

(* What a poll knows of the feed, the phone has looked up, until the reply    *)
(* that shows more is in.                                                     *)
LookedUp ==
  /\ since <= covered
  /\ \A t \in Ticks : tick[t].at = "changes" => tick[t].from <= covered
  /\ \A t \in Ticks : tick[t].at = "told" => tick[t].next <= covered

(* An answer is to an offer.                                                  *)
Asked == \A p \in Answerers : reply[p].at # "idle" => reply[p].offer \in Offer

(* A live offer that a poll carries stands, or may be one of the ghosts.      *)
CarriedStand ==
  \A t \in Ticks : \A o \in tick[t].offers : Live(o) => Stands(o) \/ o \in ghosts

OffersInv == OffersTypeOK /\ Numbered /\ LookedUp /\ Asked /\ CarriedStand /\ CardStands

(* The steps that leave the offers under way and the answers alone.           *)
OffersAlone == UNCHANGED <<slot, tick, reply, lapsed, ghosts>>

-----------------------------------------------------------------------------
Tick == [at : {"idle", "changes", "told", "library", "shown"},
         from : 0 .. MaxOffers, next : 0 .. MaxOffers, offers : SUBSET Offer]

Reply == [at : {"idle", "sent", "taken", "failed"}, offer : {None} \cup Offer]

LEMMA Beginnings == NoTick \in Tick /\ NoReply \in Reply
BY OffersAssumption DEF NoTick, NoReply, Tick, Reply

LEMMA OffersBegin == OffersInit => OffersInv
<1> SUFFICES ASSUME OffersInit PROVE OffersInv
  OBVIOUS
<1> USE OffersAssumption
<1>1. OffersTypeOK
  BY Beginnings DEF OffersInit, OffersTypeOK, Holdings, Tick, Reply
<1>2. Numbered
  BY DEF OffersInit, Numbered
<1>3. LookedUp
  BY DEF OffersInit, LookedUp, NoTick
<1>4. Asked /\ CarriedStand /\ CardStands
  BY DEF OffersInit, Asked, CarriedStand, CardStands, NoTick, NoReply, Live
<1> QED BY <1>1, <1>2, <1>3, <1>4 DEF OffersInv

(* What the server says of the shelf is offers with an id.                    *)
LEMMA OfferedAreOffers ==
  ASSUME OffersTypeOK, Numbered
  PROVE  /\ Offered \subseteq Offer
         /\ Library \in [Titles -> [state : Holdings, id : 0 .. MaxOffers]]
         /\ \A p \in Answerers : Answerable(p) \subseteq Offer
<1>1. ASSUME NEW i \in 0 .. MaxOffers, i # 0 PROVE i \in 1 .. MaxOffers
  BY <1>1, OffersAssumption
<1>2. \A b \in Titles : holding[b] = "offered" => offered[b] \in 1 .. MaxOffers
  BY <1>1 DEF OffersTypeOK, Numbered
<1>3. Offered \subseteq Offer
  BY <1>2 DEF Offered, Offer
<1>4. Library \in [Titles -> [state : Holdings, id : 0 .. MaxOffers]]
  BY DEF OffersTypeOK, Library
<1>5. \A b \in Titles : Access(b) = "offered" => library[b].id \in 1 .. MaxOffers
  <2> TAKE b \in Titles
  <2>1. library[b] \in [state : Holdings, id : 0 .. MaxOffers]
    BY DEF OffersTypeOK
  <2>2. Access(b) = "offered" => library[b].state = "offered"
    BY <2>1 DEF Access, Holdings
  <2> QED BY <1>1, <2>1, <2>2 DEF Numbered
<1>6. ASSUME NEW p \in Answerers PROVE Answerable(p) \subseteq Offer
  BY <1>5 DEF Answerable, OffersTypeOK, Offer
<1> QED BY <1>3, <1>4, <1>6

(* A poll fills the slot with an offer, or leaves it.                         *)
LEMMA ReceivedAreOffers ==
  ASSUME OffersTypeOK, NEW offers \in SUBSET Offer
  PROVE  /\ Received(offers) \subseteq {None} \cup Offer
         /\ Live(slot) => Received(offers) = {slot}
BY DEF Received, Live, OffersTypeOK

(* An offer that stood and is no less awaited by the service stands on.       *)
LEMMA StandsOn ==
  ASSUME OffersTypeOK, CarriedStand, CardStands, Asked, OffersAlone,
         \A o \in Offer : Live(o) /\ Stands(o) => Stands(o)'
  PROVE  CarriedStand' /\ CardStands' /\ Asked'
<1>1. \A o : Live(o)' <=> Live(o)
  BY DEF Live, OffersAlone
<1>2. \A t \in Ticks : tick[t].offers \in SUBSET Offer
  BY DEF OffersTypeOK
<1>3. CarriedStand'
  BY <1>1, <1>2 DEF CarriedStand, OffersAlone
<1>4. Live(slot) => slot \in Offer
  BY DEF Live, OffersTypeOK
<1>5. CardStands'
  BY <1>1, <1>4 DEF CardStands, OffersAlone
<1> QED BY <1>3, <1>5 DEF Asked, OffersAlone

-----------------------------------------------------------------------------
LEMMA OffersStep ==
  ASSUME OffersInv, [OffersNext]_offerVars
  PROVE  OffersInv'
<1> USE OffersAssumption, OffersInv DEF OffersInv
<1>1. ASSUME NEW b \in Titles, Promote(b) PROVE OffersInv'
  <2>1. promotions + 1 \in 0 .. MaxOffers /\ promotions + 1 # 0
    BY <1>1 DEF Promote, OffersTypeOK
  <2>2. OffersTypeOK'
    BY <1>1, <2>1 DEF Promote, OffersTypeOK, Holdings
  <2>3. Numbered'
    BY <1>1, <2>1 DEF Promote, OffersTypeOK, Numbered
  <2>4. OffersAlone /\ \A o \in Offer : Stands(o) => Stands(o)'
    BY <1>1 DEF Promote, OffersAlone, Stands, OffersTypeOK, Offer
  <2> QED BY <1>1, <2>2, <2>3, <2>4, StandsOn DEF Promote, LookedUp
<1>2. ASSUME NEW i \in 1 .. MaxOffers, Lapse(i) PROVE OffersInv'
  <2>1. OffersTypeOK'
    BY <1>2 DEF Lapse, OffersTypeOK, Holdings
  <2>2. Numbered'
    BY <1>2 DEF Lapse, Numbered
  <2>3. \A o : Live(o)' => Live(o) /\ o.id # i
    BY <1>2 DEF Lapse, Live
  <2>4. ASSUME NEW o \in Offer, Live(o)', Stands(o) PROVE Stands(o)'
    BY <1>2, <2>3, <2>4 DEF Lapse, Stands, Offer
  <2>5. CarriedStand'
    BY <1>2, <2>3, <2>4 DEF Lapse, CarriedStand, OffersTypeOK
  <2>6. CardStands'
    BY <1>2, <2>3, <2>4 DEF Lapse, CardStands, OffersTypeOK, Live
  <2> QED BY <1>2, <2>1, <2>2, <2>5, <2>6 DEF Lapse, LookedUp, Asked
<1>3. ASSUME NEW t \in Ticks, TickStarts(t) PROVE OffersInv'
  <2>1. tick' = [tick EXCEPT ![t] = [NoTick EXCEPT !.at = "changes", !.from = since]]
    BY <1>3 DEF TickStarts
  <2>2. NoTick \in Tick /\ since \in 0 .. MaxOffers
    BY Beginnings DEF OffersTypeOK
  <2>3. [NoTick EXCEPT !.at = "changes", !.from = since] \in Tick
    BY <2>2 DEF Tick
  <2>4. OffersTypeOK'
    BY <1>3, <2>1, <2>3 DEF TickStarts, OffersTypeOK, Tick
  <2>5. tick'[t].at = "changes" /\ tick'[t].from = since
    BY <2>1, <2>2 DEF OffersTypeOK, Tick
  <2>6. \A u \in Ticks \ {t} : tick'[u] = tick[u]
    BY <2>1 DEF OffersTypeOK
  <2>7. LookedUp'
    BY <1>3, <2>5, <2>6 DEF TickStarts, LookedUp
  <2>8. tick'[t].offers = {}
    BY <2>1, <2>2 DEF OffersTypeOK, Tick, NoTick
  <2>9. CarriedStand'
    BY <1>3, <2>6, <2>8 DEF TickStarts, CarriedStand, Live, Stands
  <2> QED BY <1>3, <2>4, <2>7, <2>9 DEF TickStarts, Numbered, Asked, CardStands, Live, Stands
<1>4. ASSUME NEW t \in Ticks, ChangesTold(t) PROVE OffersInv'
  <2>1. tick[t] \in Tick /\ promotions \in 0 .. MaxOffers /\ covered \in 0 .. MaxOffers
    BY DEF OffersTypeOK, Tick
  <2> DEFINE at == IF promotions > tick[t].from THEN "library" ELSE "told"
  <2>2. tick' = [tick EXCEPT ![t] = [NoTick EXCEPT !.at = at, !.next = promotions]]
    BY <1>4 DEF ChangesTold
  <2>3. [NoTick EXCEPT !.at = at, !.next = promotions] \in Tick
    BY <2>1, Beginnings DEF Tick
  <2>4. OffersTypeOK'
    BY <1>4, <2>2, <2>3 DEF ChangesTold, OffersTypeOK, Tick
  <2>5. tick'[t].at = at /\ tick'[t].next = promotions /\ tick'[t].offers = {}
    BY <2>1, <2>2 DEF OffersTypeOK, Tick, NoTick
  <2>6. tick[t].from <= covered /\ tick[t].from \in 0 .. MaxOffers
    BY <1>4, <2>1 DEF ChangesTold, LookedUp, Tick
  <2>7. at = "told" => promotions <= covered
    BY <2>1, <2>6
  <2>8. at \in {"library", "told"}
    OBVIOUS
  <2> HIDE DEF at
  <2>9. \A u \in Ticks \ {t} : tick'[u] = tick[u]
    BY <2>2 DEF OffersTypeOK
  <2>10. LookedUp'
    BY <1>4, <2>5, <2>7, <2>8, <2>9 DEF ChangesTold, LookedUp
  <2>11. CarriedStand'
    BY <1>4, <2>5, <2>9 DEF ChangesTold, CarriedStand, Live, Stands
  <2> QED BY <1>4, <2>4, <2>10, <2>11 DEF ChangesTold, Numbered, Asked, CardStands, Live, Stands
<1>5. ASSUME NEW t \in Ticks, LibraryTold(t) PROVE OffersInv'
  <2>1. tick[t] \in Tick
    BY DEF OffersTypeOK, Tick
  <2>2. tick' = [tick EXCEPT ![t] = [tick[t] EXCEPT !.at = "shown", !.offers = Offered]]
    BY <1>5 DEF LibraryTold
  <2>3. [tick[t] EXCEPT !.at = "shown", !.offers = Offered] \in Tick
    BY <2>1, OfferedAreOffers DEF Tick
  <2>4. OffersTypeOK'
    BY <1>5, <2>2, <2>3 DEF LibraryTold, OffersTypeOK, Tick
  <2>5. tick'[t].at = "shown" /\ \A u \in Ticks \ {t} : tick'[u] = tick[u]
    BY <2>1, <2>2 DEF OffersTypeOK, Tick
  <2>6. tick'[t].offers = Offered
    BY <2>1, <2>2 DEF OffersTypeOK, Tick
  <2>7. \A o \in Offered : Stands(o)
    BY DEF Offered, Stands
  <2>8. CarriedStand'
    BY <1>5, <2>5, <2>6, <2>7 DEF LibraryTold, CarriedStand, Live, Stands
  <2> QED BY <1>5, <2>4, <2>5, <2>8
          DEF LibraryTold, Numbered, LookedUp, Asked, CardStands, Live, Stands
<1>6. ASSUME NEW t \in Ticks, TickEnds(t) PROVE OffersInv'
  <2>1. tick[t] \in Tick /\ covered \in 0 .. MaxOffers
    BY DEF OffersTypeOK, Tick
  <2>2. tick' = [tick EXCEPT ![t] = NoTick] /\ slot' \in Received(tick[t].offers)
    BY <1>6 DEF TickEnds
  <2>3. slot' \in {None} \cup Offer
    BY <2>1, <2>2, ReceivedAreOffers DEF Tick
  <2>4. since' = tick[t].next /\ covered' \in 0 .. MaxOffers /\ covered <= covered'
    BY <1>6, <2>1 DEF TickEnds, Tick
  <2>10. passed' \subseteq Offer
    BY <1>6, <2>1 DEF TickEnds, OffersTypeOK, Tick
  <2>5. OffersTypeOK'
    BY <1>6, <2>1, <2>2, <2>3, <2>4, <2>10, Beginnings DEF TickEnds, OffersTypeOK, Tick
  <2>6. since' <= covered'
    BY <1>6, <2>1, <2>4 DEF TickEnds, LookedUp, Tick
  <2>7. tick'[t].at = "idle" /\ \A u \in Ticks \ {t} : tick'[u] = tick[u]
    BY <2>2 DEF OffersTypeOK, NoTick
  <2>8. \A u \in Ticks : tick[u].from \in Nat /\ tick[u].next \in Nat
    BY DEF OffersTypeOK
  <2>9. LookedUp'
    BY <2>1, <2>4, <2>6, <2>7, <2>8 DEF LookedUp
  <2>11. tick'[t].offers = {}
    BY <2>2 DEF OffersTypeOK, NoTick
  <2>12. CarriedStand'
    BY <1>6, <2>7, <2>11 DEF TickEnds, CarriedStand, Live, Stands
  <2>13. slot' = slot \/ slot' \in tick[t].offers
    BY <2>2 DEF Received
  <2>14. CardStands'
    BY <1>6, <2>13 DEF TickEnds, CardStands, CarriedStand, Live, Stands
  <2> QED BY <1>6, <2>5, <2>9, <2>12, <2>14 DEF TickEnds, Numbered, Asked
<1>7. ASSUME NEW t \in Ticks, TickFails(t) PROVE OffersInv'
  <2>1. tick' = [tick EXCEPT ![t] = NoTick] /\ misses + 1 \in 0 .. MaxFailures
    BY <1>7 DEF TickFails, OffersTypeOK
  <2>2. OffersTypeOK'
    BY <1>7, <2>1, Beginnings DEF TickFails, OffersTypeOK, Tick
  <2>3. LookedUp'
    BY <1>7, <2>1 DEF TickFails, LookedUp, OffersTypeOK, NoTick
  <2>4. tick'[t].offers = {} /\ \A u \in Ticks \ {t} : tick'[u] = tick[u]
    BY <2>1 DEF OffersTypeOK, NoTick
  <2>5. CarriedStand'
    BY <1>7, <2>4 DEF TickFails, CarriedStand, Live, Stands
  <2> QED BY <1>7, <2>2, <2>3, <2>5 DEF TickFails, Numbered, Asked, CardStands, Live, Stands
<1>8. CASE Refresh
  <2>1. OffersTypeOK'
    BY <1>8, OfferedAreOffers DEF Refresh, OffersTypeOK
  <2>2. Numbered'
    BY <1>8 DEF Refresh, Numbered, Library
  <2>3. OffersAlone /\ \A o \in Offer : Stands(o) => Stands(o)'
    BY <1>8 DEF Refresh, OffersAlone, Stands
  <2> QED BY <1>8, <2>1, <2>2, <2>3, StandsOn DEF Refresh, LookedUp
<1>9. ASSUME NEW b \in Titles, Grant(b) \/ Return(b) PROVE OffersInv'
  <2>1. PICK h \in {"none", "lent", "queued"} : holding' = [holding EXCEPT ![b] = h]
    BY <1>9 DEF Grant, Return
  <2>2. grants' \in 0 .. MaxGrants
    BY <1>9 DEF Grant, Return, OffersTypeOK
  <2>3. UNCHANGED <<offered, promotions, lapsed, slot, since, tick, library, reply,
                    covered, passed, dismissed, ghosts, misses, restarts>>
    BY <1>9 DEF Grant, Return, offerHistories
  <2>4. OffersTypeOK'
    BY <2>1, <2>2, <2>3 DEF OffersTypeOK, Holdings
  <2>5. Numbered'
    BY <2>1, <2>3 DEF Numbered, OffersTypeOK
  <2>6. holding[b] # "offered"
    BY <1>9 DEF Grant, Return
  <2>7. OffersAlone /\ \A o \in Offer : Stands(o) => Stands(o)'
    BY <2>1, <2>3, <2>6 DEF OffersAlone, Stands, Offer, OffersTypeOK
  <2> QED BY <2>3, <2>4, <2>5, <2>7, StandsOn DEF LookedUp
<1>10. ASSUME NEW p \in Answerers, Answer(p) PROVE OffersInv'
  <2>1. PICK o \in Answerable(p) : reply' = [reply EXCEPT ![p] = [at |-> "sent", offer |-> o]]
    BY <1>10 DEF Answer
  <2>2. o \in Offer /\ [at |-> "sent", offer |-> o] \in Reply
    BY OfferedAreOffers DEF Reply
  <2>3. OffersTypeOK'
    BY <1>10, <2>1, <2>2 DEF Answer, OffersTypeOK, Reply
  <2>4. reply'[p] = [at |-> "sent", offer |-> o] /\ \A q \in Answerers \ {p} : reply'[q] = reply[q]
    BY <2>1 DEF OffersTypeOK
  <2>5. Asked'
    BY <2>2, <2>4 DEF Asked
  <2>6. CardStands'
    BY <1>10, <2>4 DEF Answer, CardStands, Live, Stands
  <2> QED BY <1>10, <2>3, <2>5, <2>6 DEF Answer, Numbered, LookedUp, CarriedStand, Live, Stands
<1>11. ASSUME NEW p \in Answerers, Taken(p) PROVE OffersInv'
  <2> DEFINE o == reply[p].offer
  <2>1. reply[p] \in Reply /\ reply[p].at = "sent" /\ o \in Offer
    BY <1>11 DEF OffersTypeOK, Reply, Taken, Asked
  <2>2. PICK told \in {"taken", "failed"} :
          /\ reply' = [reply EXCEPT ![p] = [reply[p] EXCEPT !.at = told]]
          /\ Stands(o) =>
               /\ \E h \in {"lent", "none"} : holding' = [holding EXCEPT ![o.book] = h]
               /\ ghosts' = IF told = "failed" \/ \E t \in Ticks : o \in tick[t].offers
                            THEN ghosts \cup {o} ELSE ghosts
          /\ ~Stands(o) => UNCHANGED <<holding, ghosts>>
    BY <1>11 DEF Taken
  <2>3. [reply[p] EXCEPT !.at = told] \in Reply
    BY <2>1 DEF Reply
  <2>4. reply' \in [Answerers -> Reply]
    BY <2>2, <2>3 DEF OffersTypeOK, Reply
  <2>5. misses' \in 0 .. MaxFailures
    BY <1>11 DEF Taken, OffersTypeOK
  <2>6. ghosts' \subseteq Offer /\ ghosts \subseteq ghosts'
    BY <2>1, <2>2 DEF OffersTypeOK
  <2>7. holding' \in [Titles -> Holdings] /\ \A b \in Titles : holding'[b] = "offered" => holding[b] = "offered"
    BY <2>2 DEF OffersTypeOK, Holdings
  <2>8. UNCHANGED <<offered, promotions, lapsed, slot, since, tick, library, covered, passed,
                    dismissed, grants, restarts>>
    BY <1>11 DEF Taken
  <2>9. OffersTypeOK'
    BY <2>4, <2>5, <2>6, <2>7, <2>8 DEF OffersTypeOK, Reply
  <2>10. Numbered'
    BY <2>7, <2>8 DEF Numbered
  <2>11. /\ reply'[p].at = told /\ reply'[p].offer = o
         /\ \A q \in Answerers \ {p} : reply'[q] = reply[q]
    BY <2>1, <2>2 DEF OffersTypeOK, Reply
  <2>12. Asked'
    BY <2>1, <2>11 DEF Asked
  <2>13. \A x : Live(x)' <=> Live(x)
    BY <2>8 DEF Live
  <2>14. ASSUME NEW x \in Offer, Stands(x) PROVE Stands(x)' \/ (x = o /\ Stands(o))
    <3>1. CASE x.book = o.book
      BY <2>1, <2>2, <2>8, <2>14, <3>1 DEF Stands, Offer
    <3>2. CASE x.book # o.book
      BY <2>1, <2>2, <2>8, <2>14, <3>2 DEF Stands, Offer, OffersTypeOK
    <3> QED BY <3>1, <3>2
  <2>15. ASSUME NEW t \in Ticks, NEW x \in tick[t].offers, Live(x), ~Stands(x)'
         PROVE  x \in ghosts'
    <3>1. x \in Offer
      BY DEF OffersTypeOK
    <3>2. CASE Stands(x)
      BY <2>2, <2>14, <2>15, <3>1, <3>2
    <3> QED BY <2>6, <2>15, <3>2 DEF CarriedStand
  <2>16. CarriedStand'
    BY <2>8, <2>13, <2>15 DEF CarriedStand
  <2>17. ASSUME Live(slot), ~Stands(slot)', slot \notin ghosts'
         PROVE  \E q \in Answerers : reply'[q].at = "taken" /\ reply'[q].offer = slot
    <3>1. slot \in Offer
      BY <2>17 DEF Live, OffersTypeOK
    <3>2. CASE Stands(slot)
      <4>1. slot = o /\ Stands(o)
        BY <2>8, <2>14, <2>17, <3>1, <3>2 DEF Stands
      <4>2. told = "taken"
        BY <2>2, <2>17, <4>1
      <4> QED BY <2>11, <4>1, <4>2
    <3>3. CASE ~Stands(slot)
      <4>1. PICK q \in Answerers : reply[q].at = "taken" /\ reply[q].offer = slot
        BY <2>6, <2>17, <3>3 DEF CardStands
      <4> QED BY <2>1, <2>11, <4>1
    <3> QED BY <3>2, <3>3
  <2>18. CardStands'
    BY <2>8, <2>13, <2>17 DEF CardStands, Stands
  <2> QED BY <2>8, <2>9, <2>10, <2>12, <2>16, <2>18 DEF LookedUp
<1>15. ASSUME NEW p \in Answerers, AnswerFails(p) PROVE OffersInv'
  <2>1. reply[p] \in Reply /\ reply[p].at = "sent"
    BY <1>15 DEF OffersTypeOK, Reply, AnswerFails
  <2>2. /\ reply' = [reply EXCEPT ![p] = [reply[p] EXCEPT !.at = "failed"]]
        /\ misses' \in 0 .. MaxFailures
    BY <1>15 DEF AnswerFails, OffersTypeOK
  <2>3. [reply[p] EXCEPT !.at = "failed"] \in Reply
    BY <2>1 DEF Reply
  <2>4. OffersTypeOK'
    BY <1>15, <2>2, <2>3 DEF AnswerFails, OffersTypeOK, Reply
  <2>5. /\ reply'[p].at = "failed" /\ reply'[p].offer = reply[p].offer
        /\ \A q \in Answerers \ {p} : reply'[q] = reply[q]
    BY <2>1, <2>2 DEF OffersTypeOK, Reply
  <2>6. Asked'
    BY <2>1, <2>5 DEF Asked
  <2>7. CardStands'
    BY <1>15, <2>1, <2>5 DEF AnswerFails, CardStands, Live, Stands
  <2> QED BY <1>15, <2>4, <2>6, <2>7
          DEF AnswerFails, Numbered, LookedUp, CarriedStand, Live, Stands
<1>12. ASSUME NEW p \in Answerers, Answered(p) PROVE OffersInv'
  <2>1. slot' \in {None} \cup Offer /\ dismissed' \subseteq Offer
    BY <1>12 DEF Answered, OffersTypeOK, Live
  <2>2. OffersTypeOK'
    BY <1>12, <2>1, Beginnings DEF Answered, OffersTypeOK, Reply
  <2>3. reply'[p].at = "idle" /\ \A q \in Answerers \ {p} : reply'[q] = reply[q]
    BY <1>12 DEF Answered, OffersTypeOK, NoReply
  <2>4. Asked'
    BY <2>3 DEF Asked
  <2>5. CASE reply[p].at = "taken"
    <3>1. CardStands'
      BY <1>12, <2>5 DEF Answered, CardStands, Live
    <3> QED BY <1>12, <2>2, <2>4, <3>1 DEF Answered, Numbered, LookedUp, CarriedStand, Live, Stands
  <2>6. CASE reply[p].at = "failed"
    <3>1. CardStands'
      BY <1>12, <2>3, <2>6 DEF Answered, CardStands, Live, Stands
    <3> QED BY <1>12, <2>2, <2>4, <3>1 DEF Answered, Numbered, LookedUp, CarriedStand, Live, Stands
  <2> QED BY <1>12, <2>5, <2>6 DEF Answered
<1>13. CASE AppRestarts
  <2>1. restarts' \in 0 .. MaxRestarts
    BY <1>13 DEF AppRestarts, OffersTypeOK
  <2>6. ghosts' \subseteq Offer /\ ghosts \subseteq ghosts'
    BY <1>13 DEF AppRestarts, OffersTypeOK, Asked
  <2>2. OffersTypeOK'
    BY <1>13, <2>1, <2>6, Beginnings DEF AppRestarts, OffersTypeOK, Holdings, Tick, Reply
  <2>3. Numbered'
    BY <1>13 DEF AppRestarts, Numbered
  <2>4. 0 <= covered
    BY DEF OffersTypeOK
  <2>5. LookedUp'
    BY <1>13, <2>4 DEF AppRestarts, LookedUp, NoTick
  <2>7. CarriedStand' /\ Asked'
    BY <1>13 DEF AppRestarts, CarriedStand, Asked, NoTick, NoReply
  <2>8. CardStands'
    BY <1>13, <2>6 DEF AppRestarts, CardStands, Live, Stands
  <2> QED BY <2>2, <2>3, <2>5, <2>7, <2>8
<1>14. CASE UNCHANGED offerVars
  BY <1>14 DEF offerVars, OffersTypeOK, Numbered, LookedUp, Library, Live, Asked, CarriedStand,
              CardStands, Stands
<1> QED
  BY <1>1, <1>2, <1>3, <1>4, <1>5, <1>6, <1>7, <1>8, <1>9, <1>10, <1>11, <1>12, <1>13, <1>14,
     <1>15
  DEF OffersNext, PollStep

(* No poll takes an offer that may still be answered out of the slot, and an  *)
(* answer to another offer that does is written down.                         *)
LEMMA SlotStep ==
  ASSUME OffersTypeOK, [OffersNext]_offerVars,
         slot # None, slot' # slot, slot.id \notin lapsed'
  PROVE  /\ slot' = None
         /\ \E p \in Answerers : /\ reply[p].at = "taken" /\ reply'[p].at = "idle"
                                 /\ reply[p].offer = slot \/ slot \in dismissed'
<1>1. ASSUME NEW t \in Ticks, TickEnds(t) PROVE FALSE
  <2>1. tick[t].offers \in SUBSET Offer
    BY DEF OffersTypeOK
  <2>2. Live(slot)
    BY <1>1 DEF TickEnds, Live
  <2> QED BY <1>1, <2>1, <2>2, ReceivedAreOffers DEF TickEnds
<1>2. ASSUME NEW p \in Answerers, Answered(p)
      PROVE  /\ slot' = None /\ reply[p].at = "taken" /\ reply'[p].at = "idle"
             /\ reply[p].offer = slot \/ slot \in dismissed'
  <2>1. reply[p].at = "taken" /\ slot' = None /\ UNCHANGED lapsed
    BY <1>2 DEF Answered
  <2>2. Live(slot)
    BY <2>1 DEF Live
  <2> QED BY <1>2, <2>1, <2>2 DEF Answered, NoReply, OffersTypeOK
<1>3. ASSUME UNCHANGED slot PROVE FALSE
  BY <1>3
<1> QED
  BY <1>1, <1>2, <1>3
  DEF OffersNext, PollStep, Promote, Lapse, TickStarts, ChangesTold, LibraryTold, TickFails,
      Refresh, Grant, Return, Answer, Taken, AnswerFails, AppRestarts, offerVars

(* What is passed over has found a live offer in the slot.                     *)
LEMMA PassedStep ==
  ASSUME OffersTypeOK, [OffersNext]_offerVars, passed' # passed
  PROVE  Live(slot)'
<1>1. ASSUME NEW t \in Ticks, TickEnds(t) PROVE Live(slot)'
  <2>1. PICK o \in tick[t].offers : Live(o)
    BY <1>1 DEF TickEnds
  <2>2. Live(slot')
    BY <1>1, <2>1 DEF TickEnds, Received
  <2> QED BY <1>1, <2>2 DEF TickEnds, Live
<1>2. ASSUME UNCHANGED passed PROVE FALSE
  BY <1>2
<1> QED
  BY <1>1, <1>2
  DEF OffersNext, PollStep, Promote, Lapse, TickStarts, ChangesTold, LibraryTold, TickFails,
      Refresh, Grant, Return, Answer, Taken, AnswerFails, Answered, AppRestarts, offerVars,
      offerHistories

-----------------------------------------------------------------------------
THEOREM OffersInvariance == OffersSpec => []OffersInv
BY OffersBegin, OffersStep, PTL DEF OffersSpec

(* The phone, the feed and the service keep their types.                      *)
THEOREM OffersTypeCorrect == OffersSpec => []OffersTypeOK
<1>1. OffersInv => OffersTypeOK
  BY DEF OffersInv
<1> QED BY <1>1, OffersInvariance, PTL

(* However polls overlap, fail and restart: the cursor passes no promotion     *)
(* that was not looked up; what the card asks of the reader can be answered,   *)
(* but for an answer on its way and a ghost; a live offer stays until its      *)
(* answer is taken, or another's, which is then written down; and none is      *)
(* passed over but for one that is live.                                       *)
THEOREM OffersKept == OffersSpec => OffersAreKept
<1>1. OffersInv => PromotionIsLookedUp /\ CardStands
  BY DEF OffersInv, LookedUp, PromotionIsLookedUp
<1>2. OffersInv /\ [OffersNext]_offerVars =>
        [(slot # None /\ slot' # slot /\ slot.id \notin lapsed')
          => /\ slot' = None
             /\ \E p \in Answerers :
                  /\ reply[p].at = "taken" /\ reply'[p].at = "idle"
                  /\ reply[p].offer = slot \/ slot \in dismissed']_offerVars
  BY SlotStep DEF OffersInv
<1>3. OffersInv /\ [OffersNext]_offerVars => [passed' # passed => Live(slot)']_offerVars
  BY PassedStep DEF OffersInv
<1> QED
  BY <1>1, <1>2, <1>3, OffersInvariance, PTL
  DEF OffersSpec, OffersAreKept, LiveOfferStays, PassedForALiveOne

-----------------------------------------------------------------------------
(* BookOpening.                                                             *)

(* No day is ahead of the device's clock, and none that an open has read is    *)
(* ahead of the last answer of the server; an age that let a book be opened    *)
(* was within the window.                                                      *)
Fresh ==
  /\ heard <= today
  /\ meta # None => meta.validated <= heard
  /\ \A a \in Attempts : opening[a].seen <= heard /\ opening[a].age < Ttl

(* What barred the copy when an open began still does, or is forgotten; such   *)
(* an open, without the server, ends at the row or before it.                  *)
StillBarred ==
  /\ \A a \in Attempts : opening[a].barred = "copy" => meta # None /\ meta.revoked = TRUE
  /\ \A a \in Attempts :
       opening[a].barred = "row" => meta # None /\ meta.licence = TRUE /\ valid = FALSE
  /\ \A a \in Attempts : opening[a].barred # "no" /\ opening[a].offline = TRUE =>
       opening[a].at \in {"deciding", "invalidating", "failed"}
  /\ \A a \in Attempts : opening[a].at = "deciding" => opening[a].barred # "copy"
  /\ \A a \in Attempts : opening[a].at = "asking" => opening[a].offline = FALSE

OpeningInv == BookTypeOK /\ Fresh /\ StillBarred

-----------------------------------------------------------------------------
LEMMA NotOpeningTyped == NotOpening \in Opening
BY OpeningAssumption DEF NotOpening, Opening, Stages, Editions

LEMMA BookBegins == BookInit => OpeningInv
<1> SUFFICES ASSUME BookInit PROVE OpeningInv
  OBVIOUS
<1>1. BookTypeOK
  <2>1. opening \in [Attempts -> Opening]
    BY NotOpeningTyped DEF BookInit
  <2>2. openAccess \in BOOLEAN /\ reachable \in BOOLEAN /\ valid \in BOOLEAN /\ locking \in BOOLEAN
    BY DEF BookInit
  <2>3. /\ today \in 0 .. MaxDay /\ heard \in 0 .. MaxDay /\ edition \in Editions
        /\ changed \in 0 .. MaxChanges
    BY OpeningAssumption DEF BookInit, Editions
  <2> QED BY <2>1, <2>2, <2>3 DEF BookInit, BookTypeOK
<1>2. Fresh
  BY OpeningAssumption DEF BookInit, Fresh, NotOpening
<1>3. StillBarred
  BY DEF BookInit, StillBarred, NotOpening
<1> QED BY <1>1, <1>2, <1>3 DEF OpeningInv

(* The kept copy, or a package from memory, is a package.                      *)
LEMMA ResolvedTyped ==
  ASSUME BookTypeOK PROVE Resolved \in {None} \cup Package
BY DEF BookTypeOK, Resolved, Kept, Package, Meta

(* An open that goes on to the bytes keeps what it knows of the licence.       *)
Keeps(c, d) == d.offline = c.offline /\ d.seen = c.seen /\ d.barred = c.barred /\ d.age = c.age

LEMMA DecryptingStep ==
  ASSUME BookTypeOK, NEW a \in Attempts, NEW c \in Opening, NEW p \in Package,
         Decrypting(a, c, p)
  PROVE  /\ cache' \in {None} \cup Package
         /\ session' \in {None} \cup [key : {None} \cup Editions, plain : BOOLEAN]
         /\ opening' \in [Attempts -> Opening]
         /\ \A d \in Attempts \ {a} : opening'[d] = opening[d]
         /\ Keeps(c, opening'[a]) /\ opening'[a].at \in {"opened", "decrypting"}
<1>1. CASE session # None /\ session.plain
  <2>1. [c EXCEPT !.at = "opened"] \in Opening
    BY DEF Opening, Stages
  <2>2. Keeps(c, [c EXCEPT !.at = "opened"]) /\ [c EXCEPT !.at = "opened"].at = "opened"
    BY DEF Opening, Keeps
  <2>3. opening' = [opening EXCEPT ![a] = [c EXCEPT !.at = "opened"]] /\ session' = session
    BY <1>1 DEF Decrypting
  <2> QED BY <2>1, <2>2, <2>3 DEF Decrypting, BookTypeOK
<1>2. CASE ~(session # None /\ session.plain)
  <2> DEFINE key == IF session # None /\ session.key # None THEN session.key ELSE p.key
             call == [c EXCEPT !.at = "decrypting", !.key = key, !.text = p.text]
             kept == IF ~p.kept THEN key ELSE IF session = None THEN None ELSE session.key
  <2>1. p.key \in Editions /\ p.text \in Editions
    BY DEF Package
  <2>2. key \in Editions /\ kept \in {None} \cup Editions
    BY <2>1 DEF BookTypeOK
  <2>3. opening' = [opening EXCEPT ![a] = call] /\ session' = [key |-> kept, plain |-> FALSE]
    BY <1>2 DEF Decrypting
  <2>4. call \in Opening
    BY <2>1, <2>2 DEF Opening, Stages
  <2>5. Keeps(c, call) /\ call.at = "decrypting"
    BY DEF Opening, Keeps
  <2> HIDE DEF key, call, kept
  <2>6. session' \in [key : {None} \cup Editions, plain : BOOLEAN]
    BY <2>2, <2>3
  <2>7. opening' \in [Attempts -> Opening] /\ opening'[a] = call
        /\ \A d \in Attempts \ {a} : opening'[d] = opening[d]
    BY <2>3, <2>4 DEF BookTypeOK
  <2> QED BY <2>5, <2>6, <2>7 DEF Decrypting
<1> QED BY <1>1, <1>2

LEMMA OpenKeptStep ==
  ASSUME BookTypeOK, NEW a \in Attempts, NEW c \in Opening, OpenKept(a, c)
  PROVE  /\ cache' \in {None} \cup Package
         /\ session' \in {None} \cup [key : {None} \cup Editions, plain : BOOLEAN]
         /\ opening' \in [Attempts -> Opening]
         /\ \A d \in Attempts \ {a} : opening'[d] = opening[d]
         /\ Keeps(c, opening'[a]) /\ opening'[a].at \in {"opened", "decrypting", "failed"}
<1>1. CASE Resolved = None
  <2>1. [c EXCEPT !.at = "failed"] \in Opening
    BY DEF Opening, Stages
  <2>2. Keeps(c, [c EXCEPT !.at = "failed"]) /\ [c EXCEPT !.at = "failed"].at = "failed"
    BY DEF Opening, Keeps
  <2> QED BY <1>1, <2>1, <2>2 DEF OpenKept, BookTypeOK
<1>2. CASE Resolved # None
  BY <1>2, ResolvedTyped, DecryptingStep DEF OpenKept
<1> QED BY <1>1, <1>2

(* A call that moves to a place keeps the rest of what it is.                  *)
LEMMA SettleStep ==
  ASSUME BookTypeOK, NEW a \in Attempts, NEW place \in Stages, Settle(a, place)
  PROVE  /\ opening' \in [Attempts -> Opening]
         /\ \A d \in Attempts \ {a} : opening'[d] = opening[d]
         /\ Keeps(opening[a], opening'[a]) /\ opening'[a].at = place
<1>1. opening[a] \in Opening
  BY DEF BookTypeOK
<1>2. opening' = [opening EXCEPT ![a] = [opening[a] EXCEPT !.at = place]]
  BY DEF Settle
<1>3. [opening[a] EXCEPT !.at = place] \in Opening
  BY <1>1 DEF Opening
<1>4. Keeps(opening[a], [opening[a] EXCEPT !.at = place])
      /\ [opening[a] EXCEPT !.at = place].at = place
  BY <1>1 DEF Opening, Keeps
<1> QED BY <1>2, <1>3, <1>4 DEF BookTypeOK

(* A step of one call, after which the rest of the world allows no less.       *)
LEMMA CallMoves ==
  ASSUME OpeningInv, NEW a \in Attempts,
         opening' \in [Attempts -> Opening],
         \A d \in Attempts \ {a} : opening'[d] = opening[d],
         Keeps(opening[a], opening'[a]),
         opening[a].barred # "no" /\ opening[a].offline = TRUE =>
           opening'[a].at \in {"deciding", "invalidating", "failed"},
         opening'[a].at \notin {"asking", "deciding"},
         UNCHANGED <<today, heard, valid>>, meta' = meta
  PROVE  Fresh' /\ StillBarred'
<1>1. Fresh'
  BY DEF OpeningInv, Fresh, Keeps
<1>2. StillBarred'
  BY DEF OpeningInv, StillBarred, Keeps
<1> QED BY <1>1, <1>2

(* The world around the calls moves, and bars no less.                         *)
LEMMA WorldMoves ==
  ASSUME OpeningInv,
         today' \in Nat, today <= today', heard' \in Nat, heard' <= today', heard <= heard',
         meta' # None => meta'.validated \in Nat /\ meta'.validated <= heard',
         opening' \in [Attempts -> Opening],
         \A a \in Attempts : \/ opening'[a] = NotOpening
                             \/ /\ opening'[a].at = opening[a].at
                                /\ opening'[a].offline = opening[a].offline
                                /\ opening'[a].seen = opening[a].seen
                                /\ opening'[a].age = opening[a].age
                                /\ opening'[a].barred \in {"no", opening[a].barred},
         \A a \in Attempts : opening'[a].barred = "copy" => meta' # None /\ meta'.revoked = TRUE,
         \A a \in Attempts :
           opening'[a].barred = "row" => meta' # None /\ meta'.licence = TRUE /\ valid' = FALSE
  PROVE  Fresh' /\ StillBarred'
<1>1. NotOpening.seen = 0 /\ NotOpening.age = 0 /\ NotOpening.barred = "no"
      /\ NotOpening.at = "idle" /\ NotOpening.offline = FALSE
  BY DEF NotOpening
<1>2. ASSUME NEW a \in Attempts PROVE opening'[a].seen <= heard' /\ opening'[a].age < Ttl
  <2>1. opening[a].seen \in Nat /\ heard \in Nat
    BY DEF OpeningInv, BookTypeOK, Opening
  <2> QED BY <1>1, <2>1, OpeningAssumption DEF OpeningInv, Fresh
<1>3. Fresh'
  BY <1>2 DEF Fresh
<1>4. StillBarred'
  BY <1>1 DEF OpeningInv, StillBarred
<1> QED BY <1>3, <1>4

LEMMA ClosedTyped ==
  ASSUME BookTypeOK PROVE Closed(cache) \in {None} \cup Package
BY DEF BookTypeOK, Closed

(* What stripping the licence leaves.                                          *)
LEMMA StrippedStep ==
  ASSUME BookTypeOK, Stripped
  PROVE  /\ meta' \in {None} \cup Meta
         /\ cache' \in {None} \cup Package
         /\ meta # None => meta' # None
         /\ meta # None => meta'.validated = meta.validated
         /\ meta # None => meta'.licence = meta.licence
         /\ meta # None /\ meta.revoked = TRUE => meta'.revoked = TRUE
         /\ meta = None => meta' = None
<1>1. CASE meta = None
  BY <1>1 DEF Stripped, BookTypeOK
<1>2. CASE meta # None
  <2>1. meta \in Meta
    BY <1>2 DEF BookTypeOK
  <2>2. [meta EXCEPT !.revoked = TRUE] \in Meta
    BY <2>1 DEF Meta
  <2>3. meta' = meta \/ meta' = [meta EXCEPT !.revoked = TRUE]
    BY DEF Stripped
  <2>4. meta' \in Meta
    BY <2>1, <2>2, <2>3
  <2>5. /\ meta'.validated = meta.validated /\ meta'.licence = meta.licence
        /\ meta.revoked = TRUE => meta'.revoked = TRUE
    BY <2>1, <2>3 DEF Meta
  <2>6. meta' # None
    BY <2>4, NoMetaAssumption
  <2>7. cache' \in {None} \cup Package
    BY DEF Stripped, BookTypeOK
  <2> QED BY <1>2, <2>4, <2>5, <2>6, <2>7
<1> QED BY <1>1, <1>2

(* A licence that is stripped bars more, not less.                             *)
LEMMA StrippedBars ==
  ASSUME BookTypeOK, Fresh, StillBarred, Stripped, UNCHANGED <<today, heard, valid>>,
         \A a \in Attempts :
           /\ opening'[a].seen = opening[a].seen /\ opening'[a].age = opening[a].age
           /\ opening'[a].barred = opening[a].barred /\ opening'[a].offline = opening[a].offline
           /\ opening'[a].at = opening[a].at \/ opening'[a].at = "failed"
  PROVE  Fresh' /\ StillBarred'
<1>1. meta' # None => meta'.validated <= heard
  BY StrippedStep DEF Fresh
<1>2. Fresh'
  BY <1>1 DEF Fresh
<1>3. \A a \in Attempts : opening'[a].barred = "copy" => meta' # None /\ meta'.revoked = TRUE
  BY StrippedStep DEF StillBarred
<1>4. \A a \in Attempts :
        opening'[a].barred = "row" => meta' # None /\ meta'.licence = TRUE /\ valid' = FALSE
  BY StrippedStep DEF StillBarred
<1>5. StillBarred'
  BY <1>3, <1>4 DEF StillBarred
<1> QED BY <1>2, <1>5

-----------------------------------------------------------------------------
LEMMA BookStep ==
  ASSUME OpeningInv, [BookNext]_openVars
  PROVE  OpeningInv'
<1> USE OpeningAssumption
<1>t. BookTypeOK /\ Fresh /\ StillBarred
  BY DEF OpeningInv
<1>o. \A a \in Attempts : opening[a] \in Opening
  BY <1>t DEF BookTypeOK
<1>1. ASSUME NEW a \in Attempts, Begin(a) PROVE OpeningInv'
  <2> DEFINE call == [NotOpening EXCEPT !.at = "asking", !.barred = Barred]
  <2>1. Barred \in {"no", "row", "copy"}
        /\ (Barred = "copy" => meta # None /\ meta.revoked = TRUE)
        /\ (Barred = "row" => meta # None /\ meta.licence = TRUE /\ valid = FALSE)
    BY <1>t DEF Barred, BookTypeOK, Meta
  <2>2. call \in Opening
    BY <2>1, NotOpeningTyped DEF Opening, Stages
  <2>3. /\ call.at = "asking" /\ call.barred = Barred /\ call.seen = 0 /\ call.age = 0
        /\ call.offline = FALSE
    BY DEF NotOpening
  <2>4. opening' = [opening EXCEPT ![a] = call]
    BY <1>1 DEF Begin
  <2> HIDE DEF call
  <2>5. opening' \in [Attempts -> Opening] /\ opening'[a] = call
        /\ \A d \in Attempts \ {a} : opening'[d] = opening[d]
    BY <1>t, <2>2, <2>4 DEF BookTypeOK
  <2>6. BookTypeOK'
    BY <1>1, <1>t, <2>5 DEF Begin, BookTypeOK
  <2>7. 0 <= heard /\ 0 < Ttl /\ UNCHANGED <<today, heard, meta>>
    BY <1>1, <1>t DEF Begin, BookTypeOK
  <2>8. Fresh'
    BY <1>t, <2>3, <2>5, <2>7 DEF Fresh
  <2>9. StillBarred'
    BY <1>1, <1>t, <2>1, <2>3, <2>5 DEF Begin, StillBarred
  <2> QED BY <2>6, <2>8, <2>9 DEF OpeningInv
<1>2. ASSUME NEW a \in Attempts, Granted(a) PROVE OpeningInv'
  <2>1. meta' = Validated /\ heard' = today /\ opening[a].at = "asking"
        /\ UNCHANGED <<today, openAccess, answer, reachable, edition, valid, locking, changed>>
    BY <1>2 DEF Granted
  <2>2. /\ meta' \in {None} \cup Meta
        /\ meta # None => /\ meta' # None /\ meta'.revoked = meta.revoked
                          /\ meta'.licence = meta.licence
        /\ meta' # None => meta'.validated \in Nat /\ meta'.validated <= today
    <3>1. CASE meta = None \/ openAccess
      <4>1. meta' = meta
        BY <2>1, <3>1 DEF Validated
      <4>2. meta # None => meta.validated \in Nat /\ meta.validated <= heard /\ heard <= today
                           /\ heard \in Nat /\ today \in Nat
        BY <1>t DEF BookTypeOK, Fresh, Meta
      <4>3. meta # None => meta.validated <= today
        BY <4>2
      <4> QED BY <1>t, <4>1, <4>2, <4>3 DEF BookTypeOK
    <3>2. CASE ~(meta = None \/ openAccess)
      <4>1. meta' = [meta EXCEPT !.validated = today] /\ meta \in Meta /\ today \in 0 .. MaxDay
        BY <1>t, <2>1, <3>2 DEF Validated, BookTypeOK
      <4>2. meta' \in Meta /\ meta'.revoked = meta.revoked /\ meta'.licence = meta.licence
            /\ meta'.validated = today
        BY <4>1 DEF Meta
      <4> QED BY <4>1, <4>2, NoMetaAssumption
    <3> QED BY <3>1, <3>2
  <2>3. /\ cache' \in {None} \cup Package
        /\ session' \in {None} \cup [key : {None} \cup Editions, plain : BOOLEAN]
        /\ opening' \in [Attempts -> Opening]
        /\ \A d \in Attempts \ {a} : opening'[d] = opening[d]
        /\ Keeps(opening[a], opening'[a])
        /\ opening'[a].at \in {"opened", "decrypting", "failed", "fetching"}
    <3>1. CASE AvailableOffline /\ OpenKept(a, opening[a])
      BY <1>t, <1>o, <3>1, OpenKeptStep
    <3>2. CASE /\ opening' = [opening EXCEPT
                    ![a].at = IF answer = "queued" THEN "failed" ELSE "fetching", ![a].key = edition]
               /\ UNCHANGED <<cache, session>>
      <4> DEFINE place == IF answer = "queued" THEN "failed" ELSE "fetching"
      <4>1. opening' = [opening EXCEPT ![a] = [opening[a] EXCEPT !.at = place, !.key = edition]]
        BY <3>2
      <4>2. place \in Stages /\ edition \in Editions /\ place \in {"failed", "fetching"}
        BY <1>t DEF Stages, BookTypeOK
      <4> HIDE DEF place
      <4>3. [opening[a] EXCEPT !.at = place, !.key = edition] \in Opening
        BY <1>o, <4>2 DEF Opening
      <4>4. Keeps(opening[a], [opening[a] EXCEPT !.at = place, !.key = edition])
            /\ [opening[a] EXCEPT !.at = place, !.key = edition].at = place
        BY <1>o DEF Opening, Keeps
      <4> QED BY <1>t, <3>2, <4>1, <4>2, <4>3, <4>4 DEF BookTypeOK
    <3> QED BY <1>2, <3>1, <3>2 DEF Granted
  <2>4. BookTypeOK'
    BY <1>t, <2>1, <2>2, <2>3 DEF BookTypeOK
  <2>5. today \in Nat /\ heard \in Nat /\ heard <= today
        /\ \A d \in Attempts : opening[d].seen \in Nat /\ opening[d].seen <= heard
    BY <1>t, <1>o DEF BookTypeOK, Fresh, Opening
  <2>6. \A d \in Attempts : opening[d].seen <= today
    BY <2>5
  <2>7. Fresh'
    <3>1. heard' <= today' /\ (meta' # None => meta'.validated <= heard')
      BY <2>1, <2>2, <2>5
    <3>2. \A d \in Attempts : opening'[d].seen = opening[d].seen /\ opening'[d].age = opening[d].age
      BY <2>3 DEF Keeps
    <3> QED BY <1>t, <2>1, <2>6, <3>1, <3>2 DEF Fresh
  <2>8. StillBarred'
    <3>1. opening[a].offline = FALSE
      BY <1>t, <2>1 DEF StillBarred
    <3> QED BY <1>t, <2>1, <2>2, <2>3, <3>1 DEF StillBarred, Keeps
  <2> QED BY <2>4, <2>7, <2>8 DEF OpeningInv
<1>3. ASSUME NEW a \in Attempts, Denied(a) \/ StreamFails(a) PROVE OpeningInv'
  <2>1. Settle(a, "failed") /\ "failed" \in Stages
    BY <1>3 DEF Denied, StreamFails, Stages
  <2>2. UNCHANGED <<today, openAccess, answer, reachable, edition, valid, meta, cache,
                    session, locking, heard, changed>>
    BY <1>3 DEF Denied, StreamFails
  <2>3. BookTypeOK'
    BY <1>t, <2>1, <2>2, SettleStep DEF BookTypeOK
  <2>4. Fresh' /\ StillBarred'
    BY <1>t, <2>1, <2>2, SettleStep, CallMoves
  <2> QED BY <2>3, <2>4 DEF OpeningInv
<1>4. ASSUME NEW a \in Attempts, Unanswered(a) PROVE OpeningInv'
  <2> DEFINE c == [opening[a] EXCEPT !.offline = TRUE]
  <2>1. /\ c \in Opening /\ c.at = "asking" /\ c.offline = TRUE /\ c.seen = opening[a].seen
        /\ c.age = opening[a].age /\ c.barred = opening[a].barred
    BY <1>4, <1>o DEF Unanswered, Opening
  <2>2. /\ UNCHANGED <<today, openAccess, answer, reachable, edition, valid, locking, heard, changed>>
        /\ meta' = meta
    BY <1>4 DEF Unanswered
  <2>3. CASE Unusable
    <3> DEFINE d == [c EXCEPT !.at = "failed"]
    <3>1. d \in Opening
      BY <2>1 DEF Opening, Stages
    <3>2. d.at = "failed" /\ d.seen = c.seen /\ d.age = c.age /\ d.barred = c.barred
      BY <2>1 DEF Opening
    <3>3. opening' = [opening EXCEPT ![a] = d] /\ UNCHANGED <<cache, session>>
      BY <1>4, <2>3 DEF Unanswered
    <3> HIDE DEF c, d
    <3>4. opening' \in [Attempts -> Opening] /\ opening'[a] = d
          /\ \A e \in Attempts \ {a} : opening'[e] = opening[e]
      BY <1>t, <3>1, <3>3 DEF BookTypeOK
    <3>5. BookTypeOK'
      BY <1>t, <2>2, <3>3, <3>4 DEF BookTypeOK
    <3>6. Fresh'
      BY <1>t, <2>1, <2>2, <3>2, <3>4 DEF Fresh
    <3>7. StillBarred'
      BY <1>t, <2>1, <2>2, <3>2, <3>4 DEF StillBarred
    <3> QED BY <3>5, <3>6, <3>7 DEF OpeningInv
  <2>4. CASE ~Unusable /\ ~meta.licence
    <3>1. OpenKept(a, c)
      BY <1>4, <2>4 DEF Unanswered
    <3> HIDE DEF c
    <3>2. /\ cache' \in {None} \cup Package
          /\ session' \in {None} \cup [key : {None} \cup Editions, plain : BOOLEAN]
          /\ opening' \in [Attempts -> Opening]
          /\ \A d \in Attempts \ {a} : opening'[d] = opening[d]
          /\ Keeps(c, opening'[a]) /\ opening'[a].at \in {"opened", "decrypting", "failed"}
      BY <1>t, <2>1, <3>1, OpenKeptStep
    <3>3. BookTypeOK'
      BY <1>t, <2>2, <3>2 DEF BookTypeOK
    <3>4. Fresh'
      BY <1>t, <2>1, <2>2, <3>2 DEF Fresh, Keeps
    <3>5. opening[a].barred = "no"
      BY <1>t, <1>o, <2>4 DEF StillBarred, Unusable, Opening
    <3>6. StillBarred'
      BY <1>t, <2>1, <2>2, <3>2, <3>5 DEF StillBarred, Keeps
    <3> QED BY <3>3, <3>4, <3>6 DEF OpeningInv
  <2>5. CASE ~Unusable /\ meta.licence
    <3> DEFINE d == [c EXCEPT !.at = "deciding", !.seen = meta.validated]
    <3>1. meta \in Meta /\ meta.validated \in 0 .. MaxDay /\ meta.validated <= heard
      BY <1>t, <2>5 DEF Unusable, BookTypeOK, Meta, Fresh
    <3>2. d \in Opening /\ d.at = "deciding" /\ d.seen = meta.validated /\ d.age = c.age
          /\ d.barred = c.barred
      BY <2>1, <3>1 DEF Opening, Stages
    <3>3. opening' = [opening EXCEPT ![a] = d] /\ UNCHANGED <<cache, session>>
      BY <1>4, <2>5 DEF Unanswered
    <3> HIDE DEF d, c
    <3>4. opening' \in [Attempts -> Opening] /\ opening'[a] = d
          /\ \A e \in Attempts \ {a} : opening'[e] = opening[e]
      BY <1>t, <3>2, <3>3 DEF BookTypeOK
    <3>5. BookTypeOK'
      BY <1>t, <2>2, <3>3, <3>4 DEF BookTypeOK
    <3>6. Fresh'
      BY <1>t, <2>1, <2>2, <3>1, <3>2, <3>4 DEF Fresh
    <3>7. opening[a].barred # "copy"
      BY <1>t, <2>5 DEF StillBarred, Unusable
    <3>8. StillBarred'
      BY <1>t, <2>1, <2>2, <3>2, <3>4, <3>7 DEF StillBarred
    <3> QED BY <3>5, <3>6, <3>8 DEF OpeningInv
  <2> QED BY <2>3, <2>4, <2>5
<1>5. ASSUME NEW a \in Attempts, Decide(a) PROVE OpeningInv'
  <2>1. /\ UNCHANGED <<today, openAccess, answer, reachable, edition, valid, locking, heard, changed>>
        /\ meta' = meta /\ opening[a].at = "deciding"
    BY <1>5 DEF Decide
  <2>2. CASE ~valid
    <3>1. Settle(a, "invalidating") /\ cache' = Closed(cache) /\ session' = None
          /\ "invalidating" \in Stages
      BY <1>5, <2>2 DEF Decide, Stages
    <3>2. BookTypeOK'
      BY <1>t, <2>1, <3>1, SettleStep, ClosedTyped DEF BookTypeOK
    <3>3. Fresh' /\ StillBarred'
      BY <1>t, <2>1, <3>1, SettleStep, CallMoves
    <3> QED BY <3>2, <3>3 DEF OpeningInv
  <2>3. CASE valid /\ WindowLapsed(a)
    <3>1. Settle(a, "failed") /\ UNCHANGED <<cache, session>> /\ "failed" \in Stages
      BY <1>5, <2>3 DEF Decide, Stages
    <3>2. BookTypeOK'
      BY <1>t, <2>1, <3>1, SettleStep DEF BookTypeOK
    <3>3. Fresh' /\ StillBarred'
      BY <1>t, <2>1, <3>1, SettleStep, CallMoves
    <3> QED BY <3>2, <3>3 DEF OpeningInv
  <2>4. CASE valid /\ ~WindowLapsed(a)
    <3> DEFINE age == IF today >= heard THEN today - heard ELSE 0
               c == [opening[a] EXCEPT !.age = age]
    <3>1. /\ today \in 0 .. MaxDay /\ heard \in 0 .. MaxDay /\ opening[a].seen \in 0 .. MaxDay
          /\ opening[a].seen <= heard /\ today < opening[a].seen + Ttl
      BY <1>t, <1>o, <2>4 DEF BookTypeOK, Fresh, Opening, WindowLapsed
    <3>2. age \in 0 .. MaxDay /\ age < Ttl
      BY <3>1
    <3>3. OpenKept(a, c)
      BY <1>5, <2>4 DEF Decide
    <3> HIDE DEF age
    <3>4. /\ c \in Opening /\ c.offline = opening[a].offline /\ c.seen = opening[a].seen
          /\ c.age = age /\ c.barred = opening[a].barred
      BY <1>o, <3>2 DEF Opening
    <3> HIDE DEF c
    <3>5. /\ cache' \in {None} \cup Package
          /\ session' \in {None} \cup [key : {None} \cup Editions, plain : BOOLEAN]
          /\ opening' \in [Attempts -> Opening]
          /\ \A d \in Attempts \ {a} : opening'[d] = opening[d]
          /\ Keeps(c, opening'[a]) /\ opening'[a].at \in {"opened", "decrypting", "failed"}
      BY <1>t, <3>3, <3>4, OpenKeptStep
    <3>6. BookTypeOK'
      BY <1>t, <2>1, <3>5 DEF BookTypeOK
    <3>7. Fresh'
      BY <1>t, <2>1, <3>1, <3>2, <3>4, <3>5 DEF Fresh, Keeps
    <3>8. opening[a].barred = "no"
      BY <1>t, <1>o, <2>1, <2>4 DEF StillBarred, Opening
    <3>9. StillBarred'
      BY <1>t, <2>1, <3>4, <3>5, <3>8 DEF StillBarred, Keeps
    <3> QED BY <3>6, <3>7, <3>9 DEF OpeningInv
  <2> QED BY <2>2, <2>3, <2>4
<1>6. ASSUME NEW a \in Attempts, Invalidated(a) PROVE OpeningInv'
  <2>1. Settle(a, "failed") /\ Stripped /\ "failed" \in Stages
        /\ UNCHANGED <<today, openAccess, answer, reachable, edition, valid, session, locking,
                       heard, changed>>
    BY <1>6 DEF Invalidated, Stages
  <2>2. BookTypeOK'
    BY <1>t, <2>1, SettleStep, StrippedStep DEF BookTypeOK
  <2>s. /\ \A d \in Attempts \ {a} : opening'[d] = opening[d]
        /\ Keeps(opening[a], opening'[a]) /\ opening'[a].at = "failed"
    BY <1>t, <2>1, SettleStep
  <2>3. Fresh' /\ StillBarred'
    BY <1>t, <2>1, <2>s, StrippedBars DEF Keeps
  <2> QED BY <2>2, <2>3 DEF OpeningInv
<1>7. ASSUME NEW a \in Attempts, Streamed(a) PROVE OpeningInv'
  <2> DEFINE p == [kept |-> FALSE, key |-> opening[a].key, text |-> edition]
  <2>1. p \in Package
    BY <1>t, <1>o DEF Package, BookTypeOK, Opening
  <2>2. Decrypting(a, opening[a], p) /\ meta' = meta /\ opening[a].at = "fetching"
        /\ UNCHANGED <<today, openAccess, answer, reachable, edition, valid, locking, heard, changed>>
    BY <1>7 DEF Streamed
  <2> HIDE DEF p
  <2>3. /\ cache' \in {None} \cup Package
        /\ session' \in {None} \cup [key : {None} \cup Editions, plain : BOOLEAN]
        /\ opening' \in [Attempts -> Opening]
        /\ \A d \in Attempts \ {a} : opening'[d] = opening[d]
        /\ Keeps(opening[a], opening'[a]) /\ opening'[a].at \in {"opened", "decrypting"}
    BY <1>t, <1>o, <2>1, <2>2, DecryptingStep
  <2>4. ~(opening[a].barred # "no" /\ opening[a].offline = TRUE)
    BY <1>t, <2>2 DEF StillBarred
  <2>5. BookTypeOK'
    BY <1>t, <2>2, <2>3 DEF BookTypeOK
  <2>6. Fresh' /\ StillBarred'
    BY <2>2, <2>3, <2>4, CallMoves
  <2> QED BY <2>5, <2>6 DEF OpeningInv
<1>8. ASSUME NEW a \in Attempts, Decrypted(a) PROVE OpeningInv'
  <2>1. PICK place \in {"opened", "failed"} : Settle(a, place)
    BY <1>8 DEF Decrypted
  <2>2. place \in Stages
    BY DEF Stages
  <2>3. /\ UNCHANGED <<today, openAccess, answer, reachable, edition, valid, cache, locking, heard, changed>>
        /\ meta' = meta /\ opening[a].at = "decrypting"
    BY <1>8 DEF Decrypted
  <2>4. session' \in {None} \cup [key : {None} \cup Editions, plain : BOOLEAN]
    BY <1>8, <1>t DEF Decrypted, BookTypeOK
  <2>5. BookTypeOK'
    BY <1>t, <2>1, <2>2, <2>3, <2>4, SettleStep DEF BookTypeOK
  <2>6. ~(opening[a].barred # "no" /\ opening[a].offline = TRUE)
    BY <1>t, <2>3 DEF StillBarred
  <2>7. Fresh' /\ StillBarred'
    BY <1>t, <2>1, <2>2, <2>3, <2>6, SettleStep, CallMoves
  <2> QED BY <2>5, <2>7 DEF OpeningInv
<1>9. ASSUME NEW a \in Attempts, Again(a) PROVE OpeningInv'
  <2>1. opening' = [opening EXCEPT ![a] = NotOpening]
        /\ UNCHANGED <<today, openAccess, answer, reachable, edition, valid, locking, heard, changed>>
        /\ meta' = meta
    BY <1>9 DEF Again
  <2>2. opening' \in [Attempts -> Opening] /\ opening'[a] = NotOpening
        /\ \A d \in Attempts \ {a} : opening'[d] = opening[d]
    BY <1>t, <2>1, NotOpeningTyped DEF BookTypeOK
  <2>3. cache' \in {None} \cup Package
        /\ session' \in {None} \cup [key : {None} \cup Editions, plain : BOOLEAN]
    BY <1>9, <1>t, ClosedTyped DEF Again, BookTypeOK
  <2>4. BookTypeOK'
    BY <1>t, <2>1, <2>2, <2>3 DEF BookTypeOK
  <2>5. /\ NotOpening.seen = 0 /\ NotOpening.age = 0 /\ NotOpening.barred = "no"
        /\ NotOpening.at = "idle" /\ NotOpening.offline = FALSE
    BY DEF NotOpening
  <2>6. 0 <= heard
    BY <1>t DEF BookTypeOK
  <2>7. Fresh'
    BY <1>t, <2>1, <2>2, <2>5, <2>6 DEF Fresh
  <2>8. StillBarred'
    BY <1>t, <2>1, <2>2, <2>5 DEF StillBarred
  <2> QED BY <2>4, <2>7, <2>8 DEF OpeningInv
<1>w. /\ today \in Nat /\ heard \in Nat /\ heard <= today /\ today <= today /\ heard <= heard
      /\ meta # None => meta.validated \in Nat /\ meta.validated <= heard
  BY <1>t DEF BookTypeOK, Fresh, Meta
<1>10. CASE Download
  <2> DEFINE m == [licence |-> ~openAccess, revoked |-> FALSE, validated |-> today, edition |-> edition]
  <2>1. m \in Meta /\ m.validated = today
    BY <1>t DEF Meta, BookTypeOK
  <2>2. meta' = m /\ heard' = today /\ valid' = TRUE /\ cache' = Kept(meta')
        /\ UNCHANGED <<today, openAccess, answer, reachable, edition, session, locking, changed>>
    BY <1>10 DEF Download
  <2> HIDE DEF m
  <2>3. cache' \in Package
    BY <2>1, <2>2 DEF Kept, Package, Meta
  <2>4. ASSUME NEW a \in Attempts
        PROVE  /\ [opening[a] EXCEPT !.barred = "no"] \in Opening
               /\ opening'[a] = [opening[a] EXCEPT !.barred = "no"]
               /\ opening'[a].at = opening[a].at /\ opening'[a].offline = opening[a].offline
               /\ opening'[a].seen = opening[a].seen /\ opening'[a].age = opening[a].age
               /\ opening'[a].barred = "no"
    BY <1>10, <1>o DEF Download, Opening
  <2>5. opening' \in [Attempts -> Opening]
    BY <1>10, <2>4 DEF Download
  <2>6. BookTypeOK'
    BY <1>t, <2>1, <2>2, <2>3, <2>5 DEF BookTypeOK
  <2>7. Fresh' /\ StillBarred'
    BY <1>w, <2>1, <2>2, <2>4, <2>5, WorldMoves
  <2> QED BY <2>6, <2>7 DEF OpeningInv
<1>11. CASE LockBegins
  <2>1. BookTypeOK'
    BY <1>11, <1>t, ClosedTyped DEF LockBegins, BookTypeOK
  <2>2. UNCHANGED <<today, heard, meta, valid, opening>>
    BY <1>11 DEF LockBegins
  <2> QED BY <1>t, <2>1, <2>2 DEF OpeningInv, Fresh, StillBarred
<1>12. CASE LockEnds
  <2>1. Stripped /\ locking' = FALSE
        /\ UNCHANGED <<today, openAccess, answer, reachable, edition, valid, session, opening,
                       heard, changed>>
    BY <1>12 DEF LockEnds
  <2>2. BookTypeOK'
    BY <1>t, <2>1, StrippedStep DEF BookTypeOK
  <2>3. Fresh' /\ StillBarred'
    BY <1>t, <2>1, StrippedBars
  <2> QED BY <2>2, <2>3 DEF OpeningInv
<1>13. CASE PullLicence
  <2>1. valid' = ~valid /\ valid' \in BOOLEAN /\ changed' \in 0 .. MaxChanges
        /\ UNCHANGED <<today, openAccess, answer, reachable, edition, meta, cache, session,
                       locking, heard>>
    BY <1>13, <1>t DEF PullLicence, BookTypeOK
  <2>2. ASSUME NEW a \in Attempts
        PROVE  /\ opening'[a] \in Opening
               /\ opening'[a].at = opening[a].at /\ opening'[a].offline = opening[a].offline
               /\ opening'[a].seen = opening[a].seen /\ opening'[a].age = opening[a].age
               /\ opening'[a].barred \in {"no", opening[a].barred}
               /\ opening'[a].barred = "row" => valid' = FALSE
    <3> DEFINE b == IF opening[a].barred = "row" /\ valid' THEN "no" ELSE opening[a].barred
    <3>1. opening'[a] = [opening[a] EXCEPT !.barred = b]
      BY <1>13 DEF PullLicence
    <3>2. b \in {"no", opening[a].barred} /\ (b = "row" => valid' = FALSE)
          /\ b \in {"no", "row", "copy"}
      BY <1>o, <2>1 DEF Opening
    <3> HIDE DEF b
    <3> QED BY <1>o, <3>1, <3>2 DEF Opening
  <2>3. opening' \in [Attempts -> Opening]
    <3>1. opening' = [a \in Attempts |-> opening'[a]]
      BY <1>13 DEF PullLicence
    <3> QED BY <2>2, <3>1
  <2>4. BookTypeOK'
    BY <1>t, <2>1, <2>3 DEF BookTypeOK
  <2>5. \A a \in Attempts : opening'[a].barred = "copy" => meta' # None /\ meta'.revoked = TRUE
    BY <1>t, <2>1, <2>2 DEF StillBarred
  <2>6. \A a \in Attempts :
          opening'[a].barred = "row" => meta' # None /\ meta'.licence = TRUE /\ valid' = FALSE
    BY <1>t, <2>1, <2>2 DEF StillBarred
  <2>7. Fresh' /\ StillBarred'
    BY <1>w, <2>1, <2>2, <2>3, <2>5, <2>6, WorldMoves
  <2> QED BY <2>4, <2>7 DEF OpeningInv
<1>14. CASE Restart
  <2>1. opening' = [a \in Attempts |-> NotOpening] /\ changed' \in 0 .. MaxChanges
        /\ cache' = None /\ session' = None /\ locking' = FALSE
        /\ UNCHANGED <<today, openAccess, answer, reachable, edition, valid, meta, heard>>
    BY <1>14, <1>t DEF Restart, BookTypeOK
  <2>2. opening' \in [Attempts -> Opening]
    BY <2>1, NotOpeningTyped
  <2>3. BookTypeOK'
    BY <1>t, <2>1, <2>2 DEF BookTypeOK
  <2>4. \A a \in Attempts : opening'[a] = NotOpening /\ opening'[a].barred = "no"
    BY <2>1 DEF NotOpening
  <2>5. Fresh' /\ StillBarred'
    BY <1>w, <2>1, <2>2, <2>4, WorldMoves
  <2> QED BY <2>3, <2>5 DEF OpeningInv
<1>15. CASE Tomorrow
  <2>1. today' = today + 1 /\ today' \in 0 .. MaxDay
        /\ UNCHANGED <<openAccess, answer, reachable, edition, valid, meta, cache, session,
                       locking, opening, heard, changed>>
    BY <1>15, <1>t DEF Tomorrow, BookTypeOK
  <2>2. BookTypeOK'
    BY <1>t, <2>1 DEF BookTypeOK
  <2>3. heard' <= today'
    BY <1>w, <2>1
  <2> QED BY <1>t, <2>1, <2>2, <2>3 DEF OpeningInv, Fresh, StillBarred
<1>16. CASE ServerDecides \/ Encrypt \/ Network
  <2>a. ASSUME ServerDecides PROVE BookTypeOK'
    BY <2>a, <1>t DEF ServerDecides, BookTypeOK
  <2>b. ASSUME Encrypt PROVE BookTypeOK'
    <3>1. edition' \in Editions
      BY <2>b, <1>t DEF Encrypt, BookTypeOK, Editions
    <3> QED BY <2>b, <3>1, <1>t DEF Encrypt, BookTypeOK
  <2>c. ASSUME Network PROVE BookTypeOK'
    BY <2>c, <1>t DEF Network, BookTypeOK
  <2>1. BookTypeOK'
    BY <1>16, <2>a, <2>b, <2>c
  <2>2. UNCHANGED <<today, heard, meta, valid, opening>>
    BY <1>16 DEF ServerDecides, Encrypt, Network
  <2> QED BY <1>t, <2>1, <2>2 DEF OpeningInv, Fresh, StillBarred
<1>17. CASE UNCHANGED openVars
  <2>1. BookTypeOK'
    BY <1>17, <1>t DEF openVars, BookTypeOK
  <2>2. UNCHANGED <<today, heard, meta, valid, opening>>
    BY <1>17 DEF openVars
  <2> QED BY <1>t, <2>1, <2>2 DEF OpeningInv, Fresh, StillBarred
<1> QED
  BY <1>1, <1>2, <1>3, <1>4, <1>5, <1>6, <1>7, <1>8, <1>9, <1>10, <1>11, <1>12, <1>13,
     <1>14, <1>15, <1>16, <1>17
  DEF BookNext, CallStep

-----------------------------------------------------------------------------
THEOREM OpeningInvariance == BookSpec => []OpeningInv
BY BookBegins, BookStep, PTL DEF BookSpec

(* The book, its kept copy and the opens keep their types.                     *)
THEOREM OpeningTypeCorrect == BookSpec => []BookTypeOK
<1>1. OpeningInv => BookTypeOK
  BY DEF OpeningInv
<1> QED BY <1>1, OpeningInvariance, PTL

(* A book under a licence opens without the server only within the window     *)
(* since the server last allowed it, and never once it was revoked.           *)
THEOREM OpenedOfflineIsAllowed == BookSpec => []OfflineIsAllowed
<1>1. OpeningInv => OfflineIsAllowed
  <2> SUFFICES ASSUME OpeningInv PROVE OfflineIsAllowed
    OBVIOUS
  <2>1. OfflineIsFresh
    BY DEF OpeningInv, Fresh, OfflineIsFresh
  <2>2. ASSUME NEW a \in Attempts, opening[a].barred # "no", opening[a].offline
        PROVE  opening[a].at # "opened"
    <3>1. opening[a].offline \in BOOLEAN
      BY DEF OpeningInv, BookTypeOK, Opening
    <3>2. opening[a].offline = TRUE
      BY <2>2, <3>1
    <3> QED BY <2>2, <3>2 DEF OpeningInv, StillBarred
  <2> QED BY <2>1, <2>2 DEF OfflineIsAllowed, RevokedNeedsTheServer
<1> QED BY <1>1, OpeningInvariance, PTL

-----------------------------------------------------------------------------
(* ReaderSession.                                                           *)

(* The reader has been told as often as the screen was locked.                *)
ToldOnce ==
  \A s \in Screens : /\ Locked(s) => ~HoldsBook(s) /\ screen[s].told = 1
                     /\ ~Locked(s) => screen[s].told = 0

(* A book on screen is a mounted screen's, and watched, awake or asleep.      *)
Watched ==
  \A s \in Screens : HoldsBook(s) =>
    /\ Mounted(s)
    /\ monitor[s].at \in {"armed", "paused"}
    /\ device.front = TRUE => monitor[s].at = "armed"

(* Without a leak nothing goes on for a screen that was left, and memory is   *)
(* in use only while a screen is mounted.                                     *)
Quiet ==
  /\ \A s \in Screens : screen[s].at = "none" => screen[s].open = "idle"
  /\ leaks = {} => \A s \in Screens : screen[s].at = "gone" =>
       screen[s].open = "idle" /\ monitor[s].at \in {"none", "stopped"}
  /\ leaks = {} /\ (\A s \in Screens : ~Mounted(s)) => text = "closed"

ReaderInv == ReaderTypeOK /\ ToldOnce /\ Watched /\ Quiet

-----------------------------------------------------------------------------
LEMMA ReaderBegins == ReaderInit => ReaderInv
<1> SUFFICES ASSUME ReaderInit PROVE ReaderInv
  OBVIOUS
<1>1. NoScreen \in Screen /\ NoMonitor \in Monitor
  BY DEF NoScreen, NoMonitor, Screen, Monitor
<1>2. 0 \in 0 .. MaxFlips /\ 0 \in 0 .. MaxOutages /\ 0 \in 0 .. MaxRulings
  BY ReaderBoundsAssumption
<1>3. ReaderTypeOK
  BY <1>1, <1>2 DEF ReaderInit, ReaderTypeOK
<1>4. ToldOnce /\ Watched /\ Quiet
  BY DEF ReaderInit, ToldOnce, Watched, Quiet, NoScreen, NoMonitor, Locked, HoldsBook, Mounted
<1> QED BY <1>3, <1>4 DEF ReaderInv

(* A step of one screen that neither locks it nor shows it the book.          *)
LEMMA ScreenMoves ==
  ASSUME ReaderInv, NEW s \in Screens, NEW c \in Screen,
         screen' = [screen EXCEPT ![s] = c],
         c.told = screen[s].told,
         "locked" \in c.marks <=> Locked(s), "holds" \in c.marks <=> HoldsBook(s),
         c.at = screen[s].at \/ c.at \in {"preparing", "shell", "failed"},
         c.at = "none" => c.open = "idle",
         screen[s].open = "idle" /\ c.at = "gone" => c.open = "idle",
         text' = text \/ c.at \in {"preparing", "shell", "failed"} \/ screen[s].open # "idle",
         text' \in {"closed", "open", "decrypted"},
         screen[s].at = "gone" => c.at = "gone",
         UNCHANGED <<monitor, Environment, leaks>>
  PROVE  ReaderInv'
<1>1. /\ screen' \in [Screens -> Screen] /\ screen'[s] = c
      /\ \A t \in Screens \ {s} : screen'[t] = screen[t]
  BY DEF ReaderInv, ReaderTypeOK
<1>2. ReaderTypeOK'
  BY <1>1 DEF ReaderInv, ReaderTypeOK, Environment
<1>3. ToldOnce'
  BY <1>1 DEF ReaderInv, ToldOnce, Locked, HoldsBook
<1>4. Watched'
  BY <1>1 DEF ReaderInv, Watched, HoldsBook, Mounted, Environment
<1>5. (\A t \in Screens : screen[t].at = "none" => screen[t].open = "idle")'
  BY <1>1 DEF ReaderInv, Quiet
<1>6. (leaks = {} => \A t \in Screens : screen[t].at = "gone" =>
         screen[t].open = "idle" /\ monitor[t].at \in {"none", "stopped"})'
  BY <1>1 DEF ReaderInv, Quiet
<1>7. (leaks = {} /\ (\A t \in Screens : ~Mounted(t)) => text = "closed")'
  <2> SUFFICES ASSUME leaks = {}, \A t \in Screens : ~Mounted(t)' PROVE text' = "closed"
    OBVIOUS
  <2>1. ~Mounted(s)' /\ c.at \notin {"preparing", "shell", "failed"} /\ c.at = screen[s].at
    BY <1>1 DEF Mounted
  <2>2. \A t \in Screens : ~Mounted(t)
    BY <1>1, <2>1 DEF Mounted
  <2>3. text = "closed"
    BY <2>2 DEF ReaderInv, Quiet
  <2>4. screen[s].at \in {"none", "gone"}
    BY <2>2 DEF Mounted, ReaderInv, ReaderTypeOK, Screen
  <2>5. screen[s].open = "idle"
    BY <2>4 DEF ReaderInv, Quiet
  <2> QED BY <2>1, <2>3, <2>5
<1> QED BY <1>2, <1>3, <1>4, <1>5, <1>6, <1>7 DEF ReaderInv, Quiet

(* The screen is torn down: told once, and shut.                              *)
LEMMA TornDown ==
  ASSUME ReaderInv, NEW s \in Screens
  PROVE  /\ TearDown(s) \in Screen
         /\ "locked" \in TearDown(s).marks /\ "holds" \notin TearDown(s).marks
         /\ TearDown(s).told = 1
         /\ TearDown(s).at = screen[s].at /\ TearDown(s).open = screen[s].open
<1>1. screen[s] \in Screen
  BY DEF ReaderInv, ReaderTypeOK
<1>2. (Locked(s) => screen[s].told = 1) /\ (~Locked(s) => screen[s].told = 0)
  BY DEF ReaderInv, ToldOnce
<1> DEFINE told == IF Locked(s) THEN screen[s].told ELSE screen[s].told + 1
           marks == (screen[s].marks \union {"locked"}) \ {"holds"}
<1>3. told = 1
  BY <1>2
<1>4. marks \in SUBSET {"ready", "late", "holds", "locked"} /\ "locked" \in marks /\ "holds" \notin marks
  BY <1>1 DEF Screen
<1>5. TearDown(s) = [screen[s] EXCEPT !.marks = marks, !.told = told]
  BY DEF TearDown
<1> HIDE DEF told, marks
<1>6. /\ TearDown(s).marks = marks /\ TearDown(s).told = told
      /\ TearDown(s).at = screen[s].at /\ TearDown(s).open = screen[s].open
  BY <1>1, <1>5 DEF Screen
<1>7. TearDown(s) \in Screen
  <2>1. told \in 0 .. 2
    BY <1>3
  <2>2. [screen[s] EXCEPT !.marks = marks] \in Screen
    BY <1>1, <1>4 DEF Screen
  <2>3. [[screen[s] EXCEPT !.marks = marks] EXCEPT !.told = told] \in Screen
    BY <2>1, <2>2 DEF Screen
  <2>4. [[screen[s] EXCEPT !.marks = marks] EXCEPT !.told = told] = TearDown(s)
    BY <1>1, <1>5 DEF Screen
  <2> QED BY <2>3, <2>4
<1> QED BY <1>3, <1>4, <1>6, <1>7

-----------------------------------------------------------------------------
LEMMA ReaderStep ==
  ASSUME ReaderInv, [ReaderNext]_readerVars
  PROVE  ReaderInv'
<1>t. ReaderTypeOK /\ ToldOnce /\ Watched /\ Quiet
  BY DEF ReaderInv
<1>s. \A s \in Screens : screen[s] \in Screen /\ monitor[s] \in Monitor
  BY <1>t DEF ReaderTypeOK
<1>x. Opened \in {"closed", "open", "decrypted"}
  BY <1>t DEF Opened, ReaderTypeOK
<1>1. ASSUME NEW s \in Screens, ReaderMounts(s) PROVE ReaderInv'
  <2> DEFINE c == [screen[s] EXCEPT !.at = "preparing"]
  <2>1. /\ c \in Screen /\ c.at = "preparing" /\ c.open = screen[s].open
        /\ c.marks = screen[s].marks /\ c.told = screen[s].told
    BY <1>s DEF Screen
  <2>2. screen' = [screen EXCEPT ![s] = c] /\ text' = Opened /\ screen[s].at = "none"
        /\ UNCHANGED <<monitor, Environment, leaks>>
    BY <1>1 DEF ReaderMounts
  <2> HIDE DEF c
  <2> QED BY <1>x, <2>1, <2>2, ScreenMoves DEF Locked, HoldsBook
<1>2. ASSUME NEW s \in Screens, Prepared(s) PROVE ReaderInv'
  <2>1. PICK at \in {"shell", "failed"} : screen' = [screen EXCEPT ![s].at = at]
    BY <1>2 DEF Prepared
  <2> DEFINE c == [screen[s] EXCEPT !.at = at]
  <2>2. /\ c \in Screen /\ c.at = at /\ c.open = screen[s].open
        /\ c.marks = screen[s].marks /\ c.told = screen[s].told
    BY <1>s DEF Screen
  <2>3. screen' = [screen EXCEPT ![s] = c] /\ screen[s].at = "preparing" /\ text' = text
        /\ UNCHANGED <<monitor, Environment, leaks>>
    BY <1>2, <2>1 DEF Prepared
  <2>4. text \in {"closed", "open", "decrypted"}
    BY <1>t DEF ReaderTypeOK
  <2> HIDE DEF c
  <2> QED BY <2>2, <2>3, <2>4, ScreenMoves DEF Locked, HoldsBook
<1>3. ASSUME NEW s \in Screens, WebViewReady(s) PROVE ReaderInv'
  <2> DEFINE c == [screen[s] EXCEPT !.open = "appearance", !.marks = @ \union {"ready"}]
  <2>1. /\ c \in Screen /\ c.at = screen[s].at /\ c.open = "appearance"
        /\ c.marks = screen[s].marks \union {"ready"} /\ c.told = screen[s].told
    BY <1>s DEF Screen
  <2>2. screen' = [screen EXCEPT ![s] = c] /\ screen[s].at = "shell" /\ text' = text
        /\ UNCHANGED <<monitor, Environment, leaks>>
    BY <1>3 DEF WebViewReady
  <2>3. text \in {"closed", "open", "decrypted"}
    BY <1>t DEF ReaderTypeOK
  <2> HIDE DEF c
  <2> QED BY <2>1, <2>2, <2>3, ScreenMoves DEF Locked, HoldsBook
<1>o. ASSUME NEW s \in Screens, NEW place \in {"idle", "verify", "decrypt"},
             screen[s].open # "idle", screen' = [screen EXCEPT ![s].open = place],
             text' \in {"closed", "open", "decrypted"},
             UNCHANGED <<monitor, Environment, leaks>>
      PROVE  ReaderInv'
  <2> DEFINE c == [screen[s] EXCEPT !.open = place]
  <2>1. /\ c \in Screen /\ c.at = screen[s].at /\ c.open = place
        /\ c.marks = screen[s].marks /\ c.told = screen[s].told
    BY <1>s DEF Screen
  <2>2. screen' = [screen EXCEPT ![s] = c]
    BY <1>o
  <2>3. screen[s].at # "none"
    BY <1>t, <1>o DEF Quiet
  <2> HIDE DEF c
  <2> QED BY <1>o, <2>1, <2>2, <2>3, ScreenMoves DEF Locked, HoldsBook
<1>4. ASSUME NEW s \in Screens, AppearanceApplied(s) PROVE ReaderInv'
  <2>1. PICK place \in {"idle", "verify"} : screen' = [screen EXCEPT ![s].open = place]
    BY <1>4 DEF AppearanceApplied
  <2>2. text' = text /\ text \in {"closed", "open", "decrypted"} /\ screen[s].open # "idle"
        /\ UNCHANGED <<monitor, Environment, leaks>>
    BY <1>4, <1>t DEF AppearanceApplied, ReaderTypeOK
  <2> QED BY <2>1, <2>2, <1>o
<1>5. ASSUME NEW s \in Screens, AccessVerified(s) PROVE ReaderInv'
  <2>1. PICK place \in {"idle", "decrypt"} : screen' = [screen EXCEPT ![s].open = place]
    BY <1>5 DEF AccessVerified
  <2>2. text' \in {"closed", "open", "decrypted"} /\ screen[s].open # "idle"
        /\ UNCHANGED <<monitor, Environment, leaks>>
    BY <1>5, <1>t, <1>x DEF AccessVerified, ReaderTypeOK
  <2> QED BY <2>1, <2>2, <1>o
<1>6. ASSUME NEW s \in Screens, BytesArrive(s) PROVE ReaderInv'
  <2>1. text' \in {"closed", "open", "decrypted"} /\ screen[s].open = "decrypt"
        /\ UNCHANGED <<Environment, leaks>>
    BY <1>6, <1>t DEF BytesArrive, ReaderTypeOK
  <2>2. CASE ~MayOpen(s)
    BY <1>6, <2>1, <2>2, <1>o DEF BytesArrive
  <2>3. CASE MayOpen(s)
    <3> DEFINE marks == IF Mounted(s) THEN screen[s].marks \union {"holds"} ELSE screen[s].marks
               c == [screen[s] EXCEPT !.open = "idle", !.marks = marks]
               m == [at |-> "armed", tick |-> "idle"]
    <3>1. marks \in SUBSET {"ready", "late", "holds", "locked"} /\ "locked" \notin marks
          /\ ("holds" \in marks => Mounted(s) \/ HoldsBook(s))
      BY <1>s, <2>3 DEF Screen, MayOpen, Locked, HoldsBook
    <3>2. screen' = [screen EXCEPT ![s] = c] /\ monitor' = [monitor EXCEPT ![s] = m]
      BY <1>6, <2>3 DEF BytesArrive, Watch
    <3> HIDE DEF marks
    <3>3. /\ c \in Screen /\ c.at = screen[s].at /\ c.open = "idle"
          /\ c.marks = marks /\ c.told = screen[s].told
      BY <1>s, <3>1 DEF Screen
    <3>4. m \in Monitor /\ m.at = "armed"
      BY DEF Monitor
    <3> HIDE DEF c, m
    <3>5. /\ screen' \in [Screens -> Screen] /\ screen'[s] = c
          /\ \A t \in Screens \ {s} : screen'[t] = screen[t]
          /\ monitor' \in [Screens -> Monitor] /\ monitor'[s] = m
          /\ \A t \in Screens \ {s} : monitor'[t] = monitor[t]
      BY <1>t, <3>2, <3>3, <3>4 DEF ReaderTypeOK
    <3>6. ReaderTypeOK'
      BY <1>t, <2>1, <3>5 DEF ReaderTypeOK, Environment
    <3>7. ToldOnce'
      BY <1>t, <2>3, <3>1, <3>3, <3>5 DEF ToldOnce, Locked, HoldsBook, MayOpen
    <3>8. Watched'
      BY <1>t, <2>1, <3>1, <3>3, <3>4, <3>5 DEF Watched, HoldsBook, Mounted, Environment
    <3>9. leaks' = {} => screen[s].at # "gone" /\ screen[s].at # "none"
      BY <1>t, <2>1 DEF Quiet
    <3>10. leaks' = {} => Mounted(s) /\ Mounted(s)'
      BY <1>s, <3>3, <3>5, <3>9 DEF Mounted, Screen
    <3>11. Quiet'
      BY <1>t, <2>1, <3>3, <3>5, <3>9, <3>10 DEF Quiet
    <3> QED BY <3>6, <3>7, <3>8, <3>11 DEF ReaderInv
  <2> QED BY <2>2, <2>3
<1>7. ASSUME NEW s \in Screens, BytesFail(s) PROVE ReaderInv'
  <2>1. screen' = [screen EXCEPT ![s].open = "idle"] /\ screen[s].open # "idle"
        /\ text' = text /\ text \in {"closed", "open", "decrypted"}
        /\ UNCHANGED <<monitor, Environment, leaks>>
    BY <1>7, <1>t DEF BytesFail, ReaderTypeOK
  <2> QED BY <2>1, <1>o
<1>8. ASSUME NEW s \in Screens, OpenTimesOut(s) PROVE ReaderInv'
  <2> DEFINE c == [screen[s] EXCEPT !.marks = @ \union {"late"}]
  <2>1. /\ c \in Screen /\ c.at = screen[s].at /\ c.open = screen[s].open
        /\ c.marks = screen[s].marks \union {"late"} /\ c.told = screen[s].told
    BY <1>s DEF Screen
  <2>2. screen' = [screen EXCEPT ![s] = c] /\ text' = text /\ screen[s].open # "idle"
        /\ UNCHANGED <<monitor, Environment, leaks>>
    BY <1>8 DEF OpenTimesOut
  <2>3. text \in {"closed", "open", "decrypted"} /\ screen[s].at # "none"
    BY <1>t, <2>2 DEF ReaderTypeOK, Quiet
  <2> HIDE DEF c
  <2> QED BY <2>1, <2>2, <2>3, ScreenMoves DEF Locked, HoldsBook
<1>9. CASE ContentLock
  <2>1. \A s \in Screens : Stopped(monitor[s]) \in Monitor
                           /\ Stopped(monitor[s]).at \in {"none", "stopped"}
    BY <1>s DEF Stopped, Monitor
  <2>2. ASSUME NEW s \in Screens
        PROVE  /\ screen'[s] \in Screen /\ monitor'[s] \in Monitor
               /\ screen'[s].at = screen[s].at /\ screen'[s].open = screen[s].open
               /\ Mounted(s) => /\ "locked" \in screen'[s].marks /\ "holds" \notin screen'[s].marks
                                /\ screen'[s].told = 1
               /\ ~Mounted(s) => screen'[s] = screen[s] /\ monitor'[s] = monitor[s]
    BY <1>9, <1>s, <2>1, TornDown DEF ContentLock
  <2>3. /\ screen' \in [Screens -> Screen] /\ monitor' \in [Screens -> Monitor]
        /\ text' = "closed" /\ rights' = "void" /\ UNCHANGED <<device, access, changes, leaks>>
    BY <1>9, <2>2 DEF ContentLock
  <2>4. ReaderTypeOK'
    BY <1>t, <2>3 DEF ReaderTypeOK
  <2>5. ToldOnce'
    BY <1>t, <2>2 DEF ToldOnce, Locked, HoldsBook
  <2>6. Watched'
    BY <1>t, <2>2 DEF Watched, HoldsBook, Mounted
  <2>7. Quiet'
    BY <1>t, <2>2, <2>3 DEF Quiet, Mounted
  <2> QED BY <2>4, <2>5, <2>6, <2>7 DEF ReaderInv
<1>10. ASSUME NEW s \in Screens, MonitorFires(s) PROVE ReaderInv'
  <2> DEFINE m == [monitor[s] EXCEPT !.tick = "asking"]
  <2>1. m \in Monitor /\ m.at = monitor[s].at
    BY <1>s DEF Monitor
  <2>2. monitor' = [monitor EXCEPT ![s] = m] /\ UNCHANGED <<screen, text, Environment, leaks>>
    BY <1>10 DEF MonitorFires
  <2> HIDE DEF m
  <2>3. monitor' \in [Screens -> Monitor] /\ \A t \in Screens : monitor'[t].at = monitor[t].at
    BY <1>t, <2>1, <2>2 DEF ReaderTypeOK
  <2> QED BY <1>t, <2>2, <2>3
      DEF ReaderInv, ReaderTypeOK, ToldOnce, Watched, Quiet, Locked, HoldsBook, Mounted, Environment
<1>11. ASSUME NEW s \in Screens, MonitorHears(s) PROVE ReaderInv'
  <2>1. CASE Refused /\ monitor[s].at # "stopped"
    <3> DEFINE m == [at |-> "stopped", tick |-> "idle"]
    <3>1. m \in Monitor /\ m.at = "stopped"
      BY DEF Monitor
    <3>2. monitor' = [monitor EXCEPT ![s] = m] /\ screen' = [screen EXCEPT ![s] = TearDown(s)]
          /\ text' = "closed" /\ UNCHANGED <<Environment, leaks>>
      BY <1>11, <2>1 DEF MonitorHears
    <3> HIDE DEF m
    <3>3. /\ screen' \in [Screens -> Screen] /\ screen'[s] = TearDown(s)
          /\ \A t \in Screens \ {s} : screen'[t] = screen[t]
          /\ monitor' \in [Screens -> Monitor] /\ monitor'[s] = m
          /\ \A t \in Screens \ {s} : monitor'[t] = monitor[t]
      BY <1>t, <3>1, <3>2, TornDown DEF ReaderTypeOK
    <3>4. ReaderTypeOK'
      BY <1>t, <3>2, <3>3 DEF ReaderTypeOK, Environment
    <3>5. ToldOnce'
      BY <1>t, <3>3, TornDown DEF ToldOnce, Locked, HoldsBook
    <3>6. Watched'
      BY <1>t, <3>2, <3>3, TornDown DEF Watched, HoldsBook, Mounted, Environment
    <3>7. Quiet'
      BY <1>t, <3>1, <3>2, <3>3, TornDown DEF Quiet, Mounted
    <3> QED BY <3>4, <3>5, <3>6, <3>7 DEF ReaderInv
  <2>2. CASE ~(Refused /\ monitor[s].at # "stopped")
    <3> DEFINE m == [monitor[s] EXCEPT !.tick = "idle"]
    <3>1. m \in Monitor /\ m.at = monitor[s].at
      BY <1>s DEF Monitor
    <3>2. monitor' = [monitor EXCEPT ![s] = m] /\ UNCHANGED <<screen, text, Environment, leaks>>
      BY <1>11, <2>2 DEF MonitorHears
    <3> HIDE DEF m
    <3>3. monitor' \in [Screens -> Monitor] /\ \A t \in Screens : monitor'[t].at = monitor[t].at
      BY <1>t, <3>1, <3>2 DEF ReaderTypeOK
    <3> QED BY <1>t, <3>2, <3>3
        DEF ReaderInv, ReaderTypeOK, ToldOnce, Watched, Quiet, Locked, HoldsBook, Mounted, Environment
  <2> QED BY <2>1, <2>2
<1>12. ASSUME NEW s \in Screens, ReaderUnmounts(s) PROVE ReaderInv'
  <2> DEFINE c == [screen[s] EXCEPT !.at = "gone", !.marks = @ \ {"holds"}]
             m == LeftMonitor(s)
  <2>1. /\ c \in Screen /\ c.at = "gone" /\ c.open = screen[s].open
        /\ c.marks = screen[s].marks \ {"holds"} /\ c.told = screen[s].told
    BY <1>s DEF Screen
  <2>2. m \in Monitor /\ m.at \in {"none", "stopped"}
    BY <1>s DEF LeftMonitor, Stopped, Monitor
  <2>3. /\ screen' = [screen EXCEPT ![s] = c] /\ monitor' = [monitor EXCEPT ![s] = m]
        /\ text' = "closed" /\ UNCHANGED Environment
        /\ leaks' = leaks \union {t \in {s} : screen[s].open # "idle"}
    BY <1>12 DEF ReaderUnmounts
  <2> HIDE DEF c, m
  <2>4. /\ screen' \in [Screens -> Screen] /\ screen'[s] = c
        /\ \A t \in Screens \ {s} : screen'[t] = screen[t]
        /\ monitor' \in [Screens -> Monitor] /\ monitor'[s] = m
        /\ \A t \in Screens \ {s} : monitor'[t] = monitor[t]
    BY <1>t, <2>1, <2>2, <2>3 DEF ReaderTypeOK
  <2>5. leaks' \subseteq Screens
    BY <1>t, <2>3 DEF ReaderTypeOK
  <2>6. leaks' = {} => leaks = {} /\ screen[s].open = "idle"
    BY <2>3
  <2>7. ReaderTypeOK'
    BY <1>t, <2>3, <2>4, <2>5 DEF ReaderTypeOK, Environment
  <2>8. ToldOnce'
    BY <1>t, <2>1, <2>4 DEF ToldOnce, Locked, HoldsBook
  <2>9. Watched'
    BY <1>t, <2>1, <2>3, <2>4 DEF Watched, HoldsBook, Mounted, Environment
  <2>10. Quiet'
    BY <1>t, <2>1, <2>2, <2>3, <2>4, <2>6 DEF Quiet
  <2> QED BY <2>7, <2>8, <2>9, <2>10 DEF ReaderInv
<1>13. CASE AppStateChanges
  <2>0. changes \in [flips : 0..MaxFlips, outages : 0..MaxOutages, rulings : 0..MaxRulings]
        /\ changes.flips < MaxFlips /\ MaxFlips \in Nat
    BY <1>13, <1>t, ReaderBoundsAssumption DEF AppStateChanges, ReaderTypeOK
  <2>1. device \in [front : BOOLEAN, online : BOOLEAN] /\ changes.flips + 1 \in 0 .. MaxFlips
    BY <1>t, <2>0 DEF ReaderTypeOK
  <2>2. device' = [device EXCEPT !.front = ~device.front]
        /\ changes' = [changes EXCEPT !.flips = changes.flips + 1]
        /\ UNCHANGED <<screen, text, rights, access, leaks>>
    BY <1>13 DEF AppStateChanges
  <2>3. device' \in [front : BOOLEAN, online : BOOLEAN] /\ device'.front = ~device.front
    BY <2>1, <2>2
  <2>4. changes' \in [flips : 0..MaxFlips, outages : 0..MaxOutages, rulings : 0..MaxRulings]
    BY <1>t, <2>1, <2>2 DEF ReaderTypeOK
  <2>5. \A s \in Screens :
          /\ Paused(monitor[s]) \in Monitor /\ Resumed(monitor[s]) \in Monitor
          /\ monitor[s].at \in {"armed", "paused"} =>
               Paused(monitor[s]).at = "paused" /\ Resumed(monitor[s]).at = "armed"
    BY <1>s DEF Paused, Resumed, Monitor
  <2>6. ASSUME NEW s \in Screens
        PROVE  /\ monitor'[s] \in Monitor
               /\ ~Mounted(s) => monitor'[s] = monitor[s]
               /\ Mounted(s) /\ monitor[s].at \in {"armed", "paused"} =>
                    /\ monitor'[s].at \in {"armed", "paused"}
                    /\ device'.front = TRUE => monitor'[s].at = "armed"
    BY <1>13, <1>s, <2>3, <2>5 DEF AppStateChanges
  <2>7. monitor' \in [Screens -> Monitor]
    BY <1>13, <2>6 DEF AppStateChanges
  <2>8. ReaderTypeOK'
    BY <1>t, <2>2, <2>3, <2>4, <2>7 DEF ReaderTypeOK
  <2>9. ToldOnce'
    BY <1>t, <2>2 DEF ToldOnce, Locked, HoldsBook
  <2>10. Watched'
    BY <1>t, <2>2, <2>6 DEF Watched, HoldsBook, Mounted
  <2>11. Quiet'
    BY <1>t, <2>2, <2>6 DEF Quiet, Mounted
  <2> QED BY <2>8, <2>9, <2>10, <2>11 DEF ReaderInv
<1>14. CASE ConnectionChanges
  <2>1. device' \in [front : BOOLEAN, online : BOOLEAN] /\ device'.front = device.front
    BY <1>14, <1>t DEF ConnectionChanges, ReaderTypeOK
  <2>2. changes' \in [flips : 0..MaxFlips, outages : 0..MaxOutages, rulings : 0..MaxRulings]
    <3>1. changes \in [flips : 0..MaxFlips, outages : 0..MaxOutages, rulings : 0..MaxRulings]
          /\ changes.outages < MaxOutages /\ MaxOutages \in Nat
      BY <1>14, <1>t, ReaderBoundsAssumption DEF ConnectionChanges, ReaderTypeOK
    <3>2. changes' = [changes EXCEPT !.outages = changes.outages + 1]
      BY <1>14 DEF ConnectionChanges
    <3> QED BY <3>1, <3>2
  <2>3. UNCHANGED <<screen, monitor, text, rights, access, leaks>>
    BY <1>14 DEF ConnectionChanges
  <2> QED BY <1>t, <2>1, <2>2, <2>3
      DEF ReaderInv, ReaderTypeOK, ToldOnce, Watched, Quiet, Locked, HoldsBook, Mounted
<1>15. CASE RulingChanges
  <2>0. changes \in [flips : 0..MaxFlips, outages : 0..MaxOutages, rulings : 0..MaxRulings]
        /\ changes.rulings < MaxRulings /\ MaxRulings \in Nat
    BY <1>15, <1>t, ReaderBoundsAssumption DEF RulingChanges, ReaderTypeOK
  <2>a. changes' = [changes EXCEPT !.rulings = changes.rulings + 1]
        /\ access' \in {"granted", "refused"}
    BY <1>15 DEF RulingChanges
  <2>1. changes' \in [flips : 0..MaxFlips, outages : 0..MaxOutages, rulings : 0..MaxRulings]
        /\ access' \in {"granted", "refused"}
    BY <2>0, <2>a
  <2>2. UNCHANGED <<screen, monitor, text, rights, device, leaks>>
    BY <1>15 DEF RulingChanges
  <2> QED BY <1>t, <2>1, <2>2
      DEF ReaderInv, ReaderTypeOK, ToldOnce, Watched, Quiet, Locked, HoldsBook, Mounted
<1>16. CASE UNCHANGED readerVars
  BY <1>t, <1>16
  DEF readerVars, ReaderInv, ReaderTypeOK, ToldOnce, Watched, Quiet, Locked, HoldsBook, Mounted
<1> QED
  BY <1>1, <1>2, <1>3, <1>4, <1>5, <1>6, <1>7, <1>8, <1>9, <1>10, <1>11, <1>12, <1>13, <1>14,
     <1>15, <1>16
  DEF ReaderNext, OpeningStep

-----------------------------------------------------------------------------
THEOREM ReaderInvariance == ReaderSpec => []ReaderInv
BY ReaderBegins, ReaderStep, PTL DEF ReaderSpec

(* The screens, their monitors and the content session keep their types.      *)
THEOREM ReaderTypeCorrect == ReaderSpec => []ReaderTypeOK
<1>1. ReaderInv => ReaderTypeOK
  BY DEF ReaderInv
<1> QED BY <1>1, ReaderInvariance, PTL

(* A book whose access ended stays out of the WebView, and the reader is told *)
(* of it once.                                                                *)
THEOREM LockedBookStaysShut == ReaderSpec => []LockedStaysShut
<1>1. ReaderInv => LockedStaysShut
  BY DEF ReaderInv, ToldOnce, LockedStaysShut
<1> QED BY <1>1, ReaderInvariance, PTL

(* The book on screen is watched, and a book that was left is forgotten,      *)
(* unless it was left while it was being opened.                              *)
THEOREM BookIsFollowed == ReaderSpec => []MonitorFollowsBook
<1>1. ReaderInv => MonitorFollowsBook
  BY DEF ReaderInv, Watched, Quiet, MonitorFollowsBook
<1> QED BY <1>1, ReaderInvariance, PTL
=============================================================================
