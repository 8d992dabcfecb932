------------------------- MODULE TokenSessionProofs -------------------------
(* Proofs about TokenSession: its types, the single refresh, and the two    *)
(* properties that rest on it, for any accounts, callers and restarts.      *)
EXTENDS TokenSession, TLAPS

(* The refresh in flight is that of the one caller inside it.               *)
Flight == \A c \in Callers : call[c].at \in Refreshing <=> inFlight = c

(* Every token that is held anywhere has been issued to somebody.           *)
Known ==
  /\ session # None => owner[session.token] \in Users
  /\ stored # None => owner[stored] \in Users
  /\ \A c \in Callers : call[c].at \in {"refreshing", "saving"} =>
       call[c].token \in Pairs /\ owner[call[c].token] \in Users
  /\ \A c \in Callers : call[c].at \in {"saving", "saved", "naming"} =>
       call[c].pair \in Pairs /\ owner[call[c].pair] \in Users
  /\ signIn.at # "idle" => signIn.pair \in Pairs /\ owner[signIn.pair] \in Users

(* Which refresh tokens are still good: the one about to be stored as well  *)
(* as the one that is, and a sign-in's is nobody else's until it is stored. *)
Held ==
  /\ \A c \in Callers : At(c, "refreshing") => call[c].token \in live \union lost
  /\ \A c \in Callers : At(c, "saving") => call[c].pair \in live \union lost
  /\ stored # None => stored \in live \union lost \union Rotated
  /\ signIn.at \in {"issued", "storing"} =>
       /\ signIn.pair \in live \union lost
       /\ signIn.pair # stored
       /\ \A c \in Callers : At(c, "refreshing") => call[c].token # signIn.pair
       /\ \A c \in Callers : At(c, "saving") => call[c].pair # signIn.pair

(* Whose tokens they are, as long as nothing overlapped.                    *)
SessionIsTheirs ==
  session # None =>
    /\ owner[session.token] = session.user
    /\ stored # None /\ signIn.at = "idle" => owner[stored] = session.user

RefreshIsTheirs ==
  /\ inFlight # None => signIn.at = "idle"
  /\ \A c \in Callers : At(c, "refreshing") /\ session # None =>
       owner[call[c].token] = session.user
  /\ \A c \in Callers : At(c, "saving") => owner[call[c].pair] = owner[call[c].token]
  /\ \A c \in Callers : call[c].at \in {"saving", "saved"} /\ session # None =>
       owner[call[c].pair] = session.user
  /\ \A c \in Callers : call[c].at \in {"saved", "naming"} => stored \in {None, call[c].pair}
  /\ \A c \in Callers : At(c, "naming") => session = None

SignInIsTheirs ==
  /\ signIn.at # "idle" /\ session # None =>
       /\ signIn.kind = "saml" /\ signIn.at = "storing"
       /\ session.user = owner[signIn.pair]
  /\ signIn.at = "stored" => stored \in {None, signIn.pair}
  /\ signIn.at = "stored" => signIn.kind = "personal"

Identity == ~mixed => SessionIsTheirs /\ RefreshIsTheirs /\ SignInIsTheirs

(* After a sign-out that nothing overlapped nobody signs in, and nobody is  *)
(* inside the refresh with a token: while the refresh token is still there, *)
(* nobody is inside the refresh at all.                                     *)
Armed == {"refreshing", "saving", "saved", "naming"}

SignedOut ==
  out = "quiet" =>
    /\ session = None /\ signIn.at = "idle"
    /\ signOut => inFlight = None
    /\ ~signOut => stored = None /\ \A c \in Callers : call[c].at \notin Armed

-----------------------------------------------------------------------------
(* Every settlement leaves calls of the right type, and nobody inside the   *)
(* refresh but the callers that were there before, without c.               *)
LEMMA Settling ==
  ASSUME TypeOK, NEW c \in Callers, NEW token \in Pairs \union {None}, Settles(c, token)
  PROVE  /\ call' \in [Callers -> Call]
         /\ inFlight' = None
         /\ ready' \in BOOLEAN
         /\ \A d \in Callers : call'[d] = call[d] \/ call'[d].at \in {"idle", "requesting"}
         /\ call'[c].at \in {"idle", "requesting"}
<1>1. Idle \in Call /\ Idle.at = "idle"
  BY DEF Idle, Call
<1>2. [at |-> "requesting", token |-> token, pair |-> None] \in Call
  BY DEF Call
<1> QED BY <1>1, <1>2 DEF Settles, TypeOK

(* A rejection of the shared promise sends the caller inside home, and all  *)
(* that wait for it; the rest stay where they are.                          *)
LEMMA Rejecting ==
  ASSUME TypeOK, NEW c \in Callers, ReadFails(c)
  PROVE  /\ call[c].at = "reading"
         /\ call' \in [Callers -> Call]
         /\ inFlight' = None
         /\ call'[c].at = "idle"
         /\ \A d \in Callers : call'[d] = IF d = c \/ At(d, "waiting") THEN Idle ELSE call[d]
         /\ \A d \in Callers : call'[d] = call[d] \/ call'[d].at = "idle"
<1>1. Idle \in Call /\ Idle.at = "idle"
  BY DEF Idle, Call
<1>2. call' = [d \in Callers |-> IF d = c \/ At(d, "waiting") THEN Idle ELSE call[d]]
  BY DEF ReadFails
<1>3. call[c].at = "reading" /\ inFlight' = None
  BY DEF ReadFails, At
<1>4. call'[c] = Idle
  BY <1>2
<1> QED BY <1>1, <1>2, <1>3, <1>4 DEF TypeOK

(* Init establishes everything.                                             *)
LEMMA Initially == Init => TypeOK /\ Flight /\ Known /\ Held /\ Identity
<1> SUFFICES ASSUME Init PROVE TypeOK /\ Flight /\ Known /\ Held /\ Identity
  OBVIOUS
<1>1. NoSignIn \in SignIn /\ NoSignIn.at = "idle"
  BY DEF NoSignIn, SignIn
<1>2. Booting \in [Callers -> Call] /\ \A c \in Callers : Booting[c].at \in {"idle", "asked"}
  BY DEF Booting, Idle, Call
<1>3. 0 \in 0..MaxRestarts
  BY MaxRestartsAssumption
<1>4. TypeOK
  BY <1>1, <1>2, <1>3 DEF Init, TypeOK
<1>5. Flight
  BY <1>2, NoneAssumption DEF Init, Flight, Refreshing
<1>6. Known
  BY <1>1, <1>2 DEF Init, Known
<1>7. Held
  BY <1>1, <1>2 DEF Init, Held, At
<1>8. Identity
  BY <1>1, <1>2 DEF Init, Identity, SessionIsTheirs, RefreshIsTheirs, SignInIsTheirs, At
<1> QED BY <1>4, <1>5, <1>6, <1>7, <1>8

(* Every step keeps the types, and what is held stays issued.               *)
LEMMA Typing == TypeOK /\ Known /\ [Next]_vars => TypeOK' /\ Known'
<1> SUFFICES ASSUME TypeOK, Known, [Next]_vars PROVE TypeOK' /\ Known'
  OBVIOUS
<1> USE NoneAssumption DEF server
<1>1. ASSUME NEW c \in Callers, Asks(c) PROVE TypeOK' /\ Known'
  BY <1>1 DEF Asks, At, Token, TypeOK, Known, Call, Session
<1>2. ASSUME NEW c \in Callers, ChecksInFlight(c) PROVE TypeOK' /\ Known'
  BY <1>2 DEF ChecksInFlight, At, Shares, Starts, Moves, Overlap, TypeOK, Known, Call
<1>3. ASSUME NEW c \in Callers, Reads(c) PROVE TypeOK' /\ Known'
  <2>1. CASE stored = None
    BY <1>3, <2>1, Settling DEF Reads, TypeOK, Known
  <2>2. CASE stored # None
    <3>a. call[c] \in Call /\ stored \in Pairs
      BY <2>2 DEF TypeOK
    <3>1. [call[c] EXCEPT !.at = "refreshing", !.token = stored] \in Call
      BY <3>a DEF Call
    <3>2. call' = [call EXCEPT ![c] = [call[c] EXCEPT !.at = "refreshing", !.token = stored]]
      BY <1>3, <2>2 DEF Reads
    <3>3. TypeOK'
      BY <1>3, <2>2, <3>1, <3>2 DEF Reads, TypeOK
    <3>4. Known'
      BY <1>3, <2>2, <3>2 DEF Reads, TypeOK, Known, Call
    <3> QED BY <3>3, <3>4
  <2> QED BY <2>1, <2>2
<1>4. ASSUME NEW c \in Callers, Refreshes(c) PROVE TypeOK' /\ Known'
  <2>1. PICK p \in Pairs :
          /\ Issues(p, owner[call[c].token])
          /\ live' = (live \ {call[c].token}) \union {p}
          /\ \/ /\ call' = [call EXCEPT ![c] = [@ EXCEPT !.at = "saving", !.pair = p]]
                /\ UNCHANGED <<inFlight, ready, lost>>
             \/ /\ lost' = lost \union {call[c].token}
                /\ Settles(c, None)
    BY <1>4 DEF Refreshes
  <2>2. At(c, "refreshing") /\ call[c].token \in Pairs /\ owner[call[c].token] \in Users
    BY <1>4 DEF Refreshes, At, Known
  <2>3. owner' = [owner EXCEPT ![p] = owner[call[c].token]] /\ owner[p] = None
    BY <2>1 DEF Issues, Fresh
  <2>4. owner' \in [Pairs -> Users \union {None}] /\ live' \subseteq Pairs
    BY <2>1, <2>2, <2>3 DEF TypeOK
  <2>5. \A q \in Pairs : owner[q] \in Users => owner'[q] \in Users
    BY <2>2, <2>3 DEF TypeOK
  <2>6. UNCHANGED <<session, stored, signIn, signOut, expired, restarts, mixed, out, bootFailed>>
    BY <1>4 DEF Refreshes
  <2>7. CASE /\ call' = [call EXCEPT ![c] = [@ EXCEPT !.at = "saving", !.pair = p]]
             /\ UNCHANGED <<inFlight, ready, lost>>
    <3>1. TypeOK'
      <4>a. call[c] \in Call
        BY DEF TypeOK
      <4>1. [call[c] EXCEPT !.at = "saving", !.pair = p] \in Call
        BY <4>a DEF Call
      <4>2. call' \in [Callers -> Call]
        BY <2>7, <4>1 DEF TypeOK
      <4> QED BY <2>4, <2>6, <2>7, <4>2 DEF TypeOK
    <3>2. owner'[p] \in Users
      BY <2>2, <2>3 DEF TypeOK
    <3>3. Known'
      BY <2>2, <2>5, <2>6, <2>7, <3>2 DEF TypeOK, Known, Call, Session
    <3> QED BY <3>1, <3>3
  <2>8. CASE lost' = lost \union {call[c].token} /\ Settles(c, None)
    <3>1. TypeOK'
      BY <2>2, <2>4, <2>6, <2>8, Settling DEF TypeOK
    <3>2. Known'
      BY <2>5, <2>6, <2>8, Settling DEF TypeOK, Known, Session
    <3> QED BY <3>1, <3>2
  <2> QED BY <2>1, <2>7, <2>8
<1>5. ASSUME NEW c \in Callers, Refused(c) PROVE TypeOK' /\ Known'
  BY <1>5, Settling DEF Refused, TypeOK, Known
<1>6. ASSUME NEW c \in Callers, Unreachable(c) PROVE TypeOK' /\ Known'
  BY <1>6, Settling DEF Unreachable, TypeOK, Known
<1>7. ASSUME NEW c \in Callers, Saves(c) PROVE TypeOK' /\ Known'
  BY <1>7 DEF Saves, At, Moves, TypeOK, Known, Call
<1>8. ASSUME NEW c \in Callers, SaveFails(c) PROVE TypeOK' /\ Known'
  BY <1>8, Settling DEF SaveFails, At, TypeOK, Known
<1>9. ASSUME NEW c \in Callers, Applies(c) PROVE TypeOK' /\ Known'
  <2>1. call[c].pair \in Pairs /\ owner[call[c].pair] \in Users
    BY <1>9 DEF Applies, At, Known
  <2>2. CASE session # None
    BY <1>9, <2>1, <2>2, Settling DEF Applies, TypeOK, Known, Session
  <2>3. CASE session = None
    BY <1>9, <2>1, <2>3 DEF Applies, Moves, TypeOK, Known, Call
  <2> QED BY <2>2, <2>3
<1>10. ASSUME NEW c \in Callers, Names(c) PROVE TypeOK' /\ Known'
  <2>1. call[c].pair \in Pairs /\ owner[call[c].pair] \in Users
    BY <1>10 DEF Names, At, Known
  <2> QED BY <1>10, <2>1, Settling DEF Names, TypeOK, Known, Session
<1>11. ASSUME NEW c \in Callers, Rejected(c) PROVE TypeOK' /\ Known'
  BY <1>11 DEF Rejected, Idle, TypeOK, Known, Call
<1>12. ASSUME NEW c \in Callers, Answered(c) PROVE TypeOK' /\ Known'
  BY <1>12 DEF Answered, Idle, TypeOK, Known, Call
<1>13. ASSUME NEW kind \in {"saml", "personal"}, NEW u \in Users, SignInIssued(kind, u)
       PROVE  TypeOK' /\ Known'
  <2>1. PICK p \in Pairs : /\ Issues(p, u)
                           /\ live' = live \union {p}
                           /\ signIn' = [at |-> "issued", kind |-> kind, pair |-> p]
    BY <1>13 DEF SignInIssued
  <2>2. owner' = [owner EXCEPT ![p] = u]
    BY <2>1 DEF Issues
  <2>3. \A q \in Pairs : owner[q] \in Users => owner'[q] \in Users
    BY <2>2 DEF TypeOK
  <2>4. TypeOK'
    BY <1>13, <2>1, <2>2 DEF SignInIssued, Overlap, TypeOK, SignIn
  <2>5. Known'
    BY <1>13, <2>1, <2>2, <2>3 DEF SignInIssued, TypeOK, Known, Session
  <2> QED BY <2>4, <2>5
<1>14. CASE SignInNamed
  BY <1>14 DEF SignInNamed, SetSession, TypeOK, Known, SignIn, Session
<1>15. CASE SignInStores
  BY <1>15 DEF SignInStores, NoSignIn, TypeOK, Known, SignIn
<1>16. CASE SignInEnds
  BY <1>16 DEF SignInEnds, SetSession, NoSignIn, TypeOK, Known, SignIn, Session
<1>17. CASE SignInFails
  BY <1>17 DEF SignInFails, NoSignIn, TypeOK, Known, SignIn
<1>18. CASE SignsOut
  BY <1>18 DEF SignsOut, TypeOK, Known
<1>19. CASE DeletesStored
  BY <1>19 DEF DeletesStored, TypeOK, Known
<1>24. CASE DeleteFails
  BY <1>24 DEF DeleteFails, TypeOK, Known
<1>25. ASSUME NEW c \in Callers, ReadFails(c) PROVE TypeOK' /\ Known'
  <2>1. TypeOK'
    BY <1>25, Rejecting DEF ReadFails, TypeOK
  <2>2. Known'
    BY <1>25, Rejecting DEF ReadFails, Known
  <2> QED BY <2>1, <2>2
<1>20. ASSUME NEW p \in Pairs, AccessExpires(p) PROVE TypeOK' /\ Known'
  BY <1>20 DEF AccessExpires, TypeOK, Known
<1>21. ASSUME NEW p \in Pairs, Revoked(p) PROVE TypeOK' /\ Known'
  BY <1>21 DEF Revoked, TypeOK, Known
<1>22. CASE Restart
  <2>1. NoSignIn \in SignIn /\ NoSignIn.at = "idle"
    BY DEF NoSignIn, SignIn
  <2>2. Booting \in [Callers -> Call] /\ \A c \in Callers : Booting[c].at \in {"idle", "asked"}
    BY DEF Booting, Idle, Call
  <2>3. restarts' \in 0..MaxRestarts
    BY <1>22, MaxRestartsAssumption DEF Restart, TypeOK
  <2>4. Rotated \subseteq Pairs
    BY DEF Rotated, At, Known
  <2>5. TypeOK'
    BY <1>22, <2>1, <2>2, <2>3, <2>4 DEF Restart, TypeOK
  <2>6. Known'
    BY <1>22, <2>1, <2>2 DEF Restart, Known
  <2> QED BY <2>5, <2>6
<1>23. CASE UNCHANGED vars
  BY <1>23 DEF vars, TypeOK, Known
<1> QED
  BY <1>1, <1>2, <1>3, <1>4, <1>5, <1>6, <1>7, <1>8, <1>9, <1>10, <1>11, <1>12, <1>13,
     <1>14, <1>15, <1>16, <1>17, <1>18, <1>19, <1>20, <1>21, <1>22, <1>23, <1>24, <1>25
  DEF Next, CallStep

(* A caller enters the refresh only when nobody is inside, and leaves it    *)
(* only by settling it.                                                     *)
LEMMA FlightKept == TypeOK /\ Flight /\ [Next]_vars => Flight'
<1> SUFFICES ASSUME TypeOK, Flight, [Next]_vars PROVE Flight'
  OBVIOUS
<1> USE NoneAssumption
<1>a. ASSUME NEW c \in Callers, NEW token \in Pairs \union {None}, Settles(c, token),
             call[c].at \in Refreshing
      PROVE  Flight'
  BY <1>a, Settling DEF Flight, Refreshing
<1>b. ASSUME inFlight' = inFlight,
             \A d \in Callers : call'[d].at \in Refreshing <=> call[d].at \in Refreshing
      PROVE  Flight'
  BY <1>b DEF Flight
<1>1. ASSUME NEW c \in Callers, Asks(c) PROVE Flight'
  <2> \A d \in Callers : call'[d].at \in Refreshing <=> call[d].at \in Refreshing
    BY <1>1 DEF Asks, At, TypeOK, Refreshing
  <2> QED BY <1>1, <1>b DEF Asks
<1>2. ASSUME NEW c \in Callers, ChecksInFlight(c) PROVE Flight'
  <2>1. CASE Shares(c)
    <3> \A d \in Callers : call'[d].at \in Refreshing <=> call[d].at \in Refreshing
      BY <1>2, <2>1 DEF ChecksInFlight, Shares, Moves, At, TypeOK, Call, Refreshing
    <3> QED BY <2>1, <1>b DEF Shares
  <2>2. CASE Starts(c)
    <3>1. \A d \in Callers : call[d].at \notin Refreshing
      BY <2>2 DEF Starts, Flight
    <3>2. \A d \in Callers : call'[d].at \in Refreshing <=> d = c
      BY <2>2, <3>1 DEF Starts, Moves, TypeOK, Call, Refreshing
    <3> QED BY <2>2, <3>2 DEF Starts, Flight
  <2> QED BY <1>2, <2>1, <2>2 DEF ChecksInFlight
<1>3. ASSUME NEW c \in Callers, Reads(c) PROVE Flight'
  <2>1. call[c].at \in Refreshing
    BY <1>3 DEF Reads, At, Refreshing
  <2>2. CASE stored # None
    <3>1. \A d \in Callers : call'[d] = IF d = c
            THEN [call[c] EXCEPT !.at = "refreshing", !.token = stored] ELSE call[d]
      BY <1>3, <2>2 DEF Reads, TypeOK
    <3>2. call[c] \in Call
      BY DEF TypeOK
    <3>3. call'[c].at = "refreshing"
      BY <3>1, <3>2 DEF Call
    <3>4. \A d \in Callers : call'[d].at \in Refreshing <=> call[d].at \in Refreshing
      BY <2>1, <3>1, <3>3 DEF Refreshing
    <3> QED BY <1>3, <2>2, <3>4, <1>b DEF Reads
  <2> QED BY <1>3, <2>1, <2>2, <1>a DEF Reads
<1>4. ASSUME NEW c \in Callers, Refreshes(c) PROVE Flight'
  <2>1. call[c].at \in Refreshing
    BY <1>4 DEF Refreshes, At, Refreshing
  <2>2. CASE Settles(c, None)
    BY <2>1, <2>2, <1>a
  <2>3. ASSUME NEW p \in Pairs, UNCHANGED inFlight,
               call' = [call EXCEPT ![c] = [@ EXCEPT !.at = "saving", !.pair = p]]
        PROVE  Flight'
    <3> \A d \in Callers : call'[d].at \in Refreshing <=> call[d].at \in Refreshing
      BY <2>1, <2>3 DEF TypeOK, Call, Refreshing
    <3> QED BY <2>3, <1>b
  <2> QED BY <1>4, <2>2, <2>3 DEF Refreshes
<1>5. ASSUME NEW c \in Callers, Refused(c) PROVE Flight'
  BY <1>5, <1>a DEF Refused, At, Refreshing
<1>6. ASSUME NEW c \in Callers, Unreachable(c) PROVE Flight'
  BY <1>6, <1>a DEF Unreachable, At, Refreshing
<1>7. ASSUME NEW c \in Callers, Saves(c) PROVE Flight'
  <2> \A d \in Callers : call'[d].at \in Refreshing <=> call[d].at \in Refreshing
    BY <1>7 DEF Saves, Moves, At, TypeOK, Call, Refreshing
  <2> QED BY <1>7, <1>b DEF Saves
<1>8. ASSUME NEW c \in Callers, SaveFails(c) PROVE Flight'
  BY <1>8, <1>a DEF SaveFails, At, Refreshing
<1>9. ASSUME NEW c \in Callers, Applies(c) PROVE Flight'
  <2>1. call[c].at \in Refreshing /\ call[c].pair \in Pairs \union {None}
    BY <1>9 DEF Applies, At, Refreshing, TypeOK, Call
  <2>2. CASE session = None
    <3> \A d \in Callers : call'[d].at \in Refreshing <=> call[d].at \in Refreshing
      BY <1>9, <2>1, <2>2 DEF Applies, Moves, TypeOK, Call, Refreshing
    <3> QED BY <1>9, <2>2, <1>b DEF Applies
  <2> QED BY <1>9, <2>1, <2>2, <1>a DEF Applies
<1>10. ASSUME NEW c \in Callers, Names(c) PROVE Flight'
  <2> call[c].at \in Refreshing /\ call[c].pair \in Pairs \union {None}
    BY <1>10 DEF Names, At, Refreshing, TypeOK, Call
  <2> QED BY <1>10, <1>a DEF Names
<1>11. ASSUME NEW c \in Callers, Rejected(c) \/ Answered(c) PROVE Flight'
  <2> \A d \in Callers : call'[d].at \in Refreshing <=> call[d].at \in Refreshing
    BY <1>11 DEF Rejected, Answered, At, Idle, TypeOK, Refreshing
  <2> QED BY <1>11, <1>b DEF Rejected, Answered
<1>12. ASSUME UNCHANGED <<inFlight, call>> PROVE Flight'
  BY <1>12 DEF Flight
<1>13. CASE Restart
  BY <1>13 DEF Restart, Booting, Idle, Flight, Refreshing
<1>14. ASSUME NEW c \in Callers, ReadFails(c) PROVE Flight'
  <2>1. inFlight = c /\ inFlight' = None
    BY <1>14, Rejecting DEF Flight, Refreshing
  <2>2. \A d \in Callers : d # c => call[d].at \notin Refreshing
    BY <2>1 DEF Flight
  <2>3. call'[c].at = "idle" /\ \A d \in Callers : call'[d] = call[d] \/ call'[d].at = "idle"
    BY <1>14, Rejecting
  <2>4. \A d \in Callers : call'[d].at \notin Refreshing
    BY <2>2, <2>3 DEF Refreshing
  <2> QED BY <2>1, <2>4 DEF Flight
<1> QED
  BY <1>1, <1>2, <1>3, <1>4, <1>5, <1>6, <1>7, <1>8, <1>9, <1>10, <1>11, <1>12, <1>13, <1>14
  DEF Next, CallStep, SignInIssued, SignInNamed, SignInStores, SignInEnds, SignInFails,
      SignsOut, DeletesStored, DeleteFails, AccessExpires, Revoked, vars

(* No step forgets the refresh token that is still good.                    *)
LEMMA HeldKept ==
  TypeOK /\ Flight /\ Known /\ Held /\ [Next]_vars => Held'
<1> SUFFICES ASSUME TypeOK, Flight, Known, Held, [Next]_vars PROVE Held'
  OBVIOUS
<1> USE NoneAssumption DEF server
(* A settlement of c: the others hold what they held.                       *)
<1>a. ASSUME NEW c \in Callers, NEW token \in Pairs \union {None}, Settles(c, token),
             ~At(c, "saving") \/ call[c].token \in lost',
             UNCHANGED <<stored, signIn>>, live \union lost \subseteq live' \union lost'
      PROVE  Held'
  <2>1. \A d \in Callers : call'[d] = call[d] \/ call'[d].at \in {"idle", "requesting"}
    BY <1>a, Settling
  <2>2. \A d \in Callers \ {c} : At(d, "saving") => call'[d] = call[d]
    BY <1>a DEF Settles, At
  <2>3. Rotated \subseteq Rotated' \union lost'
    BY <1>a, <2>2 DEF Rotated, At
  <2> QED BY <1>a, <2>1, <2>3 DEF Held, At
<1>1. ASSUME NEW c \in Callers, Asks(c) PROVE Held'
  <2>1. \A d \in Callers : call'[d] = call[d] \/
                             (d = c /\ call'[d].at \in {"asked", "requesting"})
    BY <1>1 DEF Asks, TypeOK
  <2>2. Rotated' = Rotated
    BY <1>1, <2>1 DEF Asks, Rotated, At
  <2> QED BY <1>1, <2>1, <2>2 DEF Asks, Held, At
<1>2. ASSUME NEW c \in Callers, ChecksInFlight(c) PROVE Held'
  <2>1. \A d \in Callers : call'[d] = call[d] \/
                             (d = c /\ call'[d].at \in {"waiting", "reading"})
    BY <1>2 DEF ChecksInFlight, Shares, Starts, Moves, TypeOK, Call
  <2>2. Rotated' = Rotated
    BY <1>2, <2>1 DEF ChecksInFlight, Rotated, At
  <2> QED BY <1>2, <2>1, <2>2 DEF ChecksInFlight, Held, At
<1>3. ASSUME NEW c \in Callers, Reads(c) PROVE Held'
  <2>1. CASE stored = None
    BY <1>3, <2>1, <1>a DEF Reads, At
  <2>2. CASE stored # None
    <3>1. \A d \in Callers : call'[d] = IF d = c
            THEN [call[c] EXCEPT !.at = "refreshing", !.token = stored] ELSE call[d]
      BY <1>3, <2>2 DEF Reads, TypeOK
    <3>2. call[c] \in Call /\ call[c].at = "reading"
      BY <1>3 DEF Reads, At, TypeOK
    <3>3. call'[c].at = "refreshing" /\ call'[c].token = stored
      BY <3>1, <3>2 DEF Call
    <3>4. Rotated = {}
      BY <3>2 DEF Rotated, At, Flight, Refreshing
    <3>5. stored \in live \union lost
      BY <2>2, <3>4 DEF Held
    <3>6. Rotated' = {}
      BY <3>1, <3>3, <3>4 DEF Rotated, At
    <3> QED BY <1>3, <2>2, <3>1, <3>3, <3>5, <3>6 DEF Reads, Held, At
  <2> QED BY <2>1, <2>2
<1>4. ASSUME NEW c \in Callers, Refreshes(c) PROVE Held'
  <2> DEFINE t == call[c].token
  <2>1. PICK p \in Pairs :
          /\ Issues(p, owner[t])
          /\ live' = (live \ {t}) \union {p}
          /\ \/ /\ call' = [call EXCEPT ![c] = [@ EXCEPT !.at = "saving", !.pair = p]]
                /\ UNCHANGED <<inFlight, ready, lost>>
             \/ /\ lost' = lost \union {t}
                /\ Settles(c, None)
    BY <1>4 DEF Refreshes
  <2>2. /\ call[c] \in Call
        /\ call[c].at = "refreshing"
        /\ UNCHANGED <<stored, signIn>>
    BY <1>4 DEF Refreshes, At, TypeOK
  <2>3. \A d \in Callers : d # c => call[d].at \notin Refreshing
    BY <2>2 DEF Flight, Refreshing
  <2>4. owner[p] = None
    BY <2>1 DEF Issues, Fresh
  <2>5. CASE lost' = lost \union {t} /\ Settles(c, None)
    BY <2>1, <2>2, <2>5, <1>a DEF At
  <2>6. CASE /\ call' = [call EXCEPT ![c] = [@ EXCEPT !.at = "saving", !.pair = p]]
             /\ UNCHANGED <<inFlight, ready, lost>>
    <3>1. \A d \in Callers : call'[d] = IF d = c
            THEN [call[c] EXCEPT !.at = "saving", !.pair = p] ELSE call[d]
      BY <2>6 DEF TypeOK
    <3>2. call'[c].at = "saving" /\ call'[c].pair = p /\ call'[c].token = t
      BY <2>2, <3>1 DEF Call
    <3>3. Rotated = {} /\ t \in Rotated'
      BY <2>2, <2>3, <3>2 DEF Rotated, At, Refreshing
    <3>4. signIn.at \in {"issued", "storing"} => signIn.pair # t /\ signIn.pair # p
      BY <2>2, <2>4 DEF Held, Known, At
    <3>5. \A d \in Callers : d # c =>
            call'[d].at \notin {"refreshing", "saving"}
      BY <2>3, <3>1 DEF Refreshing
    <3> QED BY <2>1, <2>2, <2>6, <3>2, <3>3, <3>4, <3>5 DEF Held, At
  <2> QED BY <2>1, <2>5, <2>6
<1>5. ASSUME NEW c \in Callers, Refused(c) \/ Unreachable(c) PROVE Held'
  BY <1>5, <1>a DEF Refused, Unreachable, At
<1>6. ASSUME NEW c \in Callers, Saves(c) PROVE Held'
  <2>1. \A d \in Callers : call'[d] = IF d = c THEN [call[c] EXCEPT !.at = "saved"] ELSE call[d]
    BY <1>6 DEF Saves, Moves, TypeOK
  <2>2. call[c] \in Call /\ call[c].at = "saving"
    BY <1>6 DEF Saves, At, TypeOK
  <2>3. call'[c].at = "saved"
    BY <2>1, <2>2 DEF Call
  <2>4. \A d \in Callers : d # c => call[d].at \notin {"refreshing", "saving"}
    BY <2>2 DEF Flight, Refreshing
  <2> QED BY <1>6, <2>1, <2>2, <2>3, <2>4 DEF Saves, Held, At
<1>7. ASSUME NEW c \in Callers, SaveFails(c) PROVE Held'
  BY <1>7, <1>a DEF SaveFails
<1>8. ASSUME NEW c \in Callers, Applies(c) PROVE Held'
  <2>1. call[c] \in Call /\ call[c].at = "saved"
    BY <1>8 DEF Applies, At, TypeOK
  <2>2. CASE session # None
    BY <1>8, <2>1, <2>2, <1>a DEF Applies, At, Call
  <2>3. CASE session = None
    <3>1. \A d \in Callers : call'[d] = IF d = c THEN [call[c] EXCEPT !.at = "naming"] ELSE call[d]
      BY <1>8, <2>3 DEF Applies, Moves, TypeOK
    <3>2. call'[c].at = "naming"
      BY <2>1, <3>1 DEF Call
    <3>3. Rotated' = Rotated
      BY <2>1, <3>1, <3>2 DEF Rotated, At
    <3> QED BY <1>8, <2>3, <3>1, <3>2, <3>3 DEF Applies, Held, At
  <2> QED BY <2>2, <2>3
<1>9. ASSUME NEW c \in Callers, Names(c) PROVE Held'
  BY <1>9, <1>a DEF Names, At, TypeOK, Call
<1>10. ASSUME NEW c \in Callers, Rejected(c) \/ Answered(c) PROVE Held'
  <2>1. \A d \in Callers : call'[d] = call[d] \/ (d = c /\ call'[d].at = "idle")
    BY <1>10 DEF Rejected, Answered, Idle, TypeOK
  <2>2. Rotated' = Rotated
    BY <1>10, <2>1 DEF Rejected, Answered, Rotated, At
  <2> QED BY <1>10, <2>1, <2>2 DEF Rejected, Answered, Held, At
<1>11. ASSUME NEW kind \in {"saml", "personal"}, NEW u \in Users, SignInIssued(kind, u)
       PROVE  Held'
  <2>1. PICK p \in Pairs : /\ Issues(p, u)
                           /\ live' = live \union {p}
                           /\ signIn' = [at |-> "issued", kind |-> kind, pair |-> p]
    BY <1>11 DEF SignInIssued
  <2>2. owner[p] = None
    BY <2>1 DEF Issues, Fresh
  <2>3. UNCHANGED <<stored, call, lost>> /\ Rotated' = Rotated
    BY <1>11 DEF SignInIssued, Rotated, At
  <2>4. p # stored /\ \A c \in Callers : /\ At(c, "refreshing") => call[c].token # p
                                         /\ At(c, "saving") => call[c].pair # p
    BY <2>2 DEF Known, At
  <2> QED BY <2>1, <2>3, <2>4 DEF Held, At
<1>12. CASE SignInNamed
  <2> Rotated' = Rotated
    BY <1>12 DEF SignInNamed, Rotated, At
  <2> QED BY <1>12 DEF SignInNamed, Held, At, TypeOK, SignIn
<1>13. CASE SignInStores
  <2>1. signIn'.at \notin {"issued", "storing"}
    BY <1>13 DEF SignInStores, NoSignIn, TypeOK, SignIn
  <2> QED BY <1>13, <2>1 DEF SignInStores, Held, At
<1>14. CASE SignInEnds \/ SignInFails
  <2>1. signIn'.at = "idle" /\ Rotated' = Rotated
    BY <1>14 DEF SignInEnds, SignInFails, NoSignIn, Rotated, At
  <2> QED BY <1>14, <2>1 DEF SignInEnds, SignInFails, Held, At
<1>19. ASSUME NEW c \in Callers, ReadFails(c) PROVE Held'
  <2>1. \A d \in Callers : At(d, "saving") => call'[d] = call[d]
    BY <1>19, Rejecting DEF At
  <2>2. Rotated \subseteq Rotated'
    BY <2>1 DEF Rotated, At
  <2>3. \A d \in Callers : call'[d] = call[d] \/ call'[d].at = "idle"
    BY <1>19, Rejecting
  <2> QED BY <1>19, <2>2, <2>3 DEF ReadFails, Held, At
<1>15. CASE SignsOut \/ DeletesStored \/ DeleteFails
  <2> Rotated' = Rotated
    BY <1>15 DEF SignsOut, DeletesStored, DeleteFails, Rotated, At
  <2>1. signIn.at \in {"issued", "storing"} => signIn.pair # None
    BY DEF Known
  <2> QED BY <1>15, <2>1 DEF SignsOut, DeletesStored, DeleteFails, Held, At
<1>16. ASSUME NEW p \in Pairs, AccessExpires(p) \/ Revoked(p) PROVE Held'
  <2>1. Rotated' = Rotated /\ live \union lost \subseteq live' \union lost'
    BY <1>16 DEF AccessExpires, Revoked, Rotated, At
  <2> QED BY <1>16, <2>1 DEF AccessExpires, Revoked, Held, At
<1>17. CASE Restart
  <2>1. NoSignIn.at = "idle" /\ \A c \in Callers : Booting[c].at \in {"idle", "asked"}
    BY DEF NoSignIn, Booting, Idle
  <2> QED BY <1>17, <2>1 DEF Restart, Held, At
<1>18. CASE UNCHANGED vars
  BY <1>18 DEF vars, Held, Rotated, At
<1> QED
  BY <1>1, <1>2, <1>3, <1>4, <1>5, <1>6, <1>7, <1>8, <1>9, <1>10, <1>11, <1>12, <1>13,
     <1>14, <1>15, <1>16, <1>17, <1>18, <1>19
  DEF Next, CallStep

(* While nothing overlapped, nobody's token replaces somebody else's.       *)
LEMMA IdentityKept ==
  TypeOK /\ Flight /\ Known /\ Identity /\ [Next]_vars => Identity'
<1> SUFFICES ASSUME TypeOK, Flight, Known, Identity, [Next]_vars, ~mixed' PROVE Identity'
  BY DEF Identity
<1> USE NoneAssumption DEF server
(* mixed is never reset.                                                    *)
<1>m. ~mixed
  BY DEF Next, CallStep, Asks, ChecksInFlight, Overlap, Reads, ReadFails, Refreshes, Refused, Unreachable,
         Saves, SaveFails, Applies, Names, Rejected, Answered, SignInIssued, SignInNamed,
         SignInStores, SignInEnds, SignInFails, SignsOut, DeletesStored, DeleteFails,
         AccessExpires, Revoked, Restart, vars
<1>i. SessionIsTheirs /\ RefreshIsTheirs /\ SignInIsTheirs
  BY <1>m DEF Identity
<1> SUFFICES SessionIsTheirs' /\ RefreshIsTheirs' /\ SignInIsTheirs'
  BY DEF Identity
<1> DEFINE Goal == SessionIsTheirs /\ RefreshIsTheirs /\ SignInIsTheirs
(* A settlement: nobody is inside the refresh any more.                     *)
<1>s. ASSUME NEW c \in Callers, NEW token \in Pairs \union {None}, Settles(c, token),
             call[c].at \in Refreshing
      PROVE  inFlight' = None /\ \A d \in Callers : call'[d].at \notin Refreshing
  BY <1>s, Settling DEF Flight, Refreshing
<1>r. ASSUME inFlight' = None, \A d \in Callers : call'[d].at \notin Refreshing
      PROVE  RefreshIsTheirs'
  BY <1>r DEF RefreshIsTheirs, At, Refreshing
(* The calls outside the refresh do not matter.                             *)
<1>u. ASSUME UNCHANGED <<stored, owner, signIn, inFlight>>, session' \in {session, None},
             \A d \in Callers : call'[d] = call[d] \/ call'[d].at \notin Refreshing
      PROVE  Goal'
  BY <1>u, <1>i DEF SessionIsTheirs, RefreshIsTheirs, SignInIsTheirs, At, Refreshing
<1>t. ASSUME UNCHANGED <<stored, owner, signIn>>, session' \in {session, None},
             NEW c \in Callers, NEW token \in Pairs \union {None}, Settles(c, token),
             call[c].at \in Refreshing
      PROVE  Goal'
  BY <1>t, <1>s, <1>r, <1>i DEF SessionIsTheirs, SignInIsTheirs
<1>1. ASSUME NEW c \in Callers, Asks(c) \/ Rejected(c) \/ Answered(c) PROVE Goal'
  <2> \A d \in Callers : call'[d] = call[d] \/ call'[d].at \notin Refreshing
    BY <1>1 DEF Asks, Rejected, Answered, Idle, TypeOK, Refreshing
  <2> QED BY <1>1, <1>u DEF Asks, Rejected, Answered
<1>2. ASSUME NEW c \in Callers, ChecksInFlight(c) PROVE Goal'
  <2>1. \A d \in Callers : call'[d] = call[d] \/ call'[d].at \in {"waiting", "reading"}
    BY <1>2 DEF ChecksInFlight, Shares, Starts, Moves, TypeOK, Call
  <2>2. inFlight' # None => signIn.at = "idle"
    BY <1>2, <1>m DEF ChecksInFlight, Overlap
  <2> QED
    BY <1>2, <2>1, <2>2, <1>i
    DEF ChecksInFlight, SessionIsTheirs, RefreshIsTheirs, SignInIsTheirs, At
<1>3. ASSUME NEW c \in Callers, Reads(c) PROVE Goal'
  <2>0. call[c] \in Call /\ call[c].at = "reading" /\ inFlight = c
    BY <1>3 DEF Reads, At, TypeOK, Flight, Refreshing
  <2>1. CASE stored = None
    BY <1>3, <2>0, <2>1, <1>t DEF Reads, Refreshing
  <2>2. CASE stored # None
    <3>1. \A d \in Callers : call'[d] = IF d = c
            THEN [call[c] EXCEPT !.at = "refreshing", !.token = stored] ELSE call[d]
      BY <1>3, <2>2 DEF Reads, TypeOK
    <3>2. call'[c].at = "refreshing" /\ call'[c].token = stored
      BY <2>0, <3>1 DEF Call
    <3>3. session # None => owner[stored] = session.user
      BY <1>i, <2>0, <2>2 DEF SessionIsTheirs, RefreshIsTheirs
    <3> QED
      BY <1>3, <2>2, <3>1, <3>2, <3>3, <1>i
      DEF Reads, SessionIsTheirs, RefreshIsTheirs, SignInIsTheirs, At
  <2> QED BY <2>1, <2>2
<1>4. ASSUME NEW c \in Callers, Refreshes(c) PROVE Goal'
  <2> DEFINE t == call[c].token
  <2>1. PICK p \in Pairs :
          /\ Issues(p, owner[t])
          /\ \/ /\ call' = [call EXCEPT ![c] = [@ EXCEPT !.at = "saving", !.pair = p]]
                /\ UNCHANGED <<inFlight, ready, lost>>
             \/ /\ lost' = lost \union {t}
                /\ Settles(c, None)
    BY <1>4 DEF Refreshes
  <2>2. /\ call[c] \in Call
        /\ call[c].at = "refreshing"
        /\ UNCHANGED <<session, stored, signIn>>
        /\ inFlight = c
        /\ t \in Pairs /\ owner[t] \in Users
    BY <1>4 DEF Refreshes, At, TypeOK, Flight, Refreshing, Known
  <2>3. /\ owner[p] = None
        /\ owner'[p] = owner[t]
        /\ \A q \in Pairs : q # p => owner'[q] = owner[q]
    BY <2>1 DEF Issues, Fresh, TypeOK
  <2>4. /\ session # None => session.token # p /\ session.token \in Pairs
        /\ stored # None => stored # p /\ stored \in Pairs
        /\ signIn.at # "idle" => signIn.pair # p /\ signIn.pair \in Pairs
        /\ t # p
    BY <2>2, <2>3 DEF Known, TypeOK, Session
  <2>5. SessionIsTheirs' /\ SignInIsTheirs'
    BY <1>i, <2>2, <2>3, <2>4 DEF SessionIsTheirs, SignInIsTheirs
  <2>6. CASE Settles(c, None)
    BY <2>2, <2>5, <2>6, <1>s, <1>r DEF Refreshing
  <2>7. CASE /\ call' = [call EXCEPT ![c] = [@ EXCEPT !.at = "saving", !.pair = p]]
             /\ UNCHANGED <<inFlight, ready, lost>>
    <3>1. \A d \in Callers : call'[d] = IF d = c
            THEN [call[c] EXCEPT !.at = "saving", !.pair = p] ELSE call[d]
      BY <2>7 DEF TypeOK
    <3>2. call'[c].at = "saving" /\ call'[c].pair = p /\ call'[c].token = t
      BY <2>2, <3>1 DEF Call
    <3>3. \A d \in Callers : d # c => call'[d].at \notin Refreshing
      BY <2>2, <3>1 DEF Flight
    <3>4. session # None => owner[t] = session.user
      BY <1>i, <2>2 DEF RefreshIsTheirs, At
    <3>5. RefreshIsTheirs'
      BY <1>i, <2>2, <2>3, <2>4, <2>7, <3>2, <3>3, <3>4 DEF RefreshIsTheirs, At, Refreshing
    <3> QED BY <2>5, <3>5
  <2> QED BY <2>1, <2>6, <2>7
<1>5. ASSUME NEW c \in Callers, Refused(c) \/ Unreachable(c) \/ SaveFails(c) PROVE Goal'
  BY <1>5, <1>t DEF Refused, Unreachable, SaveFails, At, Refreshing
<1>6. ASSUME NEW c \in Callers, Saves(c) PROVE Goal'
  <2>1. \A d \in Callers : call'[d] = IF d = c THEN [call[c] EXCEPT !.at = "saved"] ELSE call[d]
    BY <1>6 DEF Saves, Moves, TypeOK
  <2>2. call[c] \in Call /\ call[c].at = "saving" /\ inFlight = c
    BY <1>6 DEF Saves, At, TypeOK, Flight, Refreshing
  <2>3. call'[c].at = "saved" /\ call'[c].pair = call[c].pair
    BY <2>1, <2>2 DEF Call
  <2>4. \A d \in Callers : d # c => call'[d].at \notin Refreshing
    BY <2>1, <2>2 DEF Flight
  <2>5. signIn.at = "idle" /\ (session # None => owner[call[c].pair] = session.user)
    BY <1>i, <2>2 DEF RefreshIsTheirs
  <2>6. UNCHANGED <<session, owner, signIn, inFlight>> /\ stored' = call[c].pair
    BY <1>6 DEF Saves
  <2>7. SessionIsTheirs' /\ SignInIsTheirs'
    BY <1>i, <2>5, <2>6 DEF SessionIsTheirs, SignInIsTheirs
  <2>8. RefreshIsTheirs'
    BY <2>3, <2>4, <2>5, <2>6 DEF RefreshIsTheirs, At, Refreshing
  <2> QED BY <2>7, <2>8
<1>7. ASSUME NEW c \in Callers, Applies(c) PROVE Goal'
  <2>1. /\ call[c] \in Call /\ call[c].at = "saved" /\ inFlight = c
        /\ UNCHANGED <<stored, owner, signIn>>
    BY <1>7 DEF Applies, At, TypeOK, Flight, Refreshing
  <2>2. /\ signIn.at = "idle" /\ stored \in {None, call[c].pair}
        /\ session # None => owner[call[c].pair] = session.user
    BY <1>i, <2>1 DEF RefreshIsTheirs
  <2>3. CASE session # None
    <3>1. session' = [session EXCEPT !.token = call[c].pair] /\ Settles(c, call[c].pair)
      BY <1>7, <2>3 DEF Applies
    <3>2. session'.token = call[c].pair /\ session'.user = session.user
      BY <2>3, <3>1 DEF TypeOK, Session
    <3>3. RefreshIsTheirs'
      BY <2>1, <3>1, <1>s, <1>r DEF Call, Refreshing
    <3> QED BY <2>1, <2>2, <2>3, <3>2, <3>3 DEF SessionIsTheirs, SignInIsTheirs
  <2>4. CASE session = None
    <3>1. \A d \in Callers : call'[d] = IF d = c THEN [call[c] EXCEPT !.at = "naming"] ELSE call[d]
      BY <1>7, <2>4 DEF Applies, Moves, TypeOK
    <3>2. call'[c].at = "naming" /\ call'[c].pair = call[c].pair
      BY <2>1, <3>1 DEF Call
    <3>3. \A d \in Callers : d # c => call'[d].at \notin Refreshing
      BY <2>1, <3>1 DEF Flight
    <3>4. UNCHANGED <<session, inFlight>>
      BY <1>7, <2>4 DEF Applies
    <3> QED
      BY <1>i, <2>1, <2>2, <2>4, <3>2, <3>3, <3>4
      DEF SessionIsTheirs, RefreshIsTheirs, SignInIsTheirs, At, Refreshing
  <2> QED BY <2>3, <2>4
<1>8. ASSUME NEW c \in Callers, Names(c) PROVE Goal'
  <2>1. /\ call[c] \in Call /\ call[c].at = "naming" /\ inFlight = c
        /\ UNCHANGED <<stored, owner, signIn>>
        /\ session' = [user |-> owner[call[c].pair], token |-> call[c].pair]
        /\ Settles(c, call[c].pair)
    BY <1>8 DEF Names, At, TypeOK, Flight, Refreshing
  <2>2. signIn.at = "idle" /\ stored \in {None, call[c].pair}
    BY <1>i, <2>1 DEF RefreshIsTheirs
  <2>3. RefreshIsTheirs'
    BY <2>1, <1>s, <1>r DEF Call, Refreshing
  <2> QED BY <2>1, <2>2, <2>3 DEF SessionIsTheirs, SignInIsTheirs
<1>9. ASSUME NEW kind \in {"saml", "personal"}, NEW u \in Users, SignInIssued(kind, u)
      PROVE  Goal'
  <2>1. session = None /\ UNCHANGED <<session, inFlight, call>>
    BY <1>9 DEF SignInIssued
  <2>2. signIn'.at = "issued"
    BY <1>9 DEF SignInIssued
  <2>3. inFlight = None /\ \A d \in Callers : call[d].at \notin Refreshing
    BY <1>9, <2>1, <2>2 DEF SignInIssued, Overlap, Flight, TypeOK
  <2> QED BY <2>1, <2>2, <2>3, <1>r DEF SessionIsTheirs, SignInIsTheirs
<1>10. CASE SignInNamed
  <2>1. /\ inFlight = None /\ \A d \in Callers : call[d].at \notin Refreshing
        /\ UNCHANGED <<stored, owner, inFlight, call>>
        /\ session = None /\ signIn.at = "issued"
    BY <1>10, <1>i DEF SignInNamed, RefreshIsTheirs, SignInIsTheirs, Flight, TypeOK
  <2>2. signIn'.at = "storing" /\ signIn'.pair = signIn.pair /\ signIn'.kind = signIn.kind
    BY <1>10 DEF SignInNamed, TypeOK, SignIn
  <2>3. session' # None => /\ signIn.kind = "saml"
                           /\ session' = [user |-> owner[signIn.pair], token |-> signIn.pair]
    BY <1>10, <2>1 DEF SignInNamed, SetSession
  <2> QED BY <2>1, <2>2, <2>3, <1>r DEF SessionIsTheirs, SignInIsTheirs
<1>11. CASE SignInStores
  <2>1. /\ inFlight = None /\ \A d \in Callers : call[d].at \notin Refreshing
        /\ UNCHANGED <<session, owner, inFlight, call>>
        /\ stored' = signIn.pair /\ signIn.at = "storing"
    BY <1>11, <1>i DEF SignInStores, RefreshIsTheirs, Flight, TypeOK
  <2>2. CASE signIn.kind = "saml"
    <3>1. signIn'.at = "idle"
      BY <1>11, <2>2 DEF SignInStores, NoSignIn
    <3>2. session # None => session.user = owner[signIn.pair]
      BY <1>i, <2>1 DEF SignInIsTheirs
    <3> QED BY <1>i, <2>1, <3>1, <3>2, <1>r DEF SessionIsTheirs, SignInIsTheirs
  <2>3. CASE signIn.kind = "personal"
    <3>1. signIn'.at = "stored" /\ signIn'.pair = signIn.pair /\ signIn'.kind = "personal"
      BY <1>11, <2>3 DEF SignInStores, TypeOK, SignIn
    <3>2. session = None
      BY <1>i, <2>1, <2>3 DEF SignInIsTheirs
    <3> QED BY <2>1, <3>1, <3>2, <1>r DEF SessionIsTheirs, SignInIsTheirs
  <2> QED BY <2>2, <2>3 DEF TypeOK, SignIn
<1>12. CASE SignInEnds
  <2>1. /\ inFlight = None /\ \A d \in Callers : call[d].at \notin Refreshing
        /\ UNCHANGED <<stored, owner, inFlight, call>>
        /\ signIn.at = "stored" /\ signIn'.at = "idle"
        /\ session' = [user |-> owner[signIn.pair], token |-> signIn.pair]
        /\ stored \in {None, signIn.pair}
    BY <1>12, <1>i DEF SignInEnds, SetSession, NoSignIn, RefreshIsTheirs, SignInIsTheirs,
                       Flight, TypeOK
  <2> QED BY <2>1, <1>r DEF SessionIsTheirs, SignInIsTheirs
<1>13. CASE SignInFails
  <2>1. /\ inFlight = None /\ \A d \in Callers : call[d].at \notin Refreshing
        /\ UNCHANGED <<session, inFlight, call>> /\ signIn'.at = "idle"
    BY <1>13, <1>i DEF SignInFails, NoSignIn, RefreshIsTheirs, Flight, TypeOK
  <2>2. session = None
    BY <1>13, <1>i DEF SignInFails, SignInIsTheirs
  <2> QED BY <2>1, <2>2, <1>r DEF SessionIsTheirs, SignInIsTheirs
<1>14. CASE SignsOut \/ DeleteFails
  BY <1>14, <1>u DEF SignsOut, DeleteFails
<1>18. ASSUME NEW c \in Callers, ReadFails(c) PROVE Goal'
  <2>1. inFlight' = None /\ \A d \in Callers : call'[d].at \notin Refreshing
    BY <1>18, Rejecting DEF Idle, Flight, Refreshing
  <2> QED BY <1>18, <2>1, <1>r, <1>i DEF ReadFails, SessionIsTheirs, SignInIsTheirs
<1>15. CASE DeletesStored
  BY <1>15, <1>i DEF DeletesStored, SessionIsTheirs, RefreshIsTheirs, SignInIsTheirs, At
<1>16. ASSUME UNCHANGED <<session, stored, inFlight, call, signIn, owner>> PROVE Goal'
  BY <1>16, <1>u
<1>17. CASE Restart
  <2>1. NoSignIn.at = "idle" /\ \A c \in Callers : Booting[c].at \notin Refreshing
    BY DEF NoSignIn, Booting, Idle, Refreshing
  <2> QED BY <1>17, <2>1, <1>r DEF Restart, SessionIsTheirs, SignInIsTheirs
<1> QED
  BY <1>1, <1>2, <1>3, <1>4, <1>5, <1>6, <1>7, <1>8, <1>9, <1>10, <1>11, <1>12, <1>13,
     <1>14, <1>15, <1>16, <1>17, <1>18
  DEF Next, CallStep, AccessExpires, Revoked, vars

(* Every step after a quiet sign-out leaves the reader signed out.          *)
LEMMA SignedOutKept ==
  TypeOK /\ Flight /\ SignedOut /\ [Next]_vars => SignedOut'
<1> SUFFICES ASSUME TypeOK, Flight, SignedOut, [Next]_vars, out' = "quiet"
             PROVE  SignedOut'
  BY DEF SignedOut
<1> USE NoneAssumption DEF server
(* A refresh that settles takes nobody in.                                  *)
<1>s. ASSUME NEW c \in Callers, NEW token, Settles(c, token), session' = None,
             UNCHANGED <<stored, signIn, signOut, out>>
      PROVE  SignedOut'
  <2>1. \A d \in Callers : call'[d] = call[d] \/ call'[d].at \in {"idle", "requesting"}
    BY <1>s DEF Settles, Idle
  <2>2. inFlight' = None
    BY <1>s DEF Settles
  <2> QED BY <1>s, <2>1, <2>2 DEF SignedOut, Armed
(* A caller that has no token yet goes on to a place without one.           *)
<1>m. ASSUME NEW c \in Callers, call'[c].at \notin Armed,
             \A d \in Callers \ {c} : call'[d] = call[d], session' = None,
             inFlight' = inFlight, UNCHANGED <<stored, signIn, signOut, out>>
      PROVE  SignedOut'
  BY <1>m DEF SignedOut
<1>1. ASSUME NEW c \in Callers, Asks(c) PROVE SignedOut'
  <2>1. call'[c].at \in {"asked", "requesting"} /\ \A d \in Callers \ {c} : call'[d] = call[d]
    BY <1>1 DEF Asks, TypeOK
  <2>2. session' = None
    BY <1>1 DEF Asks, SignedOut
  <2> QED BY <1>1, <2>1, <2>2, <1>m DEF Asks, Armed
<1>2. ASSUME NEW c \in Callers, ChecksInFlight(c) PROVE SignedOut'
  <2>1. /\ out = "quiet" /\ (inFlight' = inFlight \/ ~signOut)
        /\ call'[c].at \in {"waiting", "reading"}
        /\ \A d \in Callers \ {c} : call'[d] = call[d]
    BY <1>2 DEF ChecksInFlight, Shares, Starts, Moves, TypeOK, Call
  <2>2. UNCHANGED <<session, stored, signIn, signOut>>
    BY <1>2 DEF ChecksInFlight
  <2> QED BY <2>1, <2>2 DEF SignedOut, Armed
<1>3. ASSUME NEW c \in Callers, Reads(c) PROVE SignedOut'
  <2>1. inFlight = c /\ out = "quiet"
    BY <1>3 DEF Reads, At, Flight, Refreshing
  <2>2. stored = None
    BY <2>1 DEF SignedOut
  <2> QED BY <1>3, <2>2, <1>s DEF Reads
<1>14. ASSUME NEW c \in Callers, ReadFails(c) PROVE SignedOut'
  <2>1. /\ out = "quiet" /\ inFlight' = None
        /\ \A d \in Callers : call'[d] = call[d] \/ call'[d].at = "idle"
    BY <1>14, Rejecting DEF ReadFails
  <2> QED BY <1>14, <2>1 DEF ReadFails, SignedOut, Armed
<1>4. ASSUME NEW c \in Callers, call[c].at \in Armed, UNCHANGED out PROVE FALSE
  BY <1>4 DEF SignedOut, Flight, Armed, Refreshing
<1>5. ASSUME NEW c \in Callers,
             Refreshes(c) \/ Refused(c) \/ Unreachable(c) \/ Saves(c) \/ SaveFails(c)
             \/ Applies(c) \/ Names(c)
      PROVE  FALSE
  BY <1>4, <1>5 DEF Refreshes, Refused, Unreachable, Saves, SaveFails, Applies, Names, At, Armed
<1>6. ASSUME NEW c \in Callers, Rejected(c) \/ Answered(c) PROVE SignedOut'
  <2>1. call'[c].at = "idle" /\ \A d \in Callers \ {c} : call'[d] = call[d]
    BY <1>6 DEF Rejected, Answered, Idle, TypeOK
  <2>2. session' = None
    BY <1>6 DEF Rejected, Answered, SignedOut
  <2> QED BY <1>6, <2>1, <2>2, <1>m DEF Rejected, Answered, Armed
<1>7. ASSUME NEW kind \in {"saml", "personal"}, NEW u \in Users, SignInIssued(kind, u)
      PROVE  FALSE
  BY <1>7 DEF SignInIssued
<1>8. CASE SignInNamed \/ SignInStores \/ SignInEnds \/ SignInFails
  BY <1>8 DEF SignInNamed, SignInStores, SignInEnds, SignInFails, SignedOut
<1>9. CASE SignsOut
  BY <1>9 DEF SignsOut, SignedOut
<1>10. CASE DeletesStored
  BY <1>10 DEF DeletesStored, SignedOut, Flight, Armed, Refreshing
<1>15. CASE DeleteFails
  BY <1>15 DEF DeleteFails
<1>11. ASSUME NEW p \in Pairs, AccessExpires(p) \/ Revoked(p) PROVE SignedOut'
  BY <1>11 DEF AccessExpires, Revoked, SignedOut
<1>12. CASE Restart
  <2>1. NoSignIn.at = "idle" /\ \A c \in Callers : Booting[c].at \notin Armed
    BY DEF NoSignIn, Booting, Idle, Armed
  <2> QED BY <1>12, <2>1 DEF Restart, SignedOut
<1>13. CASE UNCHANGED vars
  BY <1>13 DEF vars, SignedOut
<1> QED
  BY <1>1, <1>2, <1>3, <1>5, <1>6, <1>7, <1>8, <1>9, <1>10, <1>11, <1>12, <1>13, <1>14, <1>15
  DEF Next, CallStep

-----------------------------------------------------------------------------
Inv == TypeOK /\ Flight /\ Known /\ Held /\ Identity /\ SignedOut

(* The inductive invariant: who is inside the refresh, what is held, which  *)
(* of it is good and whose it is.                                           *)
THEOREM Invariance == Spec => []Inv
<1>1. Init => Inv
  BY Initially DEF Inv, Init, SignedOut
<1>2. Inv /\ [Next]_vars => Inv'
  BY Typing, FlightKept, HeldKept, IdentityKept, SignedOutKept DEF Inv
<1> QED BY <1>1, <1>2, PTL DEF Spec

(* Every variable of the session keeps its type.                            *)
THEOREM TypeCorrect == Spec => []TypeOK
<1>1. Inv => TypeOK
  BY DEF Inv
<1> QED BY <1>1, Invariance, PTL

(* Concurrent callers share one refresh.                                    *)
THEOREM SingleRefresh == Spec => []OneRefresh
<1>1. Inv => OneRefresh
  BY DEF Inv, Flight, OneRefresh
<1> QED BY <1>1, Invariance, PTL

(* No refresh is refused that the device could have avoided.                *)
THEOREM RefreshTokenStaysGood == Spec => []NoNeedlessRefusal
<1>1. Inv => NoNeedlessRefusal
  BY DEF Inv, Held, NoNeedlessRefusal
<1> QED BY <1>1, Invariance, PTL

(* The session is of the account it names, and gone for good after a        *)
(* sign-out that nothing overlapped and that deleted the stored token.      *)
THEOREM SessionStaysTheirs == Spec => []SessionIsTheReaders
<1>1. Inv => SessionOwnsItsToken
  BY DEF Inv, Identity, SessionIsTheirs, SessionOwnsItsToken
<1>2. Inv => QuietSignOutSticks
  BY DEF Inv, SignedOut, QuietSignOutSticks
<1>3. Inv => SessionIsTheReaders
  BY <1>1, <1>2 DEF SessionIsTheReaders
<1> QED BY <1>3, Invariance, PTL

-----------------------------------------------------------------------------
(* The steps of a single flight, seen in the session's variables.           *)

LEMMA SeenUnmoved ==
  ASSUME inFlight' = inFlight, \A d \in Callers : Role(d)' = Role(d)
  PROVE  Outside!Next
<1>1. [x \in Callers |-> Role(x)'] =
        [d \in Callers |-> IF d \in {} THEN "out" ELSE [x \in Callers |-> Role(x)][d]]
  OBVIOUS
<1>2. {} \in SUBSET Callers /\ \A d \in {} : [x \in Callers |-> Role(x)][d] = "waits"
  OBVIOUS
<1> QED BY <1>1, <1>2 DEF Outside!Next, Outside!Told

LEMMA SeenSettingOut ==
  ASSUME NEW c \in Callers, inFlight = None, inFlight' = c, Role(c) = "out",
         Role(c)' = "leads", \A d \in Callers \ {c} : Role(d)' = Role(d)
  PROVE  Outside!Next
<1>1. [x \in Callers |-> Role(x)'] =
        [d \in Callers |-> IF d = c THEN "leads" ELSE IF d \in {} THEN "waits"
                           ELSE [x \in Callers |-> Role(x)][d]]
  OBVIOUS
<1>2. {} \in SUBSET (Callers \ {c}) /\ \A d \in {} : [x \in Callers |-> Role(x)][d] = "out"
  OBVIOUS
<1> QED BY <1>1, <1>2 DEF Outside!Next, Outside!SetsOut

LEMMA SeenJoining ==
  ASSUME NEW c \in Callers, inFlight # None, inFlight' = inFlight, Role(c) = "out",
         Role(c)' = "waits", \A d \in Callers \ {c} : Role(d)' = Role(d)
  PROVE  Outside!Next
<1>1. [x \in Callers |-> Role(x)'] = [[x \in Callers |-> Role(x)] EXCEPT ![c] = "waits"]
  OBVIOUS
<1> QED BY <1>1 DEF Outside!Next, Outside!Joins

(* The refresh of c settles, and with it everybody who waits.               *)
LEMMA SeenLanding ==
  ASSUME TypeOK, Flight, NEW c \in Callers, NEW token, call[c].at \in Refreshing,
         Settles(c, token)
  PROVE  Outside!Next
<1> DEFINE W == {d \in Callers \ {c} : At(d, "waiting")}
<1>1. inFlight = c
  BY DEF Flight
<1>2. \A d \in Callers :
        call'[d] = IF d # c /\ ~At(d, "waiting") THEN call[d]
                   ELSE IF d = Boot THEN Idle
                   ELSE [at |-> "requesting", token |-> token, pair |-> None]
  BY DEF Settles
<1>3. Role(c) = "leads"
  BY DEF Role
<1>4. \A d \in Callers : d = c \/ d \in W => call'[d].at \in {"idle", "requesting"}
  BY <1>2 DEF Idle
<1>5. \A d \in Callers : d = c \/ d \in W => Role(d)' = "out"
  BY <1>4 DEF Role, Refreshing
<1>6. \A d \in Callers : ~(d = c \/ d \in W) => Role(d)' = Role(d)
  BY <1>2 DEF Role
<1>7. \A d \in W : [x \in Callers |-> Role(x)][d] = "waits"
  BY DEF Role, At, Refreshing
<1>8. [x \in Callers |-> Role(x)'] =
        [d \in Callers |-> IF d = c \/ d \in W THEN "out" ELSE [x \in Callers |-> Role(x)][d]]
  BY <1>5, <1>6
<1>9. W \in SUBSET (Callers \ {c}) /\ inFlight' = None
  BY DEF Settles
<1> HIDE DEF W
<1> QED BY <1>1, <1>3, <1>7, <1>8, <1>9 DEF Outside!Next, Outside!Lands

(* Every step of the session is one of the single flight, or unseen.        *)
LEMMA StepIsSeen ==
  ASSUME TypeOK, Flight, [Next]_vars
  PROVE  Outside!Next
<1>a. ASSUME UNCHANGED <<inFlight, call>> PROVE Outside!Next
  BY <1>a, SeenUnmoved DEF Role
<1>b. ASSUME NEW c \in Callers, inFlight' = inFlight,
             \A d \in Callers \ {c} : call'[d] = call[d],
             call[c].at \in Refreshing <=> call'[c].at \in Refreshing,
             call[c].at # "waiting", call'[c].at # "waiting"
      PROVE  Outside!Next
  <2>1. \A d \in Callers : Role(d)' = Role(d)
    BY <1>b DEF Role
  <2> QED BY <1>b, <2>1, SeenUnmoved
<1>1. ASSUME NEW c \in Callers, Asks(c) PROVE Outside!Next
  <2>1. /\ call'[c].at \in {"asked", "requesting"} /\ call[c].at = "idle"
        /\ \A d \in Callers \ {c} : call'[d] = call[d] /\ inFlight' = inFlight
    BY <1>1 DEF Asks, At, TypeOK
  <2>2. inFlight' = inFlight
    BY <1>1 DEF Asks
  <2> QED BY <2>1, <2>2, <1>b DEF Refreshing
<1>2. ASSUME NEW c \in Callers, ChecksInFlight(c) PROVE Outside!Next
  <2>1. call[c].at = "asked"
    BY <1>2 DEF ChecksInFlight, At
  <2>2. Role(c) = "out"
    BY <2>1 DEF Role, Refreshing
  <2>3. CASE Shares(c)
    <3>1. call'[c].at = "waiting" /\ \A d \in Callers \ {c} : call'[d] = call[d]
      BY <2>3 DEF Shares, Moves, TypeOK, Call
    <3>2. Role(c)' = "waits" /\ \A d \in Callers \ {c} : Role(d)' = Role(d)
      BY <3>1 DEF Role, Refreshing
    <3> QED BY <2>2, <2>3, <3>2, SeenJoining DEF Shares
  <2>4. CASE Starts(c)
    <3>1. call'[c].at = "reading" /\ \A d \in Callers \ {c} : call'[d] = call[d]
      BY <2>4 DEF Starts, Moves, TypeOK, Call
    <3>2. Role(c)' = "leads" /\ \A d \in Callers \ {c} : Role(d)' = Role(d)
      BY <3>1 DEF Role, Refreshing
    <3> QED BY <2>2, <2>4, <3>2, SeenSettingOut DEF Starts
  <2> QED BY <1>2, <2>3, <2>4 DEF ChecksInFlight
<1>3. ASSUME NEW c \in Callers, Reads(c) PROVE Outside!Next
  <2>1. call[c].at = "reading"
    BY <1>3 DEF Reads, At
  <2>2. CASE stored = None
    BY <1>3, <2>1, <2>2, SeenLanding DEF Reads, Refreshing
  <2>3. CASE stored # None
    <3>1. call[c] \in Call
      BY DEF TypeOK
    <3>2. call' = [call EXCEPT ![c] = [call[c] EXCEPT !.at = "refreshing", !.token = stored]]
      BY <1>3, <2>3 DEF Reads
    <3>3. call'[c].at = "refreshing" /\ \A d \in Callers \ {c} : call'[d] = call[d]
      BY <3>1, <3>2 DEF TypeOK, Call
    <3> QED BY <1>3, <2>1, <2>3, <3>3, <1>b DEF Reads, Refreshing
  <2> QED BY <2>2, <2>3
<1>4. ASSUME NEW c \in Callers, Refreshes(c) PROVE Outside!Next
  <2>1. call[c].at = "refreshing"
    BY <1>4 DEF Refreshes, At
  <2>2. PICK p \in Pairs :
          \/ /\ call' = [call EXCEPT ![c] = [@ EXCEPT !.at = "saving", !.pair = p]]
             /\ UNCHANGED <<inFlight, ready, lost>>
          \/ Settles(c, None)
    BY <1>4 DEF Refreshes
  <2>3. CASE /\ call' = [call EXCEPT ![c] = [@ EXCEPT !.at = "saving", !.pair = p]]
             /\ UNCHANGED <<inFlight, ready, lost>>
    <3>1. call[c] \in Call
      BY DEF TypeOK
    <3>2. call'[c].at = "saving" /\ \A d \in Callers \ {c} : call'[d] = call[d]
      BY <2>3, <3>1 DEF TypeOK, Call
    <3> QED BY <2>1, <2>3, <3>2, <1>b DEF Refreshing
  <2>4. CASE Settles(c, None)
    BY <2>1, <2>4, SeenLanding DEF Refreshing
  <2> QED BY <2>2, <2>3, <2>4
<1>5. ASSUME NEW c \in Callers, Refused(c) PROVE Outside!Next
  BY <1>5, SeenLanding DEF Refused, At, Refreshing
<1>6. ASSUME NEW c \in Callers, Unreachable(c) PROVE Outside!Next
  BY <1>6, SeenLanding DEF Unreachable, At, Refreshing
<1>7. ASSUME NEW c \in Callers, Saves(c) PROVE Outside!Next
  <2>1. /\ call[c].at = "saving" /\ call'[c].at = "saved" /\ inFlight' = inFlight
        /\ \A d \in Callers \ {c} : call'[d] = call[d]
    BY <1>7 DEF Saves, At, Moves, TypeOK, Call
  <2> QED BY <2>1, <1>b DEF Refreshing
<1>8. ASSUME NEW c \in Callers, SaveFails(c) PROVE Outside!Next
  BY <1>8, SeenLanding DEF SaveFails, At, Refreshing
<1>9. ASSUME NEW c \in Callers, Applies(c) PROVE Outside!Next
  <2>1. call[c].at = "saved"
    BY <1>9 DEF Applies, At
  <2>2. CASE session # None
    BY <1>9, <2>1, <2>2, SeenLanding DEF Applies, Refreshing
  <2>3. CASE session = None
    <3>1. /\ call'[c].at = "naming" /\ inFlight' = inFlight
          /\ \A d \in Callers \ {c} : call'[d] = call[d]
      BY <1>9, <2>3 DEF Applies, Moves, TypeOK, Call
    <3> QED BY <2>1, <3>1, <1>b DEF Refreshing
  <2> QED BY <2>2, <2>3
<1>10. ASSUME NEW c \in Callers, Names(c) PROVE Outside!Next
  BY <1>10, SeenLanding DEF Names, At, Refreshing
<1>11. ASSUME NEW c \in Callers, Rejected(c) \/ Answered(c) PROVE Outside!Next
  <2>1. /\ call[c].at = "requesting" /\ call'[c].at = "idle" /\ inFlight' = inFlight
        /\ \A d \in Callers \ {c} : call'[d] = call[d]
    BY <1>11 DEF Rejected, Answered, At, Idle, TypeOK
  <2> QED BY <2>1, <1>b DEF Refreshing
<1>12. ASSUME NEW kind \in {"saml", "personal"}, NEW u \in Users, SignInIssued(kind, u)
       PROVE  Outside!Next
  BY <1>12, <1>a DEF SignInIssued
<1>13. CASE \/ SignInNamed \/ SignInStores \/ SignInEnds \/ SignInFails
            \/ SignsOut \/ DeletesStored \/ DeleteFails
  BY <1>13, <1>a DEF SignInNamed, SignInStores, SignInEnds, SignInFails, SignsOut,
                     DeletesStored, DeleteFails
<1>14. ASSUME NEW p \in Pairs, AccessExpires(p) \/ Revoked(p) PROVE Outside!Next
  BY <1>14, <1>a DEF AccessExpires, Revoked
<1>15. CASE Restart
  <2>1. inFlight' = None /\ \A c \in Callers : call'[c].at \in {"idle", "asked"}
    BY <1>15 DEF Restart, Booting, Idle
  <2>2. \A c \in Callers : Role(c)' = "out"
    BY <2>1 DEF Role, Refreshing
  <2>3. [x \in Callers |-> Role(x)'] = [x \in Callers |-> "out"]
    BY <2>2
  <2> QED BY <2>1, <2>3 DEF Outside!Next, Outside!Crashes
<1>16. CASE UNCHANGED vars
  BY <1>16, <1>a DEF vars
<1>17. ASSUME NEW c \in Callers, ReadFails(c) PROVE Outside!Next
  <2> DEFINE W == {d \in Callers \ {c} : At(d, "waiting")}
  <2>1. inFlight = c /\ Role(c) = "leads" /\ inFlight' = None
    BY <1>17, Rejecting DEF Flight, Role, Refreshing
  <2>2. \A d \in Callers : Role(d)' = IF d = c \/ d \in W THEN "out" ELSE Role(d)
    BY <1>17, Rejecting DEF Role, Idle, Refreshing
  <2>3. \A d \in W : [x \in Callers |-> Role(x)][d] = "waits"
    BY DEF Role, At, Refreshing
  <2>4. [x \in Callers |-> Role(x)'] =
          [d \in Callers |-> IF d = c \/ d \in W THEN "out" ELSE [x \in Callers |-> Role(x)][d]]
    BY <2>2
  <2>5. W \in SUBSET (Callers \ {c})
    OBVIOUS
  <2> HIDE DEF W
  <2> QED BY <2>1, <2>3, <2>4, <2>5 DEF Outside!Next, Outside!Lands
<1> QED BY <1>1, <1>2, <1>3, <1>4, <1>5, <1>6, <1>7, <1>8, <1>9, <1>10, <1>11, <1>12, <1>13,
           <1>14, <1>15, <1>16, <1>17 DEF Next, CallStep

(* The session's refresh is a single flight, for any number of callers and  *)
(* across sign-ins, sign-outs and restarts.                                 *)
THEOREM RefreshIsOneFlight == Spec => SharesOneRefresh
<1>1. Init => Outside!Init
  <2> SUFFICES ASSUME Init PROVE Outside!Init
    OBVIOUS
  <2>1. \A c \in Callers : call[c].at \in {"idle", "asked"}
    BY DEF Init, Booting, Idle
  <2>2. inFlight = None /\ \A c \in Callers : Role(c) = "out"
    BY <2>1 DEF Init, Role, Refreshing
  <2> QED BY <2>2 DEF Outside!Init
<1>2. Inv /\ [Next]_vars => Outside!Next
  BY StepIsSeen DEF Inv
<1> QED BY <1>1, <1>2, Invariance, PTL DEF Spec, SharesOneRefresh, Outside!Spec
=============================================================================
