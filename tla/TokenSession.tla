---------------------------- MODULE TokenSession ----------------------------
(***************************************************************************)
(* The reader's session: the access token and identity in sessionStore (in *)
(* memory), the refresh token in secureStorage, and everything that writes *)
(* the two: ensureFreshToken() and its shared refresh (tokenRefresh.ts),   *)
(* the institution and the personal sign-in, signing out, and the sync     *)
(* client's answer to a 401.                                               *)
(*                                                                         *)
(* A token pair is one element of Pairs: its access token and its refresh  *)
(* token are minted together, and a refresh burns the refresh token it is  *)
(* given.  Every await is a place where the other actors may run: secure   *)
(* storage, a request, and the microtask between reading the store and     *)
(* looking at the refresh in flight.  Every await of secure storage may    *)
(* also reject: the keychain is the system's, and may be locked.           *)
(***************************************************************************)
EXTENDS Naturals

CONSTANTS
  Users,        \* accounts
  Pairs,        \* token pairs the server can issue (bound)
  Callers,      \* authenticated requests under way at a time (bound)
  Boot,         \* the caller that is bootstrapAuth()
  SyncCallers,  \* those that go through syncApi's request()
  None,         \* no token, session or caller
  MaxRestarts   \* restarts of the application (bound)

ASSUME NoneAssumption == None \notin Users \union Pairs \union Callers
ASSUME CallersAssumption ==
  Boot \in Callers /\ SyncCallers \subseteq Callers \ {Boot}

ASSUME MaxRestartsAssumption == MaxRestarts \in Nat

VARIABLES
  session,   \* sessionStore: the user signed in and the access token, or None
  stored,    \* secureStorage: the refresh token, or None
  inFlight,  \* inFlightRefresh: the caller whose refresh is shared, or None
  call,      \* caller -> where its ensureFreshToken and request are
  signIn,    \* the sign-in under way
  signOut,   \* the sign-out under way
  ready,     \* _authReady
  owner,     \* server: pair -> the user it was issued to, or None
  live,      \* server: refresh tokens that can be used
  expired,   \* access tokens past their time or revoked
  restarts,  \* how often the process has died so far
  lost,      \* history: refresh tokens burned or revoked without the device
             \*          having stored a successor
  mixed,     \* history: a sign-in overlapped a refresh, or failed half-way
  out,       \* history: the last sign-out, and what went with it, if anything
  bootFailed \* history: secure storage rejected bootstrapAuth() its token

vars == <<session, stored, inFlight, call, signIn, signOut, ready, owner, live,
          expired, restarts, lost, mixed, out, bootFailed>>

server == <<owner, live, expired, restarts>>

Session == [user : Users, token : Pairs]
Call == [at : {"idle", "asked", "waiting", "reading", "refreshing", "saving",
               "saved", "naming", "requesting"},
         token : Pairs \union {None}, pair : Pairs \union {None}]
SignIn == [at : {"idle", "issued", "storing", "stored"},
           kind : {"saml", "personal"}, pair : Pairs \union {None}]

Idle     == [at |-> "idle", token |-> None, pair |-> None]
NoSignIn == [at |-> "idle", kind |-> "saml", pair |-> None]

TypeOK ==
  /\ session \in Session \union {None}
  /\ stored \in Pairs \union {None}
  /\ inFlight \in Callers \union {None}
  /\ call \in [Callers -> Call]
  /\ signIn \in SignIn
  /\ signOut \in BOOLEAN
  /\ ready \in BOOLEAN
  /\ owner \in [Pairs -> Users \union {None}]
  /\ live \subseteq Pairs
  /\ expired \subseteq Pairs
  /\ restarts \in 0..MaxRestarts
  /\ lost \subseteq Pairs
  /\ mixed \in BOOLEAN
  /\ out \in {"no", "quiet", "signing", "refreshing", "undone", "failed"}
  /\ bootFailed \in BOOLEAN

(* App.tsx calls bootstrapAuth() as it mounts.                              *)
Booting == [c \in Callers |-> IF c = Boot THEN [Idle EXCEPT !.at = "asked"] ELSE Idle]

Init ==
  /\ session = None
  /\ stored = None
  /\ inFlight = None
  /\ call = Booting
  /\ signIn = NoSignIn
  /\ signOut = FALSE
  /\ ready = FALSE
  /\ owner = [p \in Pairs |-> None]
  /\ live = {}
  /\ expired = {}
  /\ restarts = 0
  /\ lost = {}
  /\ mixed = FALSE
  /\ out = "no"
  /\ bootFailed = FALSE

-----------------------------------------------------------------------------
(* ensureFreshToken() *)

At(c, place) == call[c].at = place
Moves(c, place) == call' = [call EXCEPT ![c].at = place]

(* getToken(): undefined without a session or when its token has expired.   *)
Token == IF session # None /\ session.token \notin expired THEN session.token ELSE None

(* An overlap of a sign-in with a refresh, in the next state.               *)
Overlap == mixed' = (mixed \/ (inFlight' # None /\ signIn'.at # "idle"))

Asks(c) ==
  /\ At(c, "idle") /\ c # Boot
  /\ call' = [call EXCEPT ![c] = [at |-> IF Token = None THEN "asked" ELSE "requesting",
                                  token |-> Token, pair |-> None]]
  /\ UNCHANGED <<session, stored, inFlight, signIn, signOut, ready, server,
                 lost, mixed, out, bootFailed>>

(* The refresh in flight is shared; only without one does this call start   *)
(* its own.                                                                 *)
Shares(c) ==
  /\ inFlight # None
  /\ Moves(c, "waiting")
  /\ UNCHANGED <<inFlight, out>>

(* Mutant: every caller refreshes for itself.                               *)
StartsAlways(c) ==
  /\ inFlight' = c
  /\ Moves(c, "reading")
  /\ out' = IF signOut /\ out = "quiet" THEN "refreshing" ELSE out

Starts(c) ==
  /\ inFlight = None
  /\ inFlight' = c
  /\ Moves(c, "reading")
  /\ out' = IF signOut /\ out = "quiet" THEN "refreshing" ELSE out

ChecksInFlight(c) ==
  /\ At(c, "asked")
  /\ Shares(c) \/ Starts(c)
  /\ UNCHANGED <<session, stored, signIn, signOut, ready, server, lost, bootFailed>>
  /\ Overlap

(* Mutant: the callers that share the refresh are not told.                 *)
SettlesAlone(c, token) ==
  /\ inFlight' = None
  /\ call' = [call EXCEPT ![c] = IF c = Boot THEN Idle
                                 ELSE [at |-> "requesting", token |-> token, pair |-> None]]
  /\ ready' = (ready \/ c = Boot)

(* The refresh of c settles: its waiters get the same token, and everybody  *)
(* goes on to the request the token was for.  Boot only raises the flag.    *)
Settles(c, token) ==
  /\ inFlight' = None
  /\ call' = [d \in Callers |->
       IF d # c /\ ~At(d, "waiting") THEN call[d]
       ELSE IF d = Boot THEN Idle
       ELSE [at |-> "requesting", token |-> token, pair |-> None]]
  /\ ready' = (ready \/ c = Boot \/ At(Boot, "waiting"))

-----------------------------------------------------------------------------
(* refreshFromStoredToken() *)

(* Nothing in secure storage: the session is cleared.                       *)
Reads(c) ==
  /\ At(c, "reading")
  /\ IF stored = None
     THEN /\ session' = None
          /\ Settles(c, None)
     ELSE /\ call' = [call EXCEPT ![c] = [@ EXCEPT !.at = "refreshing", !.token = stored]]
          /\ UNCHANGED <<session, inFlight, ready>>
  /\ UNCHANGED <<stored, signIn, signOut, server, lost, mixed, out, bootFailed>>

(* Secure storage rejects: this read is before the try, so the promise      *)
(* rejects for everybody who shares it.  Nobody makes their request, and    *)
(* bootstrapAuth() does not come to raise the flag.                         *)
ReadFails(c) ==
  /\ At(c, "reading")
  /\ inFlight' = None
  /\ call' = [d \in Callers |-> IF d = c \/ At(d, "waiting") THEN Idle ELSE call[d]]
  /\ bootFailed' = (bootFailed \/ c = Boot \/ At(Boot, "waiting"))
  /\ UNCHANGED <<session, stored, signIn, signOut, ready, server, lost, mixed, out>>

Fresh(p) == owner[p] = None

Issues(p, u) ==
  /\ Fresh(p)
  /\ owner' = [owner EXCEPT ![p] = u]

(* POST /auth/refresh rotates the refresh token ...                         *)
Refreshes(c) ==
  LET t == call[c].token IN
  /\ At(c, "refreshing")
  /\ t \in live
  /\ \E p \in Pairs :
       /\ Issues(p, owner[t])
       /\ live' = (live \ {t}) \union {p}
       /\ \/ /\ call' = [call EXCEPT ![c] = [@ EXCEPT !.at = "saving", !.pair = p]]
             /\ UNCHANGED <<inFlight, ready, lost>>
          \/ /\ lost' = lost \union {t}        \* ... or its answer is lost
             /\ Settles(c, None)
  /\ UNCHANGED <<session, stored, signIn, signOut, expired, restarts, mixed,
                 out, bootFailed>>

(* ... or answers with an error, which always counts as a refusal: for a    *)
(* token that is burned or revoked, or because of its own trouble.  So does *)
(* secure storage that throws as the device's id is written ("saved").      *)
Refused(c) ==
  /\ call[c].at \in {"refreshing", "saved", "naming"}
  /\ session' = None
  /\ Settles(c, None)
  /\ UNCHANGED <<stored, signIn, signOut, server, lost, mixed, out, bootFailed>>

(* A timeout or no network: the session is left as it is.                   *)
Unreachable(c) ==
  /\ At(c, "refreshing") \/ At(c, "naming")
  /\ Settles(c, None)
  /\ UNCHANGED <<session, stored, signIn, signOut, server, lost, mixed, out, bootFailed>>

(* Mutant: the rotated refresh token is not written down.                   *)
SavesNothing(c) ==
  /\ At(c, "saving")
  /\ Moves(c, "saved")
  /\ UNCHANGED <<session, stored, inFlight, signIn, signOut, ready, server,
                 lost, mixed, out, bootFailed>>

(* applyRefreshedToken(): the rotated refresh token is written down first.  *)
(* Secure storage that throws counts as a refusal.                          *)
Saves(c) ==
  /\ At(c, "saving")
  /\ stored' = call[c].pair
  /\ Moves(c, "saved")
  /\ UNCHANGED <<session, inFlight, signIn, signOut, ready, server, lost, mixed,
                 out, bootFailed>>

SaveFails(c) ==
  /\ At(c, "saving")
  /\ session' = None
  /\ lost' = lost \union {call[c].token}
  /\ Settles(c, None)
  /\ UNCHANGED <<stored, signIn, signOut, server, mixed, out, bootFailed>>

(* The identity of the session that is there now, or else the server's.     *)
Applies(c) ==
  /\ At(c, "saved")
  /\ IF session # None
     THEN /\ session' = [session EXCEPT !.token = call[c].pair]
          /\ Settles(c, call[c].pair)
     ELSE /\ Moves(c, "naming")
          /\ UNCHANGED <<session, inFlight, ready>>
  /\ UNCHANGED <<stored, signIn, signOut, server, lost, mixed, out, bootFailed>>

Names(c) ==
  LET p == call[c].pair IN
  /\ At(c, "naming")
  /\ p \notin expired
  /\ session' = [user |-> owner[p], token |-> p]
  /\ Settles(c, p)
  /\ UNCHANGED <<stored, signIn, signOut, server, lost, mixed, out, bootFailed>>

-----------------------------------------------------------------------------
(* The request the token was for *)

(* A 401, for a token that has expired or for no token at all, makes the    *)
(* sync client clear the session; the other clients only report it.         *)
Rejected(c) ==
  /\ At(c, "requesting")
  /\ call[c].token = None \/ call[c].token \in expired
  /\ session' = IF c \in SyncCallers THEN None ELSE session
  /\ call' = [call EXCEPT ![c] = Idle]
  /\ UNCHANGED <<stored, inFlight, signIn, signOut, ready, server, lost, mixed,
                 out, bootFailed>>

(* Any other answer, or none.                                               *)
Answered(c) ==
  /\ At(c, "requesting")
  /\ call' = [call EXCEPT ![c] = Idle]
  /\ UNCHANGED <<session, stored, inFlight, signIn, signOut, ready, server,
                 lost, mixed, out, bootFailed>>

-----------------------------------------------------------------------------
(* Signing in and out *)

(* The browser or the form has been through: the server issues a pair.      *)
SignInIssued(kind, u) ==
  /\ ready
  /\ signIn.at = "idle"
  /\ session = None
  /\ \E p \in Pairs :
       /\ Issues(p, u)
       /\ live' = live \union {p}
       /\ signIn' = [at |-> "issued", kind |-> kind, pair |-> p]
  /\ out' = "no"
  /\ UNCHANGED <<session, stored, inFlight, call, signOut, ready, expired,
                 restarts, lost, bootFailed>>
  /\ Overlap

(* Mutant: the identity of the session is left out.                         *)
SetSessionUnnamed == session' = [user |-> None, token |-> signIn.pair]

SetSession == session' = [user |-> owner[signIn.pair], token |-> signIn.pair]

(* GET /auth/me names the user.  The institution's sign-in sets the session *)
(* here, before the refresh token is stored ...                             *)
SignInNamed ==
  /\ signIn.at = "issued"
  /\ signIn' = [signIn EXCEPT !.at = "storing"]
  /\ IF signIn.kind = "saml" THEN SetSession ELSE UNCHANGED session
  /\ UNCHANGED <<stored, inFlight, call, signOut, ready, server, lost, mixed,
                 out, bootFailed>>

(* Mutant: the institution's sign-in does not store its refresh token.      *)
SignInForgets ==
  /\ signIn.at = "storing"
  /\ IF signIn.kind = "saml"
     THEN signIn' = NoSignIn /\ UNCHANGED stored
     ELSE signIn' = [signIn EXCEPT !.at = "stored"] /\ stored' = signIn.pair
  /\ UNCHANGED <<session, inFlight, call, signOut, ready, server, lost, mixed,
                 out, bootFailed>>

SignInStores ==
  /\ signIn.at = "storing"
  /\ stored' = signIn.pair
  /\ signIn' = IF signIn.kind = "saml" THEN NoSignIn ELSE [signIn EXCEPT !.at = "stored"]
  /\ UNCHANGED <<session, inFlight, call, signOut, ready, server, lost, mixed,
                 out, bootFailed>>

(* ... the personal one after, in PersonalAccountScreen.                    *)
SignInEnds ==
  /\ signIn.at = "stored"
  /\ SetSession
  /\ signIn' = NoSignIn
  /\ UNCHANGED <<stored, inFlight, call, signOut, ready, server, lost, mixed,
                 out, bootFailed>>

SignInFails ==
  /\ signIn.at \in {"issued", "storing"}
  /\ signIn' = NoSignIn
  /\ mixed' = (mixed \/ (signIn.at = "storing" /\ signIn.kind = "saml"))
  /\ UNCHANGED <<session, stored, inFlight, call, signOut, ready, server, lost,
                 out, bootFailed>>

(* ProfileScreen's handleSignOut: the session first, then the stored token  *)
(* (DeletesStored), which secure storage may refuse to delete.              *)
SignsOut ==
  /\ ready
  /\ session # None
  /\ ~signOut
  /\ session' = None
  /\ signOut' = TRUE
  /\ out' = IF signIn.at # "idle" THEN "signing" ELSE IF inFlight # None THEN "refreshing" ELSE "quiet"
  /\ UNCHANGED <<stored, inFlight, call, signIn, ready, server, lost, mixed, bootFailed>>

DeletesStored ==
  /\ signOut
  /\ stored' = None
  /\ signOut' = FALSE
  /\ UNCHANGED <<session, inFlight, call, signIn, ready, server, lost, mixed,
                 out, bootFailed>>

(* Nobody catches it and nobody tries again: the token stays.               *)
DeleteFails ==
  /\ signOut
  /\ signOut' = FALSE
  /\ out' = IF out = "quiet" THEN "failed" ELSE IF out = "no" THEN "no" ELSE "undone"
  /\ UNCHANGED <<session, stored, inFlight, call, signIn, ready, server, lost,
                 mixed, bootFailed>>

-----------------------------------------------------------------------------
(* Time, the server and the operating system (external) *)

(* The access tokens that somebody still has: another one's end goes unseen. *)
InHands ==
  {t \in Pairs : \/ session # None /\ session.token = t
                 \/ signIn.pair = t
                 \/ \E c \in Callers : t = (IF At(c, "requesting") THEN call[c].token
                                            ELSE call[c].pair)}

AccessExpires(p) ==
  /\ p \in InHands \ expired
  /\ expired' = expired \union {p}
  /\ UNCHANGED <<session, stored, inFlight, call, signIn, signOut, ready, owner,
                 live, restarts, lost, mixed, out, bootFailed>>

(* The session is ended elsewhere.                                          *)
Revoked(p) ==
  /\ p \in live
  /\ live' = live \ {p}
  /\ lost' = lost \union {p}
  /\ expired' = expired \union {p}
  /\ UNCHANGED <<session, stored, inFlight, call, signIn, signOut, ready, owner,
                 restarts, mixed, out, bootFailed>>

Rotated == {call[c].token : c \in {d \in Callers : At(d, "saving")}}

Restart ==
  /\ restarts < MaxRestarts
  /\ restarts' = restarts + 1
  /\ session' = None
  /\ inFlight' = None
  /\ call' = Booting
  /\ signIn' = NoSignIn
  /\ signOut' = FALSE
  /\ ready' = FALSE
  /\ lost' = lost \union Rotated
  /\ out' = IF signOut THEN "undone" ELSE out
  /\ bootFailed' = FALSE
  /\ UNCHANGED <<stored, owner, live, expired, mixed>>

CallStep(c) ==
  \/ ChecksInFlight(c) \/ Reads(c) \/ ReadFails(c) \/ Refreshes(c) \/ Refused(c)
  \/ Unreachable(c) \/ Saves(c) \/ SaveFails(c) \/ Applies(c) \/ Names(c)
  \/ Rejected(c) \/ Answered(c)

Next ==
  \/ \E c \in Callers : Asks(c) \/ CallStep(c)
  \/ \E kind \in {"saml", "personal"}, u \in Users : SignInIssued(kind, u)
  \/ SignInNamed \/ SignInStores \/ SignInEnds \/ SignInFails
  \/ SignsOut \/ DeletesStored \/ DeleteFails
  \/ \E p \in Pairs : AccessExpires(p) \/ Revoked(p)
  \/ Restart

Spec == Init /\ [][Next]_vars

(* Requests time out, secure storage answers or rejects.                    *)
Fairness == \A c \in Callers : WF_vars(CallStep(c))

FairSpec == Spec /\ Fairness
-----------------------------------------------------------------------------
Refreshing == {"reading", "refreshing", "saving", "saved", "naming"}

(* "Concurrent callers must share one in-flight refresh" (tokenRefresh.ts). *)
OneRefresh ==
  \A c, d \in Callers :
    call[c].at \in Refreshing /\ call[d].at \in Refreshing => c = d

(* The same seen from outside: callers share a refresh the way the callers  *)
(* of a single flight do, across sign-ins, sign-outs and restarts.          *)
Role(c) == IF call[c].at \in Refreshing THEN "leads"
           ELSE IF call[c].at = "waiting" THEN "waits" ELSE "out"

Outside == INSTANCE SingleFlight WITH
  Nobody <- None, flight <- inFlight, role <- [c \in Callers |-> Role(c)]

SharesOneRefresh == Outside!Spec

(* The reason for it: no refresh presents a token the server has burned,    *)
(* unless the answer that carried its successor, or the write of it, was    *)
(* lost, or the session was ended elsewhere.  What secure storage holds     *)
(* between refreshes is as good.                                            *)
NoNeedlessRefusal ==
  /\ \A c \in Callers : At(c, "refreshing") => call[c].token \in live \union lost
  /\ stored # None => stored \in live \union lost \union Rotated

(* The access token in the store belongs to the user the store names, and   *)
(* so does the refresh token that will replace it, unless a refresh and a   *)
(* sign-in overlapped or a sign-in failed between its two writes.           *)
SessionOwnsItsToken ==
  ~mixed /\ session # None =>
    /\ owner[session.token] = session.user
    /\ stored # None /\ signIn.at = "idle" => owner[stored] = session.user

(* Signing out is for good ("the one credential that would otherwise let a  *)
(* cold start sign back in", ProfileScreen.tsx), across restarts and calls  *)
(* that were already under way, if no refresh or sign-in overlapped it and  *)
(* the deletion of the stored token neither failed nor was cut short.       *)
QuietSignOutSticks ==
  out = "quiet" /\ ~signOut => session = None /\ stored = None

(* The session is the reader's: of the account it names, and none once they *)
(* signed out and the deletion of their token went through unaccompanied.   *)
SessionIsTheReaders == SessionOwnsItsToken /\ QuietSignOutSticks

(* ensureFreshToken never leaves its caller waiting, and bootstrapAuth      *)
(* raises _authReady: "either way" (sessionStore.ts) but for one, secure    *)
(* storage that rejects it the stored token (BootIsReady).                  *)
CallsSettle ==
  /\ \A c \in Callers : call[c].at # "idle" ~> call[c].at = "idle"
  /\ ~ready ~> ready \/ bootFailed

-----------------------------------------------------------------------------
(* What comments of the source say, and interleavings contradict.           *)

(* "deleteRefreshToken() removes the one credential that would otherwise    *)
(* let a cold start sign back in without the reader asking to"              *)
(* (ProfileScreen.tsx): also with a refresh in flight.                      *)
SignOutSticks ==
  out \in {"quiet", "refreshing"} /\ ~signOut => session = None /\ stored = None

(* The same, with nothing under way at all as the reader signs out: secure  *)
(* storage may still refuse to delete the token.                            *)
FailedSignOutSticks ==
  out \in {"quiet", "failed"} /\ ~signOut => session = None /\ stored = None

(* "bootstrapAuth flips sessionStore._authReady itself, on both success and *)
(* failure, which is what RootNavigator actually gates on" (App.tsx).       *)
BootIsReady == ~ready ~> ready
=============================================================================
