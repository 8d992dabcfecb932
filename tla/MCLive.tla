------------------------------- MODULE MCLive -------------------------------
(* What must eventually happen, for TLC: the calls of a session, the offers *)
(* of the queue, the writers beside downloads, the access of a book that is *)
(* open.  They share no state; `machine` says which of them a behaviour is  *)
(* of, and fairness is that of its own steps.                               *)
EXTENDS Offers, Downloads, ReaderSession

CONSTANTS Users, Pairs, Requests, Boot, SyncRequests

VARIABLES
  session, stored, inFlight, request, signIn, signOut, ready, owner, live, expired,
  deaths, lost, mixed, out, bootFailed, machine

T == INSTANCE TokenSession WITH
       Callers <- Requests, SyncCallers <- SyncRequests, MaxRestarts <- 1,
       call <- request, restarts <- deaths

tokenVars == <<session, stored, inFlight, request, signIn, signOut, ready, owner, live,
               expired, deaths, lost, mixed, out, bootFailed>>

vars == <<tokenVars, offerVars, downloadVars, readerVars, machine>>

Init ==
  /\ machine \in {"token", "offers", "downloads", "session"}
  /\ T!Init /\ OffersInit /\ DownloadInit /\ ReaderInit

Next ==
  /\ machine' = machine
  /\ \/ machine = "token" /\ T!Next /\ UNCHANGED <<offerVars, downloadVars, readerVars>>
     \/ machine = "offers" /\ OffersNext /\ UNCHANGED <<library, tokenVars, downloadVars, readerVars>>
     \/ machine = "downloads" /\ DownloadNext /\ UNCHANGED <<tokenVars, offerVars, readerVars>>
     \/ machine = "session" /\ ReaderNext /\ UNCHANGED <<tokenVars, offerVars, downloadVars>>

Fairness ==
  /\ \A c \in Requests : WF_tokenVars(machine = "token" /\ T!CallStep(c))
  /\ \A t \in Ticks : WF_offerVars(machine = "offers" /\ PollStep(t))
  /\ DownloadFairness
  /\ ReaderFairness

Spec == Init /\ [][Next]_vars /\ Fairness

(* ensureFreshToken never leaves its caller waiting, and bootstrapAuth      *)
(* raises _authReady, unless secure storage rejects it the stored token.    *)
CallsSettle ==
  /\ \A c \in Requests : machine = "token" /\ request[c].at # "idle" ~> request[c].at = "idle"
  /\ machine = "token" /\ ~ready ~> ready \/ bootFailed
=============================================================================
