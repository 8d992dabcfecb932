--------------------------- MODULE SyncScheduler ---------------------------
(***************************************************************************)
(* When the reader's Sync Manager runs.                                    *)
(*                                                                         *)
(* syncEngine.run() is single-flight: the promise of the current run is    *)
(* kept in inFlight and later callers share it, leaving queuedRun behind   *)
(* so that the run looks at the outbox once more before it settles.  Runs  *)
(* are asked for by a debounce timer armed on every local write            *)
(* (syncTrigger.ts), by the offline -> online edge and by the background   *)
(* -> foreground edge (useAutoSync.ts), and by a sync button.              *)
(*                                                                         *)
(* A run is a chain of promise continuations, and any other callback of    *)
(* the JavaScript thread can run between two of them, so every             *)
(* continuation is an action of its own.  What a run does with one outbox  *)
(* operation is the subject of SyncEngine; here an operation is just sent  *)
(* or not.                                                                 *)
(***************************************************************************)
EXTENDS Naturals, FiniteSets

CONSTANTS
  Edits,     \* local edits, each queueing one outbox operation
  Chains,    \* promise chains of run() that can be unsettled together (bound)
  NoChain,   \* inFlight when no run is in flight
  MaxRestarts \* restarts of the application (bound)

ASSUME NoChainAssumption == NoChain \notin Chains
ASSUME MaxRestartsAssumption == MaxRestarts \in Nat

VARIABLES
  outbox,        \* edits whose operation is still in the outbox
  timer,         \* the debounce timer of syncTrigger.ts is armed
  inFlight,      \* the chain whose promise run() hands out, or NoChain
  queuedRun,     \* a caller arrived while a run was in flight
  chain,         \* chain -> where its continuations are
  deviceOnline,  \* the device has a network attached
  hookOnline,    \* what useConnectivity last told useAutoSync
  foreground,    \* AppState is "active"
  restarts,      \* how often the process has died so far
  failedOn       \* history: edits a failed run had in its snapshot

vars == <<outbox, timer, inFlight, queuedRun, chain, deviceOnline, hookOnline,
          foreground, restarts, failedOn>>

environment == <<deviceOnline, hookOnline, foreground, restarts>>

Stages    == {"settled", "listing", "draining", "pulling", "ranFinally",
              "counting", "joined", "emitting"}
Executing == {"listing", "draining", "pulling"}

Idle == [stage |-> "settled", snapshot |-> {}, on |-> NoChain]

Live == {c \in Chains : chain[c].stage # "settled"}

ChainRecord == [stage : Stages, snapshot : SUBSET Edits,
                on : Chains \union {NoChain}]

TypeOK ==
  /\ outbox \subseteq Edits
  /\ timer \in BOOLEAN
  /\ inFlight \in Chains \union {NoChain}
  /\ queuedRun \in BOOLEAN
  /\ chain \in [Chains -> ChainRecord]
  /\ deviceOnline \in BOOLEAN
  /\ hookOnline \in BOOLEAN
  /\ foreground \in BOOLEAN
  /\ restarts \in 0..MaxRestarts
  /\ failedOn \subseteq Edits

Init ==
  /\ outbox = {}
  /\ timer = FALSE
  /\ inFlight = NoChain
  /\ queuedRun = FALSE
  /\ chain = [c \in Chains |-> Idle]
  /\ deviceOnline \in BOOLEAN
  /\ hookOnline = FALSE
  /\ foreground = TRUE
  /\ restarts = 0
  /\ failedOn = {}

-----------------------------------------------------------------------------
(* Mutant: run() without the test of inFlight.                             *)
RunStartsAlways(c) ==
  /\ chain[c].stage = "settled"
  /\ inFlight' = c
  /\ queuedRun' = queuedRun

(* syncEngine.run(): execute() starts at once and inFlight is its promise,  *)
(* or the call only leaves a note that it came.                             *)
RunStarts(c) ==
  /\ inFlight = NoChain
  /\ chain[c].stage = "settled"
  /\ inFlight' = c
  /\ queuedRun' = queuedRun

RunQueues ==
  /\ inFlight # NoChain
  /\ queuedRun' = TRUE
  /\ inFlight' = inFlight

Started(c) == [Idle EXCEPT !.stage = "listing"]

(* A call from outside a run.  Room for a rerun of every live chain is left *)
(* so that the bound on Chains never disables run()'s own rerun.            *)
RunCall ==
  \/ \E c \in Chains :
       /\ Cardinality(Live) + 2 <= Cardinality(Chains)
       /\ RunStarts(c)
       /\ chain' = [chain EXCEPT ![c] = Started(c)]
  \/ /\ Cardinality(Live) + 2 <= Cardinality(Chains)
     /\ RunQueues
     /\ UNCHANGED chain

(* Mutant: a write that does not arm the timer.                             *)
SaveLocalSilently(e) ==
  /\ e \notin outbox \union failedOn
  /\ outbox' = outbox \union {e}
  /\ UNCHANGED <<timer, inFlight, queuedRun, chain, environment, failedOn>>

(* A local edit: its operation is queued, the debounce timer re-armed.      *)
SaveLocal(e) ==
  /\ e \notin outbox \union failedOn
  /\ outbox' = outbox \union {e}
  /\ timer' = TRUE
  /\ UNCHANGED <<inFlight, queuedRun, chain, environment, failedOn>>

TimerFires ==
  /\ timer
  /\ timer' = FALSE
  /\ RunCall
  /\ UNCHANGED <<outbox, environment, failedOn>>

SyncPressed ==
  /\ RunCall
  /\ UNCHANGED <<outbox, timer, environment, failedOn>>

(* NetInfo reports; only the offline -> online edge asks for a run.         *)
ConnectivityReported ==
  /\ hookOnline # deviceOnline
  /\ hookOnline' = deviceOnline
  /\ IF deviceOnline THEN RunCall ELSE UNCHANGED <<inFlight, queuedRun, chain>>
  /\ UNCHANGED <<outbox, timer, deviceOnline, foreground, restarts, failedOn>>

AppStateChanged ==
  /\ foreground' = ~foreground
  /\ IF ~foreground THEN RunCall ELSE UNCHANGED <<inFlight, queuedRun, chain>>
  /\ UNCHANGED <<outbox, timer, deviceOnline, hookOnline, restarts, failedOn>>

NetworkChanges ==
  /\ deviceOnline' = ~deviceOnline
  /\ UNCHANGED <<outbox, timer, inFlight, queuedRun, chain, hookOnline,
                 foreground, restarts, failedOn>>

(* The process dies and starts again: SQLite survives, promises, flags and  *)
(* the timer do not, and useAutoSync starts from "not online".              *)
Restart ==
  /\ restarts < MaxRestarts
  /\ restarts' = restarts + 1
  /\ timer' = FALSE
  /\ inFlight' = NoChain
  /\ queuedRun' = FALSE
  /\ chain' = [c \in Chains |-> Idle]
  /\ hookOnline' = FALSE
  /\ foreground' = TRUE
  /\ UNCHANGED <<outbox, deviceOnline, failedOn>>

-----------------------------------------------------------------------------
(* execute(): push() lists the outbox once, drains that snapshot, then      *)
(* pull().  A transient failure ends the run with the queue intact.         *)
Lists(c) ==
  /\ chain[c].stage = "listing"
  /\ chain' = [chain EXCEPT ![c].stage = "draining", ![c].snapshot = outbox]
  /\ UNCHANGED <<outbox, timer, inFlight, queuedRun, environment, failedOn>>

Pushes(c) ==
  \E e \in chain[c].snapshot :
    /\ chain[c].stage = "draining"
    /\ deviceOnline
    /\ outbox' = outbox \ {e}
    /\ chain' = [chain EXCEPT ![c].snapshot = @ \ {e}]
    /\ UNCHANGED <<timer, inFlight, queuedRun, environment, failedOn>>

Drained(c) ==
  /\ chain[c].stage = "draining"
  /\ chain[c].snapshot = {}
  /\ chain' = [chain EXCEPT ![c].stage = "pulling"]
  /\ UNCHANGED <<outbox, timer, inFlight, queuedRun, environment, failedOn>>

(* Mutant: no .finally, so the settled promise is still handed out.         *)
FinallyKeeps(c) ==
  /\ inFlight' = inFlight
  /\ chain' = [chain EXCEPT ![c].stage = "ranFinally"]

(* .finally: the promise of the run is no longer handed out.                *)
Finally(c) ==
  /\ inFlight' = NoChain
  /\ chain' = [chain EXCEPT ![c].stage = "ranFinally"]

ExecuteFails(c) ==
  /\ \/ chain[c].stage = "draining" /\ chain[c].snapshot # {}
     \/ chain[c].stage = "pulling"
  /\ Finally(c)
  /\ failedOn' = failedOn \union chain[c].snapshot
  /\ UNCHANGED <<outbox, timer, queuedRun, environment>>

ExecuteEnds(c) ==
  /\ chain[c].stage = "pulling"
  /\ deviceOnline
  /\ Finally(c)
  /\ UNCHANGED <<outbox, timer, queuedRun, environment, failedOn>>

(* First .then: somebody called meanwhile, so count what is still pending.  *)
ChecksQueuedRun(c) ==
  /\ chain[c].stage = "ranFinally"
  /\ queuedRun' = FALSE
  /\ chain' = [chain EXCEPT ![c].stage = IF queuedRun THEN "counting"
                                                      ELSE "emitting"]
  /\ UNCHANGED <<outbox, timer, inFlight, environment, failedOn>>

(* The rerun: this chain now settles with the chain run() returned.         *)
CountsPending(c) ==
  /\ chain[c].stage = "counting"
  /\ \/ /\ outbox = {}
        /\ chain' = [chain EXCEPT ![c].stage = "emitting"]
        /\ UNCHANGED <<inFlight, queuedRun>>
     \/ /\ outbox # {}
        /\ RunQueues
        /\ chain' = [chain EXCEPT ![c].stage = "joined", ![c].on = inFlight]
     \/ \E d \in Chains :
          /\ outbox # {}
          /\ RunStarts(d)
          /\ chain' = [chain EXCEPT ![c].stage = "joined", ![c].on = d,
                                    ![d] = Started(d)]
  /\ UNCHANGED <<outbox, timer, environment, failedOn>>

(* Last .then: SYNC_COMPLETED goes out, and the chains that joined this one *)
(* settle too.                                                              *)
Emits(c) ==
  /\ chain[c].stage = "emitting"
  /\ chain' = [d \in Chains |->
       IF d = c THEN Idle
       ELSE IF chain[d].stage = "joined" /\ chain[d].on = c
            THEN [chain[d] EXCEPT !.stage = "emitting", !.on = NoChain]
            ELSE chain[d]]
  /\ UNCHANGED <<outbox, timer, inFlight, queuedRun, environment, failedOn>>

-----------------------------------------------------------------------------
RunStep(c) ==
  \/ Lists(c) \/ Pushes(c) \/ Drained(c) \/ ExecuteFails(c) \/ ExecuteEnds(c)
  \/ ChecksQueuedRun(c) \/ CountsPending(c) \/ Emits(c)

Next ==
  \/ \E e \in Edits : SaveLocal(e)
  \/ TimerFires
  \/ SyncPressed
  \/ ConnectivityReported
  \/ AppStateChanged
  \/ NetworkChanges
  \/ Restart
  \/ \E c \in Chains : RunStep(c)

Spec == Init /\ [][Next]_vars

(* Timers fire, NetInfo reports and promises settle (a request ends by      *)
(* itself after REQUEST_TIMEOUT_MS); users, networks and the operating      *)
(* system owe nothing.                                                      *)
Fairness ==
  /\ WF_vars(TimerFires)
  /\ WF_vars(ConnectivityReported)
  /\ \A c \in Chains : WF_vars(RunStep(c))

FairSpec == Spec /\ Fairness

-----------------------------------------------------------------------------
(* "Concurrent calls share one run rather than racing each other"           *)
(* (syncEngine.ts run()): at no time are two executions of push and pull    *)
(* under way, whatever mixture of timer, edges and reruns asked for them.   *)
OneExecution ==
  \A c, d \in Chains :
    chain[c].stage \in Executing /\ chain[d].stage \in Executing => c = d

(* The same seen from outside: chains share one execution the way the       *)
(* callers of a single flight do, and a chain that asked for a rerun waits  *)
(* for it and does no work of its own.                                      *)
Role(c) == IF chain[c].stage \in Executing THEN "leads"
           ELSE IF chain[c].stage = "joined" THEN "waits" ELSE "out"

Outside == INSTANCE SingleFlight WITH
  Callers <- Chains, Nobody <- NoChain, flight <- inFlight, role <- [c \in Chains |-> Role(c)]

SharesOneRun == Outside!Spec

(* A run that reruns returns the promise of another run: following those    *)
(* promises never comes back to where it started, or every caller of run()  *)
(* would wait for ever.                                                     *)
NoCircularWait ==
  \A S \in (SUBSET Chains) \ {{}} :
    \E c \in S : ~(chain[c].stage = "joined" /\ chain[c].on \in S)

(* A queued edit is not forgotten while the device has a network: it leaves *)
(* the outbox, or a run that had listed it failed (and the queue is kept    *)
(* for the next trigger), or the network goes.  Holds across a restart.     *)
EditIsAttempted ==
  \A e \in Edits :
    e \in outbox ~> (e \notin outbox \/ e \in failedOn \/ ~deviceOnline)
=============================================================================
