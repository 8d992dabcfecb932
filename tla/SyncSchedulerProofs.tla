------------------------ MODULE SyncSchedulerProofs ------------------------
(***************************************************************************)
(* For any number of chains and edits: the Sync Manager never executes two *)
(* runs at once, and no run waits for itself.  Both rest on one fact about *)
(* syncEngine.run(): inFlight names the chain that is executing, exactly   *)
(* as long as it does.                                                     *)
(***************************************************************************)
EXTENDS SyncScheduler, TLAPS

(* inFlight and the executing chain are the same thing.                     *)
InFlightExecutes ==
  /\ \A c \in Chains : chain[c].stage \in Executing => inFlight = c
  /\ inFlight # NoChain => chain[inFlight].stage \in Executing

(* Every variable keeps its type.                                           *)
THEOREM TypeCorrect == Spec => []TypeOK
<1>1. Init => TypeOK
  <2> SUFFICES ASSUME Init PROVE TypeOK
    OBVIOUS
  <2>1. Idle \in ChainRecord
    BY DEF Idle, ChainRecord, Stages
  <2>2. chain \in [Chains -> ChainRecord]
    BY <2>1 DEF Init
  <2>3. restarts \in 0..MaxRestarts
    BY MaxRestartsAssumption DEF Init
  <2> QED BY <2>2, <2>3 DEF Init, TypeOK, ChainRecord
<1>2. TypeOK /\ [Next]_vars => TypeOK'
  <2> SUFFICES ASSUME TypeOK, [Next]_vars PROVE TypeOK'
    OBVIOUS
  <2> USE DEF TypeOK
  <2>a. Idle \in ChainRecord /\ \A c \in Chains : Started(c) \in ChainRecord
    BY DEF Idle, Started, ChainRecord, Stages
  <2>b. ASSUME RunCall
        PROVE  /\ inFlight' \in Chains \union {NoChain}
               /\ queuedRun' \in BOOLEAN
               /\ chain' \in [Chains -> ChainRecord]
    BY <2>a, <2>b DEF RunCall, RunStarts, RunQueues
  <2>1. ASSUME NEW e \in Edits, SaveLocal(e) PROVE TypeOK'
    BY <2>1 DEF SaveLocal, environment
  <2>2. CASE TimerFires
    BY <2>2, <2>b DEF TimerFires, environment
  <2>3. CASE SyncPressed
    BY <2>3, <2>b DEF SyncPressed, environment
  <2>4. CASE ConnectivityReported
    BY <2>4, <2>b DEF ConnectivityReported
  <2>5. CASE AppStateChanged
    BY <2>5, <2>b DEF AppStateChanged
  <2>6. CASE NetworkChanges
    BY <2>6 DEF NetworkChanges
  <2>7. CASE Restart
    <3>1. chain' \in [Chains -> ChainRecord]
      BY <2>7, <2>a DEF Restart
    <3>2. restarts' \in 0..MaxRestarts
      BY <2>7, MaxRestartsAssumption DEF Restart
    <3> QED BY <2>7, <3>1, <3>2 DEF Restart
  <2>8. ASSUME NEW c \in Chains, RunStep(c) PROVE TypeOK'
    <3>1. CASE Lists(c)
      <4>1. chain' \in [Chains -> ChainRecord]
        <5>1. [chain[c] EXCEPT !.stage = "draining", !.snapshot = outbox]
                \in ChainRecord
          BY DEF ChainRecord, Stages
        <5>2. chain' = [chain EXCEPT ![c] =
                [chain[c] EXCEPT !.stage = "draining", !.snapshot = outbox]]
          BY <3>1 DEF Lists
        <5> QED BY <5>1, <5>2
      <4> QED BY <3>1, <4>1 DEF Lists, environment
    <3>2. CASE Pushes(c)
      <4>1. chain' \in [Chains -> ChainRecord]
        BY <3>2 DEF Pushes, ChainRecord
      <4> QED BY <3>2, <4>1 DEF Pushes, environment
    <3>3. CASE Drained(c)
      <4>1. chain' \in [Chains -> ChainRecord]
        BY <3>3 DEF Drained, ChainRecord, Stages
      <4> QED BY <3>3, <4>1 DEF Drained, environment
    <3>4. ASSUME Finally(c)
          PROVE inFlight' = NoChain /\ chain' \in [Chains -> ChainRecord]
      BY <3>4 DEF Finally, ChainRecord, Stages
    <3>5. CASE ExecuteFails(c)
      <4>1. chain[c].snapshot \subseteq Edits
        BY DEF ChainRecord
      <4> QED BY <3>5, <3>4, <4>1
              DEF ExecuteFails, environment
    <3>6. CASE ExecuteEnds(c)
      BY <3>6, <3>4 DEF ExecuteEnds, environment
    <3>7. CASE ChecksQueuedRun(c)
      <4>1. chain' \in [Chains -> ChainRecord]
        BY <3>7 DEF ChecksQueuedRun, ChainRecord, Stages
      <4> QED BY <3>7, <4>1 DEF ChecksQueuedRun, environment
    <3>8. CASE CountsPending(c)
      <4>1. CASE /\ chain' = [chain EXCEPT ![c].stage = "emitting"]
                 /\ UNCHANGED <<inFlight, queuedRun>>
        <5>1. chain' \in [Chains -> ChainRecord]
          BY <4>1 DEF ChainRecord, Stages
        <5> QED BY <3>8, <4>1, <5>1
                DEF CountsPending, environment
      <4>2. CASE /\ RunQueues
                 /\ chain' = [chain EXCEPT ![c].stage = "joined", ![c].on = inFlight]
        <5>1. chain' \in [Chains -> ChainRecord]
          <6>1. [chain[c] EXCEPT !.stage = "joined", !.on = inFlight]
                  \in ChainRecord
            BY DEF ChainRecord, Stages
          <6>2. chain' = [chain EXCEPT ![c] =
                  [chain[c] EXCEPT !.stage = "joined", !.on = inFlight]]
            BY <4>2
          <6> QED BY <6>1, <6>2
        <5> QED BY <3>8, <4>2, <5>1
                DEF CountsPending, RunQueues, environment
      <4>3. ASSUME NEW d \in Chains, RunStarts(d),
                   chain' = [chain EXCEPT ![c].stage = "joined", ![c].on = d,
                                          ![d] = Started(d)]
            PROVE TypeOK'
        <5>1. chain' \in [Chains -> ChainRecord]
          BY <4>3, <2>a DEF ChainRecord, Stages
        <5> QED BY <3>8, <4>3, <5>1
                DEF CountsPending, RunStarts, environment
      <4> QED BY <3>8, <4>1, <4>2, <4>3 DEF CountsPending
    <3>9. CASE Emits(c)
      <4>1. \A d \in Chains :
              chain[d] \in ChainRecord
                => [chain[d] EXCEPT !.stage = "emitting", !.on = NoChain] \in ChainRecord
        BY DEF ChainRecord, Stages
      <4>2. chain' \in [Chains -> ChainRecord]
        BY <3>9, <2>a, <4>1 DEF Emits
      <4> QED BY <3>9, <4>2 DEF Emits, environment
    <3> QED BY <2>8, <3>1, <3>2, <3>3, <3>5, <3>6, <3>7, <3>8, <3>9 DEF RunStep
  <2>9. CASE UNCHANGED vars
    BY <2>9 DEF vars
  <2> QED BY <2>1, <2>2, <2>3, <2>4, <2>5, <2>6, <2>7, <2>8, <2>9 DEF Next
<1> QED BY <1>1, <1>2, PTL DEF Spec

(* A step that leaves inFlight and the stage of every chain except some     *)
(* chains that do not execute and do not join keeps the invariant; this is  *)
(* the step of one chain between two stages of one kind.                    *)
LEMMA MovesOn ==
  ASSUME InFlightExecutes, NoCircularWait, NEW D \in SUBSET Chains,
         inFlight' = inFlight,
         \A d \in Chains \ D : chain'[d] = chain[d],
         \A d \in D : /\ chain[d].stage \in Executing <=> chain'[d].stage \in Executing
                      /\ chain'[d].stage # "joined",
         inFlight \in Chains \union {NoChain}
  PROVE  InFlightExecutes' /\ NoCircularWait'
<1>1. \A d \in Chains : chain[d].stage \in Executing <=> chain'[d].stage \in Executing
  OBVIOUS
<1>2. InFlightExecutes'
  BY <1>1 DEF InFlightExecutes, Executing
<1>3. ASSUME NEW S \in (SUBSET Chains) \ {{}}
      PROVE  \E c \in S : ~(chain'[c].stage = "joined" /\ chain'[c].on \in S)
  <2>1. PICK c \in S : ~(chain[c].stage = "joined" /\ chain[c].on \in S)
    BY <1>3 DEF NoCircularWait
  <2>2. CASE c \in D
    BY <2>1, <2>2
  <2>3. CASE c \notin D
    BY <2>1, <2>3, chain'[c] = chain[c]
  <2> QED BY <2>2, <2>3
<1> QED BY <1>2, <1>3 DEF NoCircularWait

(* The chain d starts, and perhaps c settles with it: d waits for nobody,   *)
(* so a set of waiting chains that closes on itself cannot contain it.      *)
LEMMA StartsRun ==
  ASSUME InFlightExecutes, NoCircularWait, NEW d \in Chains, NEW c \in Chains,
         NoChain \notin Chains, RunStarts(d), chain'[d] = Started(d),
         \A x \in Chains \ {c, d} : chain'[x] = chain[x],
         \/ chain'[c] = chain[c]
         \/ c = d
         \/ /\ chain[c].stage \notin Executing
            /\ chain'[c].stage = "joined" /\ chain'[c].on = d
  PROVE  InFlightExecutes' /\ NoCircularWait'
<1>1. \A x \in Chains : chain[x].stage \notin Executing
  BY DEF InFlightExecutes, RunStarts
<1>2. chain'[d].stage = "listing"
  BY DEF Started, Idle
<1>3. InFlightExecutes'
  BY <1>1, <1>2 DEF InFlightExecutes, RunStarts, Executing
<1>4. ASSUME NEW S \in (SUBSET Chains) \ {{}}
      PROVE  \E x \in S : ~(chain'[x].stage = "joined" /\ chain'[x].on \in S)
  <2>1. CASE d \in S
    BY <2>1, <1>2
  <2>2. CASE d \notin S
    <3>1. PICK x \in S : ~(chain[x].stage = "joined" /\ chain[x].on \in S)
      BY <1>4 DEF NoCircularWait
    <3>2. x = c \/ chain'[x] = chain[x]
      BY <2>2
    <3> QED BY <2>2, <3>1, <3>2
  <2> QED BY <2>1, <2>2
<1> QED BY <1>3, <1>4 DEF NoCircularWait

(* A call of run(): a new chain starts, or none changes.                    *)
LEMMA Calls ==
  ASSUME TypeOK, InFlightExecutes, NoCircularWait, RunCall
  PROVE  InFlightExecutes' /\ NoCircularWait'
<1>1. ASSUME NEW d \in Chains, RunStarts(d), chain' = [chain EXCEPT ![d] = Started(d)]
      PROVE  InFlightExecutes' /\ NoCircularWait'
  <2>1. chain'[d] = Started(d) /\ \A x \in Chains \ {d} : chain'[x] = chain[x]
    BY <1>1 DEF TypeOK
  <2> QED BY <1>1, <2>1, NoChainAssumption, StartsRun
<1>2. CASE RunQueues /\ UNCHANGED chain
  BY <1>2 DEF RunQueues, InFlightExecutes, NoCircularWait
<1> QED BY <1>1, <1>2 DEF RunCall

(* execute() ends: inFlight is cleared and its chain no longer executes.    *)
LEMMA EndsExecution ==
  ASSUME TypeOK, InFlightExecutes, NoCircularWait, NEW c \in Chains,
         chain[c].stage \in Executing, Finally(c)
  PROVE  InFlightExecutes' /\ NoCircularWait'
<1>1. chain'[c].stage = "ranFinally" /\ \A x \in Chains \ {c} : chain'[x] = chain[x]
  BY DEF Finally, TypeOK, ChainRecord
<1>2. InFlightExecutes'
  BY <1>1 DEF InFlightExecutes, Finally, Executing
<1>3. ASSUME NEW S \in (SUBSET Chains) \ {{}}
      PROVE  \E x \in S : ~(chain'[x].stage = "joined" /\ chain'[x].on \in S)
  <2>1. PICK x \in S : ~(chain[x].stage = "joined" /\ chain[x].on \in S)
    BY <1>3 DEF NoCircularWait
  <2>2. x \in Chains
    BY <1>3
  <2> QED BY <1>1, <2>1, <2>2
<1> QED BY <1>2, <1>3 DEF NoCircularWait

(* Every step keeps inFlight equal to the executing chain and the promises  *)
(* free of cycles.                                                          *)
LEMMA Inductive ==
  ASSUME TypeOK, InFlightExecutes, NoCircularWait, [Next]_vars
  PROVE  InFlightExecutes' /\ NoCircularWait'
<1>a. ASSUME UNCHANGED <<inFlight, chain>> PROVE InFlightExecutes' /\ NoCircularWait'
  BY <1>a DEF InFlightExecutes, NoCircularWait
<1>1. ASSUME NEW e \in Edits, SaveLocal(e) PROVE InFlightExecutes' /\ NoCircularWait'
  BY <1>1, <1>a DEF SaveLocal
<1>2. CASE TimerFires
  BY <1>2, Calls DEF TimerFires
<1>3. CASE SyncPressed
  BY <1>3, Calls DEF SyncPressed
<1>4. CASE ConnectivityReported
  BY <1>4, <1>a, Calls DEF ConnectivityReported
<1>5. CASE AppStateChanged
  BY <1>5, <1>a, Calls DEF AppStateChanged
<1>6. CASE NetworkChanges
  BY <1>6, <1>a DEF NetworkChanges
<1>7. CASE Restart
  <2>1. inFlight' = NoChain /\ \A c \in Chains : chain'[c].stage = "settled"
    BY <1>7 DEF Restart, Idle
  <2> QED BY <2>1 DEF InFlightExecutes, NoCircularWait, Executing
<1>8. ASSUME NEW c \in Chains, RunStep(c) PROVE InFlightExecutes' /\ NoCircularWait'
  <2>a. inFlight \in Chains \union {NoChain}
    BY DEF TypeOK
  <2>b. ASSUME NEW stage \in Stages \ {"joined"}, inFlight' = inFlight,
               chain'[c].stage = stage, \A x \in Chains \ {c} : chain'[x] = chain[x],
               chain[c].stage \in Executing <=> stage \in Executing
        PROVE  InFlightExecutes' /\ NoCircularWait'
    <3>1. {c} \in SUBSET Chains
      OBVIOUS
    <3> QED BY <2>a, <2>b, <3>1, MovesOn
  <2>1. CASE Lists(c)
    BY <2>1, <2>b DEF Lists, TypeOK, ChainRecord, Executing, Stages
  <2>2. CASE Pushes(c)
    <3>1. chain'[c].stage = "draining" /\ \A x \in Chains \ {c} : chain'[x] = chain[x]
      BY <2>2 DEF Pushes, TypeOK, ChainRecord
    <3>2. inFlight' = inFlight /\ chain[c].stage = "draining"
      BY <2>2 DEF Pushes
    <3> QED BY <3>1, <3>2, <2>b DEF Executing, Stages
  <2>3. CASE Drained(c)
    BY <2>3, <2>b DEF Drained, TypeOK, ChainRecord, Executing, Stages
  <2>4. CASE ExecuteFails(c)
    BY <2>4, EndsExecution DEF ExecuteFails, Executing
  <2>5. CASE ExecuteEnds(c)
    BY <2>5, EndsExecution DEF ExecuteEnds, Executing
  <2>6. CASE ChecksQueuedRun(c)
    <3>1. /\ chain'[c].stage \in {"counting", "emitting"}
          /\ \A x \in Chains \ {c} : chain'[x] = chain[x]
          /\ inFlight' = inFlight /\ chain[c].stage = "ranFinally"
      BY <2>6 DEF ChecksQueuedRun, TypeOK, ChainRecord
    <3> QED BY <3>1, <2>b DEF Executing, Stages
  <2>7. CASE CountsPending(c)
    <3>1. CASE /\ chain' = [chain EXCEPT ![c].stage = "emitting"]
               /\ UNCHANGED <<inFlight, queuedRun>>
      <4>1. /\ chain'[c].stage = "emitting" /\ inFlight' = inFlight
            /\ \A x \in Chains \ {c} : chain'[x] = chain[x]
            /\ chain[c].stage = "counting"
        BY <2>7, <3>1 DEF CountsPending, TypeOK, ChainRecord
      <4> QED BY <4>1, <2>b DEF Executing, Stages
    <3>2. CASE /\ RunQueues
               /\ chain' = [chain EXCEPT ![c].stage = "joined", ![c].on = inFlight]
      <4>1. /\ inFlight \in Chains /\ inFlight' = inFlight
            /\ chain[c].stage = "counting"
            /\ chain'[c].stage = "joined" /\ chain'[c].on = inFlight
            /\ \A x \in Chains \ {c} : chain'[x] = chain[x]
        <5>1. inFlight \in Chains /\ inFlight' = inFlight
          BY <2>a, <3>2 DEF RunQueues
        <5>2. chain[c].stage = "counting"
          BY <2>7 DEF CountsPending
        <5>3. chain' = [chain EXCEPT ![c] =
                [chain[c] EXCEPT !.stage = "joined", !.on = inFlight]]
          BY <3>2
        <5>4. /\ chain'[c] = [chain[c] EXCEPT !.stage = "joined", !.on = inFlight]
              /\ \A x \in Chains \ {c} : chain'[x] = chain[x]
          BY <5>3 DEF TypeOK
        <5>5. chain[c] \in ChainRecord
          BY DEF TypeOK
        <5>6. chain'[c].stage = "joined" /\ chain'[c].on = inFlight
          BY <5>4, <5>5 DEF ChainRecord
        <5> QED BY <5>1, <5>2, <5>4, <5>6
      <4>2. chain[inFlight].stage \in Executing /\ inFlight # c
        BY <4>1, <2>a, NoChainAssumption DEF InFlightExecutes, Executing
      <4>3. InFlightExecutes'
        BY <4>1, <4>2 DEF InFlightExecutes, Executing
      <4>4. ASSUME NEW S \in (SUBSET Chains) \ {{}}
            PROVE  \E x \in S : ~(chain'[x].stage = "joined" /\ chain'[x].on \in S)
        <5>1. CASE inFlight \in S
          BY <5>1, <4>1, <4>2 DEF Executing
        <5>2. CASE inFlight \notin S
          <6>1. PICK x \in S : ~(chain[x].stage = "joined" /\ chain[x].on \in S)
            BY <4>4 DEF NoCircularWait
          <6>2. x \in Chains
            BY <4>4
          <6> QED BY <4>1, <5>2, <6>1, <6>2
        <5> QED BY <5>1, <5>2
      <4> QED BY <4>3, <4>4 DEF NoCircularWait
    <3>3. ASSUME NEW d \in Chains, RunStarts(d),
                 chain' = [chain EXCEPT ![c].stage = "joined", ![c].on = d,
                                        ![d] = Started(d)]
          PROVE  InFlightExecutes' /\ NoCircularWait'
      <4>1. chain[c].stage = "counting" /\ c # d
        BY <2>7, <3>3 DEF CountsPending, RunStarts
      <4>2. /\ chain'[d] = Started(d)
            /\ chain'[c].stage = "joined" /\ chain'[c].on = d
            /\ \A x \in Chains \ {c, d} : chain'[x] = chain[x]
        BY <3>3, <4>1 DEF TypeOK, ChainRecord
      <4> QED BY <3>3, <4>1, <4>2, NoChainAssumption, StartsRun DEF Executing
    <3> QED BY <2>7, <3>1, <3>2, <3>3 DEF CountsPending
  <2>8. CASE Emits(c)
    <3> DEFINE D == {d \in Chains : chain'[d] # chain[d]}
    <3>1. \A d \in D : /\ d = c \/ chain[d].stage = "joined"
                       /\ chain'[d].stage \in {"settled", "emitting"}
      BY <2>8 DEF Emits, Idle, TypeOK, ChainRecord
    <3>2. inFlight' = inFlight /\ chain[c].stage = "emitting"
      BY <2>8 DEF Emits
    <3>3. \A d \in D : /\ chain[d].stage \in Executing <=> chain'[d].stage \in Executing
                       /\ chain'[d].stage # "joined"
      BY <3>1, <3>2 DEF Executing
    <3>4. D \in SUBSET Chains /\ \A d \in Chains \ D : chain'[d] = chain[d]
      OBVIOUS
    <3> HIDE DEF D
    <3> QED BY <2>a, <3>2, <3>3, <3>4, MovesOn
  <2> QED BY <1>8, <2>1, <2>2, <2>3, <2>4, <2>5, <2>6, <2>7, <2>8 DEF RunStep
<1>9. CASE UNCHANGED vars
  BY <1>9, <1>a DEF vars
<1> QED BY <1>1, <1>2, <1>3, <1>4, <1>5, <1>6, <1>7, <1>8, <1>9 DEF Next

(* The inductive invariant behind the next two theorems.                    *)
THEOREM Invariance == Spec => [](InFlightExecutes /\ NoCircularWait)
<1>1. Init => InFlightExecutes /\ NoCircularWait
  <2> SUFFICES ASSUME Init PROVE InFlightExecutes /\ NoCircularWait
    OBVIOUS
  <2>1. inFlight = NoChain /\ \A c \in Chains : chain[c].stage = "settled"
    BY DEF Init, Idle
  <2>2. InFlightExecutes
    BY <2>1 DEF InFlightExecutes, Executing
  <2>3. ASSUME NEW S \in (SUBSET Chains) \ {{}}
        PROVE  \E x \in S : ~(chain[x].stage = "joined" /\ chain[x].on \in S)
    <3>1. PICK x : x \in S
      BY <2>3
    <3>2. x \in Chains /\ chain[x].stage # "joined"
      BY <2>1, <2>3, <3>1
    <3> QED BY <3>1, <3>2
  <2> QED BY <2>2, <2>3 DEF NoCircularWait
<1>2. TypeOK /\ InFlightExecutes /\ NoCircularWait /\ [Next]_vars
        => (InFlightExecutes /\ NoCircularWait)'
  BY Inductive
<1> QED BY <1>1, <1>2, TypeCorrect, PTL DEF Spec

(* At no time are two executions of push and pull under way.                *)
THEOREM OneExecutionAtATime == Spec => []OneExecution
<1>1. InFlightExecutes => OneExecution
  BY DEF InFlightExecutes, OneExecution
<1> QED BY <1>1, Invariance, PTL

(* Following the promises that chains have settled with never comes back    *)
(* to the start: no caller of run() waits for a promise that waits for it.  *)
THEOREM PromisesSettle == Spec => []NoCircularWait
BY Invariance, PTL

-----------------------------------------------------------------------------
(* The steps of a single flight, seen in the scheduler's variables.         *)

LEMMA SeenTelling ==
  ASSUME inFlight' = inFlight,
         \A d \in Chains : Role(d)' = Role(d) \/ (Role(d) = "waits" /\ Role(d)' = "out")
  PROVE  Outside!Next
<1> DEFINE W == {d \in Chains : Role(d)' # Role(d)}
<1>1. W \in SUBSET Chains /\ \A d \in W : [x \in Chains |-> Role(x)][d] = "waits"
  OBVIOUS
<1>2. [x \in Chains |-> Role(x)'] =
        [d \in Chains |-> IF d \in W THEN "out" ELSE [x \in Chains |-> Role(x)][d]]
  OBVIOUS
<1> QED BY <1>1, <1>2 DEF Outside!Next, Outside!Told

LEMMA SeenSettingOut ==
  ASSUME NEW c \in Chains, NEW W \in SUBSET (Chains \ {c}), RunStarts(c), Role(c) = "out",
         Role(c)' = "leads", \A d \in W : Role(d) = "out" /\ Role(d)' = "waits",
         \A d \in Chains \ (W \union {c}) : Role(d)' = Role(d)
  PROVE  Outside!Next
<1>1. [x \in Chains |-> Role(x)'] =
        [d \in Chains |-> IF d = c THEN "leads" ELSE IF d \in W THEN "waits"
                          ELSE [x \in Chains |-> Role(x)][d]]
  OBVIOUS
<1>2. \A d \in W : [x \in Chains |-> Role(x)][d] = "out"
  OBVIOUS
<1> QED BY <1>1, <1>2 DEF RunStarts, Outside!Next, Outside!SetsOut

LEMMA SeenLanding ==
  ASSUME NEW c \in Chains, inFlight = c, inFlight' = NoChain, Role(c) = "leads",
         Role(c)' = "out", \A d \in Chains \ {c} : Role(d)' = Role(d)
  PROVE  Outside!Next
<1>1. [x \in Chains |-> Role(x)'] =
        [d \in Chains |-> IF d = c \/ d \in {} THEN "out" ELSE [x \in Chains |-> Role(x)][d]]
  OBVIOUS
<1>2. {} \in SUBSET (Chains \ {c})
  OBVIOUS
<1> QED BY <1>1, <1>2 DEF Outside!Next, Outside!Lands

LEMMA SeenJoining ==
  ASSUME NEW c \in Chains, inFlight # NoChain, inFlight' = inFlight, Role(c) = "out",
         Role(c)' = "waits", \A d \in Chains \ {c} : Role(d)' = Role(d)
  PROVE  Outside!Next
<1>1. [x \in Chains |-> Role(x)'] = [[x \in Chains |-> Role(x)] EXCEPT ![c] = "waits"]
  OBVIOUS
<1> QED BY <1>1 DEF Outside!Next, Outside!Joins

(* A call from outside: somebody sets out, or nothing is seen.              *)
LEMMA SeenCalling ==
  ASSUME TypeOK, RunCall
  PROVE  Outside!Next
<1>1. ASSUME NEW c \in Chains, RunStarts(c), chain' = [chain EXCEPT ![c] = Started(c)]
      PROVE  Outside!Next
  <2>1. chain'[c].stage = "listing" /\ \A d \in Chains \ {c} : chain'[d] = chain[d]
    BY <1>1 DEF TypeOK, Started, Idle
  <2>2. chain[c].stage = "settled"
    BY <1>1 DEF RunStarts
  <2>3. Role(c) = "out" /\ Role(c)' = "leads" /\ \A d \in Chains \ {c} : Role(d)' = Role(d)
    BY <2>1, <2>2 DEF Role, Executing
  <2>4. {} \in SUBSET (Chains \ {c})
    OBVIOUS
  <2> QED BY <1>1, <2>3, <2>4, SeenSettingOut
<1>2. CASE RunQueues /\ UNCHANGED chain
  BY <1>2, SeenTelling DEF RunQueues, Role
<1> QED BY <1>1, <1>2 DEF RunCall

(* Every step of the scheduler is one of the single flight, or unseen.      *)
LEMMA StepIsSeen ==
  ASSUME TypeOK, InFlightExecutes, [Next]_vars
  PROVE  Outside!Next
<1>a. ASSUME UNCHANGED <<inFlight, chain>> PROVE Outside!Next
  BY <1>a, SeenTelling DEF Role
<1>1. ASSUME NEW e \in Edits, SaveLocal(e) PROVE Outside!Next
  BY <1>1, <1>a DEF SaveLocal
<1>2. CASE TimerFires
  BY <1>2, SeenCalling DEF TimerFires
<1>3. CASE SyncPressed
  BY <1>3, SeenCalling DEF SyncPressed
<1>4. CASE ConnectivityReported
  BY <1>4, <1>a, SeenCalling DEF ConnectivityReported
<1>5. CASE AppStateChanged
  BY <1>5, <1>a, SeenCalling DEF AppStateChanged
<1>6. CASE NetworkChanges
  BY <1>6, <1>a DEF NetworkChanges
<1>7. CASE Restart
  <2>1. inFlight' = NoChain /\ \A c \in Chains : Role(c)' = "out"
    BY <1>7 DEF Restart, Role, Idle, Executing
  <2>2. [x \in Chains |-> Role(x)'] = [x \in Chains |-> "out"]
    BY <2>1
  <2> QED BY <2>1, <2>2 DEF Outside!Next, Outside!Crashes
<1>8. ASSUME NEW c \in Chains, RunStep(c) PROVE Outside!Next
  <2>a. ASSUME NEW stage, inFlight' = inFlight, chain'[c].stage = stage,
               \A d \in Chains \ {c} : chain'[d] = chain[d],
               chain[c].stage \in Executing <=> stage \in Executing,
               chain[c].stage # "joined", stage # "joined"
        PROVE  Outside!Next
    <3>1. \A d \in Chains : Role(d)' = Role(d)
      BY <2>a DEF Role
    <3> QED BY <2>a, <3>1, SeenTelling
  <2>b. ASSUME Finally(c), chain[c].stage \in Executing PROVE Outside!Next
    <3>1. inFlight = c
      BY <2>b DEF InFlightExecutes
    <3>2. chain'[c].stage = "ranFinally" /\ \A d \in Chains \ {c} : chain'[d] = chain[d]
      BY <2>b DEF Finally, TypeOK, ChainRecord
    <3>3. Role(c) = "leads" /\ Role(c)' = "out" /\ \A d \in Chains \ {c} : Role(d)' = Role(d)
      BY <2>b, <3>2 DEF Role, Executing
    <3> QED BY <2>b, <3>1, <3>3, SeenLanding DEF Finally
  <2>1. CASE Lists(c)
    BY <2>1, <2>a DEF Lists, TypeOK, ChainRecord, Executing
  <2>2. CASE Pushes(c)
    <3>1. chain'[c].stage = "draining" /\ \A x \in Chains \ {c} : chain'[x] = chain[x]
      BY <2>2 DEF Pushes, TypeOK, ChainRecord
    <3> QED BY <2>2, <3>1, <2>a DEF Pushes, Executing
  <2>3. CASE Drained(c)
    BY <2>3, <2>a DEF Drained, TypeOK, ChainRecord, Executing
  <2>4. CASE ExecuteFails(c)
    BY <2>4, <2>b DEF ExecuteFails, Executing
  <2>5. CASE ExecuteEnds(c)
    BY <2>5, <2>b DEF ExecuteEnds, Executing
  <2>6. CASE ChecksQueuedRun(c)
    <3>1. /\ chain'[c].stage \in {"counting", "emitting"}
          /\ \A x \in Chains \ {c} : chain'[x] = chain[x]
          /\ inFlight' = inFlight /\ chain[c].stage = "ranFinally"
      BY <2>6 DEF ChecksQueuedRun, TypeOK, ChainRecord
    <3> QED BY <3>1, <2>a DEF Executing
  <2>7. CASE CountsPending(c)
    <3>0. chain[c].stage = "counting" /\ Role(c) = "out"
      BY <2>7 DEF CountsPending, Role, Executing
    <3>1. CASE /\ chain' = [chain EXCEPT ![c].stage = "emitting"]
               /\ UNCHANGED <<inFlight, queuedRun>>
      <4>1. chain'[c].stage = "emitting" /\ \A x \in Chains \ {c} : chain'[x] = chain[x]
        BY <3>1 DEF TypeOK, ChainRecord
      <4> QED BY <3>0, <3>1, <4>1, <2>a DEF Executing
    <3>2. CASE /\ RunQueues
               /\ chain' = [chain EXCEPT ![c].stage = "joined", ![c].on = inFlight]
      <4>1. chain' = [chain EXCEPT ![c] = [chain[c] EXCEPT !.stage = "joined", !.on = inFlight]]
        BY <3>2
      <4>2. chain[c] \in ChainRecord
        BY DEF TypeOK
      <4>3. chain'[c].stage = "joined" /\ \A x \in Chains \ {c} : chain'[x] = chain[x]
        BY <4>1, <4>2 DEF TypeOK, ChainRecord
      <4>4. Role(c)' = "waits" /\ \A d \in Chains \ {c} : Role(d)' = Role(d)
        BY <4>3 DEF Role, Executing
      <4> QED BY <3>0, <3>2, <4>4, SeenJoining DEF RunQueues
    <3>3. ASSUME NEW d \in Chains, RunStarts(d),
                 chain' = [chain EXCEPT ![c].stage = "joined", ![c].on = d,
                                        ![d] = Started(d)]
          PROVE  Outside!Next
      <4>1. c # d /\ chain[d].stage = "settled"
        BY <3>0, <3>3 DEF RunStarts
      <4>2. /\ chain'[d].stage = "listing" /\ chain'[c].stage = "joined"
            /\ \A x \in Chains \ {c, d} : chain'[x] = chain[x]
        BY <3>3, <4>1 DEF TypeOK, ChainRecord, Started, Idle
      <4>3. /\ Role(d) = "out" /\ Role(d)' = "leads" /\ Role(c)' = "waits"
            /\ \A x \in Chains \ {c, d} : Role(x)' = Role(x)
        BY <4>1, <4>2 DEF Role, Executing
      <4>4. {c} \in SUBSET (Chains \ {d})
        BY <4>1
      <4> QED BY <3>0, <3>3, <4>3, <4>4, SeenSettingOut
    <3> QED BY <2>7, <3>1, <3>2, <3>3 DEF CountsPending
  <2>8. CASE Emits(c)
    <3>1. \A d \in Chains :
            \/ chain'[d] = chain[d]
            \/ d = c /\ chain'[d].stage = "settled" /\ chain[d].stage = "emitting"
            \/ chain[d].stage = "joined" /\ chain'[d].stage = "emitting"
      BY <2>8 DEF Emits, Idle, TypeOK, ChainRecord
    <3>2. \A d \in Chains : Role(d)' = Role(d) \/ (Role(d) = "waits" /\ Role(d)' = "out")
      BY <3>1 DEF Role, Executing
    <3> QED BY <2>8, <3>2, SeenTelling DEF Emits
  <2> QED BY <1>8, <2>1, <2>2, <2>3, <2>4, <2>5, <2>6, <2>7, <2>8 DEF RunStep
<1>9. CASE UNCHANGED vars
  BY <1>9, <1>a DEF vars
<1> QED BY <1>1, <1>2, <1>3, <1>4, <1>5, <1>6, <1>7, <1>8, <1>9 DEF Next

(* The scheduler implements a single flight, for any number of chains and   *)
(* edits and across restarts.                                               *)
THEOREM RunsShareOneFlight == Spec => SharesOneRun
<1>1. Init => Outside!Init
  <2> SUFFICES ASSUME Init PROVE Outside!Init
    OBVIOUS
  <2>1. inFlight = NoChain /\ \A c \in Chains : Role(c) = "out"
    BY DEF Init, Role, Idle, Executing
  <2> QED BY <2>1 DEF Outside!Init
<1>2. TypeOK /\ InFlightExecutes /\ [Next]_vars => Outside!Next
  BY StepIsSeen
<1> QED BY <1>1, <1>2, TypeCorrect, Invariance, PTL DEF Spec, SharesOneRun, Outside!Spec
=============================================================================
