---------------------------- MODULE SingleFlight ----------------------------
(***************************************************************************)
(* What the callers of a single-flight operation are promised, said without *)
(* promises, microtasks or storage: one of them does the work, the others   *)
(* that come meanwhile wait for its flight, and nobody sets out before the  *)
(* one before has landed.  syncEngine.run() and ensureFreshToken() are two  *)
(* implementations (SyncScheduler, TokenSession).                           *)
(***************************************************************************)
CONSTANTS
  Callers,
  Nobody     \* the flight when nobody is in the air

VARIABLES
  flight,    \* whose flight a caller would wait for
  role       \* caller -> out, leads (does the work) or waits

Roles == {"out", "leads", "waits"}

Init == flight = Nobody /\ role = [c \in Callers |-> "out"]

SetsOut(c) ==
  /\ flight = Nobody
  /\ flight' = c
  /\ role[c] = "out"
  /\ \E W \in SUBSET (Callers \ {c}) :   \* who was asked to go again waits for it
       /\ \A d \in W : role[d] = "out"
       /\ role' = [d \in Callers |-> IF d = c THEN "leads" ELSE IF d \in W THEN "waits" ELSE role[d]]

Joins(c) ==
  /\ flight # Nobody
  /\ role[c] = "out"
  /\ role' = [role EXCEPT ![c] = "waits"]
  /\ flight' = flight

(* The flight is over for the one who led it, and for those of the waiting  *)
(* who are told at once.                                                    *)
Lands(c) ==
  /\ flight = c
  /\ role[c] = "leads"
  /\ flight' = Nobody
  /\ \E W \in SUBSET (Callers \ {c}) :
       /\ \A d \in W : role[d] = "waits"
       /\ role' = [d \in Callers |-> IF d = c \/ d \in W THEN "out" ELSE role[d]]

(* Those who wait for a flight that is over are told later.                 *)
Told ==
  /\ \E W \in SUBSET Callers :
       /\ \A d \in W : role[d] = "waits"
       /\ role' = [d \in Callers |-> IF d \in W THEN "out" ELSE role[d]]
  /\ flight' = flight

Crashes == flight' = Nobody /\ role' = [c \in Callers |-> "out"]

Next == (\E c \in Callers : SetsOut(c) \/ Joins(c) \/ Lands(c)) \/ Told \/ Crashes

Spec == Init /\ [][Next]_<<flight, role>>
=============================================================================
