---------------------------- MODULE MCSyncEngine ----------------------------
(* What one device and the server make of edits on several devices, for     *)
(* TLC: a record that is taken whole (reading progress) and the one that is *)
(* merged field by field (the preferences).  They share no state; `machine` *)
(* says which of them a behaviour is of, and the other stays as it starts.  *)
EXTENDS SyncEngine, Preferences, TLC

VARIABLE machine

Symmetry == Permutations(Fields) \union Permutations(Savers)

MCInit ==
  /\ machine \in {"records", "preferences"}
  /\ Init /\ PrefInit
  /\ machine = "records" => mine = Nil

MCNext ==
  /\ machine' = machine
  /\ \/ machine = "records" /\ Next /\ UNCHANGED prefVars
     \/ machine = "preferences" /\ PrefNext /\ UNCHANGED vars

MCSpec == MCInit /\ [][MCNext]_<<vars, prefVars, machine>>

(* Of what comes between, two in one behaviour: a pullBook, a fault, a      *)
(* crash; saves, and a failure.                                             *)
TwoMeet ==
  /\ used.books + used.faults + used.crashes <= 2
  /\ (MaxSaves - left.saves) + (MaxFailures - left.failures) <= 2

MCTypeOK == IF machine = "records" THEN TypeOK ELSE PrefTypeOK
=============================================================================
