-------------------------- MODULE MCSyncScheduler --------------------------
(* Instances of SyncScheduler for TLC. *)
EXTENDS SyncScheduler, TLC

ChainSymmetry == Permutations(Chains) \union Permutations(Edits)
=============================================================================
