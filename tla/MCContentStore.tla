--------------------------- MODULE MCContentStore ---------------------------
(* Instances of ContentStore for TLC. *)
EXTENDS ContentStore, TLC

Symmetry == Permutations(Readers) \union Permutations(Writers)
              \union Permutations(Packages \ Elite)

(* The properties say nothing of what follows a slip.                       *)
NoSlipYet == slips = {}
=============================================================================
