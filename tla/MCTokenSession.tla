--------------------------- MODULE MCTokenSession ---------------------------
(* Instances of TokenSession for TLC. *)
EXTENDS TokenSession, TLC

PairSymmetry == Permutations(Pairs) \union Permutations(Users)
=============================================================================
