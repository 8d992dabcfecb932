------------------------------ MODULE Absence ------------------------------
(***************************************************************************)
(* `null` and `undefined`: the value of what is not there, shared by the   *)
(* modules that are checked together.                                      *)
(***************************************************************************)
CONSTANT None
=============================================================================
