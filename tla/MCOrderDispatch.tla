-------------------------- MODULE MCOrderDispatch --------------------------
(***************************************************************************)
(* OrderDispatch for TLC: the workers are interchangeable, and so are the  *)
(* handler slots.  Runs that check liveness do not use the symmetry.       *)
(***************************************************************************)
EXTENDS OrderDispatch, TLC

Symmetry == Permutations(Workers) \cup Permutations(Slots)
=============================================================================
