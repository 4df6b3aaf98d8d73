---------------------------- MODULE MCSettlement ----------------------------
(***************************************************************************)
(* Settlement for TLC: invoices, payment methods and handler slots are     *)
(* each interchangeable.                                                   *)
(***************************************************************************)
EXTENDS Settlement, TLC

Symmetry == Permutations(Invoices) \cup Permutations(Methods) \cup Permutations(Slots)
=============================================================================
