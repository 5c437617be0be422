---------------------------- MODULE MCSettlement ----------------------------
(***************************************************************************)
(* Symmetry for checking Settlement.                                       *)
(***************************************************************************)
EXTENDS Settlement, TLC

ProcessSymmetry == Permutations(Processes)
=============================================================================
