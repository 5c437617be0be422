------------------------ MODULE MCDepositVerification ------------------------
(***************************************************************************)
(* Symmetry for checking DepositVerification.                              *)
(***************************************************************************)
EXTENDS DepositVerification, TLC

DepositSymmetry == Permutations(Requests)
=============================================================================
