----------------------------- MODULE MCFileLock -----------------------------
(***************************************************************************)
(* Symmetry for checking FileLock.                                         *)
(***************************************************************************)
EXTENDS FileLock, TLC

LockSymmetry == Permutations(Processes) \union Permutations(Changes)
=============================================================================
