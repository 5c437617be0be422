---------------------------- MODULE MCPtoRequests ----------------------------
(***************************************************************************)
(* Constants for checking PtoRequests: two requests against a balance with *)
(* a cap and one against a balance without.                                *)
(***************************************************************************)
EXTENDS PtoRequests, TLC

CONSTANTS b1, b2, t1, t2, t3

MCBalanceOf == (t1 :> b1) @@ (t2 :> b1) @@ (t3 :> b2)

MCCapOf == (b1 :> 1) @@ (b2 :> NoCap)

MCHours == {1, -1}

MCAccruals == {2, -1}

PtoSymmetry == Permutations(Requests) \union Permutations({t1, t2})
=============================================================================
