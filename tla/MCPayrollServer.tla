--------------------------- MODULE MCPayrollServer ---------------------------
(***************************************************************************)
(* Constants for checking PayrollServer: two companies, one of them with   *)
(* someone on file and an applicant; the other hires its first employee.   *)
(***************************************************************************)
EXTENDS PayrollServer, TLC

CONSTANTS c1, c2, e1, e2, e3

MCCompanyOf == (e1 :> c1) @@ (e2 :> c2) @@ (e3 :> c1)

RequestSymmetry == Permutations(Requests)
=============================================================================
