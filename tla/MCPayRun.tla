------------------------------ MODULE MCPayRun ------------------------------
(***************************************************************************)
(* Constants for checking PayRun: three check dates, the last one in a new *)
(* year, and wages that cross every cap and threshold within two checks.   *)
(***************************************************************************)
EXTENDS PayRun, TLC

CONSTANTS e1, e2, r1, r2, r3

MCYearOf == [d \in Dates |-> IF d <= 2 THEN 2026 ELSE 2027]

\* e1 is hired after the first check date and terminated on the last one.
MCHireDate == (e1 :> 2) @@ (e2 :> 1)

MCTerminationDate == (e1 :> 3) @@ (e2 :> NotTerminated)

RunSymmetry == Permutations(RunIds)
=============================================================================
