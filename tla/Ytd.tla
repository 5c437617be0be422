-------------------------------- MODULE Ytd --------------------------------
(***************************************************************************)
(* The arithmetic a pay run carries from one check to the next: the two    *)
(* wage-base primitives of src/money.ts, the tax lines the engine reports  *)
(* for one check, and the roll-forward of payroll/ytd.ts.                  *)
(*                                                                         *)
(* One representative of every shape of tracker is kept: a capped federal  *)
(* one whose employee and employer lines agree (Social Security), an       *)
(* uncapped one (Medicare) together with a line above a threshold that     *)
(* feeds no tracker at all (Additional Medicare), and a state one whose    *)
(* two lines disagree past the cap (Pennsylvania unemployment, uncapped    *)
(* for the employee and capped for the employer).  Rates, rounding and the *)
(* remaining trackers of the same shapes are left out.                     *)
(***************************************************************************)
EXTENDS Integers

CONSTANTS
    SSWageBase,       \* annual Social Security wage base
    SuiWageBase,      \* annual wage base of the state's employer contribution
    AddlThreshold     \* annual wages above which Additional Medicare is due

ASSUME WageBaseAssumption ==
    /\ SSWageBase \in Nat
    /\ SuiWageBase \in Nat
    /\ AddlThreshold \in Nat

Smaller(a, b) == IF a <= b THEN a ELSE b

AtLeastZero(n) == IF n > 0 THEN n ELSE 0

\* Mutant: the remaining room is not clamped at zero.
UnclampedUnderCap(current, ytd, cap) == Smaller(current, cap - ytd)

\* The part of `current` still taxable under an annual cap.
UnderCap(current, ytd, cap) == Smaller(current, AtLeastZero(cap - ytd))

\* The part of `current` that lies above an annual threshold.
OverThreshold(current, ytd, threshold) ==
    IF ytd + current <= threshold
    THEN 0
    ELSE Smaller(current, ytd + current - threshold)

-----------------------------------------------------------------------------
(* Year-to-date totals and the lines of one check                          *)

YearToDate == [socialSecurity : Nat, medicare : Nat, stateUnemployment : Nat]

FreshYearToDate == [socialSecurity |-> 0, medicare |-> 0, stateUnemployment |-> 0]

\* taxableWages by tax line id.
TaxLineSet ==
    [US_SS_EE  : Nat, US_SS_ER  : Nat, US_MED_EE : Nat, US_MED_ER : Nat,
     US_MED_ADDL : Nat, PA_UC_EE : Nat, PA_SUI_ER : Nat]

\* What calculatePaycheck() reports for a check of `wages` on top of `ytd`.
TaxLines(wages, ytd) ==
    LET ss  == UnderCap(wages, ytd.socialSecurity, SSWageBase)
        sui == UnderCap(wages, ytd.stateUnemployment, SuiWageBase)
    IN  [US_SS_EE    |-> ss,
         US_SS_ER    |-> ss,
         US_MED_EE   |-> wages,
         US_MED_ER   |-> wages,
         US_MED_ADDL |-> OverThreshold(wages, ytd.medicare, AddlThreshold),
         PA_UC_EE    |-> wages,
         PA_SUI_ER   |-> sui]

\* Mutant: of a keyed pair the employee's figure is kept.
AccumulateEmployeeSide(ytd, taxLines) ==
    [socialSecurity    |-> ytd.socialSecurity + taxLines.US_SS_ER,
     medicare          |-> ytd.medicare + taxLines.US_MED_ER,
     stateUnemployment |-> ytd.stateUnemployment + taxLines.PA_UC_EE]

\* A federal pair shares one tracker and the line recorded last wins (the
\* employer's); a keyed pair keeps the employer's figure; US_MED_ADDL is a
\* part of US_MED_EE and feeds nothing.
AccumulateYtd(ytd, taxLines) ==
    [socialSecurity    |-> ytd.socialSecurity + taxLines.US_SS_ER,
     medicare          |-> ytd.medicare + taxLines.US_MED_ER,
     stateUnemployment |-> ytd.stateUnemployment + taxLines.PA_SUI_ER]
=============================================================================
