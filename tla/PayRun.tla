------------------------------- MODULE PayRun -------------------------------
(***************************************************************************)
(* The life of a pay run: draft, recalculate, approve, void                *)
(* (payroll/run.ts), driven by a caller that stores what the functions     *)
(* return, as trades/service.ts does.  Any number of drafts may be open    *)
(* at once and they may be approved in any order, or never.                *)
(*                                                                         *)
(* A check date is a number; YearOf gives its calendar year.  The wages of *)
(* a check stand for everything that decides them (hours, salary,          *)
(* deductions) and are chosen anew whenever a run is computed.             *)
(***************************************************************************)
EXTENDS Ytd

CONSTANTS
    Employees,
    RunIds,
    Dates,            \* check dates, in calendar order
    YearOf,           \* check date -> calendar year
    FirstYear,        \* the year the employees' records start in
    Wages,            \* possible wages of one check
    HireDate,         \* employee -> date
    TerminationDate,  \* employee -> date, NotTerminated if there is none
    NotTerminated,
    Layer             \* whose drafting function computes the lines

Years == {YearOf[d] : d \in Dates} \union {FirstYear}

ASSUME PayRunAssumption ==
    /\ Dates \subseteq Nat
    /\ YearOf \in [Dates -> Nat]
    /\ FirstYear \in Nat
    /\ \A d \in Dates : FirstYear <= YearOf[d]
    /\ Wages \subseteq Nat
    /\ HireDate \in [Employees -> Nat]
    /\ NotTerminated \notin Nat
    /\ TerminationDate \in [Employees -> Nat \union {NotTerminated}]
    /\ Layer \in {"payroll", "trades"}

VARIABLES
    employees,        \* employee -> [ytd, ytdYear]
    runs,             \* run id -> the stored run
    books,            \* history: what approved runs paid, by employee and year
    stale,            \* history: drafts computed before a later approval
    freshly,          \* history: no stale draft has been approved
    orderly           \* history: no approval went back to an earlier year

vars == <<employees, runs, books, stale, freshly, orderly>>

Line == [wages : Nat, taxLines : TaxLineSet]

Statuses == {"none", "draft", "approved", "voided"}

\* A run holds one line per employee it pays.
Run(paid) == [status : Statuses, checkDate : Dates \union {0}, lines : [paid -> Line]]

NoLines == [e \in {} |-> [wages |-> 0, taxLines |-> TaxLines(0, FreshYearToDate)]]

Totals == [wages : Nat, ss : Nat, addl : Nat, sui : Nat]

NoTotals == [wages |-> 0, ss |-> 0, addl |-> 0, sui |-> 0]

-----------------------------------------------------------------------------
(* payroll/run.ts                                                          *)

ActiveEmployeesFor(date) ==
    {e \in Employees :
        /\ HireDate[e] <= date
        /\ TerminationDate[e] = NotTerminated \/ TerminationDate[e] >= date}

YtdForCheckDate(e, date) ==
    IF employees[e].ytdYear = YearOf[date] THEN employees[e].ytd ELSE FreshYearToDate

\* Mutant: the draft is computed on whatever totals the record holds.
UnresolvedStartingYtd(e, date) == employees[e].ytd

\* The totals the engine is given: draftPayRun() resolves them for the check
\* date, trades/payRun.ts hands the employee's record over as it stands.
StartingYtd(e, date) ==
    IF Layer = "payroll" THEN YtdForCheckDate(e, date) ELSE employees[e].ytd

ComputedLine(e, date, wages) ==
    [wages |-> wages, taxLines |-> TaxLines(wages, StartingYtd(e, date))]

ComputedLines(date, wages) ==
    [e \in ActiveEmployeesFor(date) |-> ComputedLine(e, date, wages[e])]

-----------------------------------------------------------------------------

Init ==
    /\ employees = [e \in Employees |-> [ytd |-> FreshYearToDate, ytdYear |-> FirstYear]]
    /\ runs = [r \in RunIds |-> [status |-> "none", checkDate |-> 0, lines |-> NoLines]]
    /\ books = [e \in Employees |-> [y \in Years |-> NoTotals]]
    /\ stale = {}
    /\ freshly = TRUE
    /\ orderly = TRUE

DraftPayRun(r, date, wages) ==
    /\ runs[r].status = "none"
    /\ runs' = [runs EXCEPT ![r] = [status    |-> "draft",
                                    checkDate |-> date,
                                    lines     |-> ComputedLines(date, wages)]]
    /\ UNCHANGED <<employees, books, stale, freshly, orderly>>

\* recalculatePayRun() keeps the check date, recalculateTradesPayRun() takes the
\* one it is given.
MayRedate(r, date) == Layer = "payroll" => date = runs[r].checkDate

Recomputed(r, date, wages) ==
    [runs EXCEPT ![r].checkDate = date, ![r].lines = ComputedLines(date, wages)]

\* Mutant: any stored run may be recalculated.
RecalculateAnyRun(r, date, wages) ==
    /\ runs[r].status # "none"
    /\ MayRedate(r, date)
    /\ runs' = Recomputed(r, date, wages)
    /\ stale' = stale \ {r}
    /\ UNCHANGED <<employees, books, freshly, orderly>>

\* Mutant: recalculating leaves its result in the employees' records.
RecalculateIntoEmployees(r, date, wages) ==
    /\ runs[r].status = "draft"
    /\ MayRedate(r, date)
    /\ runs' = Recomputed(r, date, wages)
    /\ employees' = [e \in Employees |->
                        IF e \in ActiveEmployeesFor(date)
                        THEN [ytd |-> YtdForCheckDate(e, date), ytdYear |-> YearOf[date]]
                        ELSE employees[e]]
    /\ stale' = stale \ {r}
    /\ UNCHANGED <<books, freshly, orderly>>

RecalculatePayRun(r, date, wages) ==
    /\ runs[r].status = "draft"
    /\ MayRedate(r, date)
    /\ runs' = Recomputed(r, date, wages)
    /\ stale' = stale \ {r}
    /\ UNCHANGED <<employees, books, freshly, orderly>>

\* Mutant: the year in the record is brought up to date, the totals are not reset.
RolledForwardWithoutReset(e, r) ==
    [ytd     |-> AccumulateYtd(employees[e].ytd, runs[r].lines[e].taxLines),
     ytdYear |-> YearOf[runs[r].checkDate]]

\* The employee's record once the run's line has been rolled into it.
RolledForward(e, r) ==
    [ytd     |-> AccumulateYtd(YtdForCheckDate(e, runs[r].checkDate),
                               runs[r].lines[e].taxLines),
     ytdYear |-> YearOf[runs[r].checkDate]]

Posted(totals, line) ==
    [wages |-> totals.wages + line.wages,
     ss    |-> totals.ss + line.taxLines.US_SS_EE,
     addl  |-> totals.addl + line.taxLines.US_MED_ADDL,
     sui   |-> totals.sui + line.taxLines.PA_SUI_ER]

ApprovePayRun(r) ==
    LET paid == DOMAIN runs[r].lines
        year == YearOf[runs[r].checkDate]
    IN  /\ runs[r].status = "draft"
        /\ runs' = [runs EXCEPT ![r].status = "approved"]
        /\ employees' = [e \in Employees |->
                            IF e \in paid THEN RolledForward(e, r) ELSE employees[e]]
        /\ books' = [e \in Employees |-> [y \in Years |->
                        IF e \in paid /\ y = year
                        THEN Posted(books[e][y], runs[r].lines[e])
                        ELSE books[e][y]]]
        /\ stale' = {q \in RunIds : runs[q].status = "draft"} \ {r}
        /\ freshly' = (freshly /\ r \notin stale)
        /\ orderly' = (orderly /\ \A e \in paid : employees[e].ytdYear <= year)

VoidPayRun(r) ==
    /\ runs[r].status = "draft"
    /\ runs' = [runs EXCEPT ![r].status = "voided"]
    /\ UNCHANGED <<employees, books, stale, freshly, orderly>>

Next ==
    \E r \in RunIds :
        \/ \E date \in Dates : \E wages \in [ActiveEmployeesFor(date) -> Wages] :
                DraftPayRun(r, date, wages) \/ RecalculatePayRun(r, date, wages)
        \/ ApprovePayRun(r)
        \/ VoidPayRun(r)

Spec == Init /\ [][Next]_vars

-----------------------------------------------------------------------------
(* Properties                                                              *)

TypeOK ==
    /\ employees \in [Employees -> [ytd : YearToDate, ytdYear : Years]]
    /\ DOMAIN runs = RunIds
    /\ \A r \in RunIds : \E paid \in SUBSET Employees : runs[r] \in Run(paid)
    /\ books \in [Employees -> [Years -> Totals]]
    /\ stale \in SUBSET RunIds
    /\ freshly \in BOOLEAN
    /\ orderly \in BOOLEAN

\* No tracker ever claims wages that approved runs of its year did not pay,
\* in whatever order runs are drafted, recalculated and approved: a tracker
\* that runs ahead ends a capped tax too early (payroll/ytd.ts, accumulateYtd).
YtdNeverOverstated ==
    \A e \in Employees :
        LET ytd  == employees[e].ytd
            book == books[e][employees[e].ytdYear]
        IN  /\ ytd.socialSecurity <= book.ss
            /\ ytd.medicare <= book.wages
            /\ ytd.stateUnemployment <= book.sui

\* As long as approvals do not go back to an earlier year, the stored totals
\* are what replaying the approved lines of the year gives: db/payroll-schema.sql
\* asks this of employee_ytd.
YtdReconstructible ==
    orderly =>
        \A e \in Employees :
            LET ytd  == employees[e].ytd
                book == books[e][employees[e].ytdYear]
            IN  /\ ytd.socialSecurity = book.ss
                /\ ytd.medicare = book.wages
                /\ ytd.stateUnemployment = book.sui

\* When every approved draft was computed on the totals it is approved on, the
\* taxable wages of a year's checks add up to the year's wages under the cap
\* (above the threshold, for the surtax), wherever the cap falls among the
\* checks and however the runs were redone on the way (payroll/ytd.ts: the sum
\* "telescopes to the correct cumulative figure").
TelescopesToWageBases ==
    (orderly /\ freshly) =>
        \A e \in Employees, y \in Years :
            LET book == books[e][y]
            IN  /\ book.ss = Smaller(book.wages, SSWageBase)
                /\ book.sui = Smaller(book.wages, SuiWageBase)
                /\ book.addl = AtLeastZero(book.wages - AddlThreshold)

\* What was signed off never changes again: an approved or voided run keeps its
\* numbers and its status whatever is called on it (payroll/run.ts, the guards
\* of recalculatePayRun, approvePayRun and voidPayRun together).
DecidedRunsAreFinal ==
    [][\A r \in RunIds :
          runs[r].status \in {"approved", "voided"} => runs'[r] = runs[r]]_vars

\* An employee's totals move only in a step that approves a draft holding a line
\* for that employee; drafting, redoing and voiding commit nothing.
OnlyApprovalMovesYtd ==
    [][\A e \in Employees :
          employees'[e] # employees[e] =>
              \E r \in RunIds :
                  /\ runs[r].status = "draft"
                  /\ runs'[r].status = "approved"
                  /\ e \in DOMAIN runs[r].lines]_vars
=============================================================================
