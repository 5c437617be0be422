---------------------------- MODULE PayRun_proofs ----------------------------
(***************************************************************************)
(* Proofs about pay runs, for every set of employees, runs, dates, wages   *)
(* and every value of the wage bases.                                      *)
(*                                                                         *)
(* The invariant carried through the steps says, beyond the types: a run   *)
(* that exists has a check date; a line's pair of federal figures agree;   *)
(* while approvals go forward in time the books of years to come are       *)
(* empty; and a draft that is not stale holds exactly what the engine      *)
(* gives on the totals its approval would start from.                      *)
(***************************************************************************)
EXTENDS PayRun, TLAPS

DatedRuns ==
    \A r \in RunIds : runs[r].status # "none" => runs[r].checkDate \in Dates

LinesAgree ==
    \A r \in RunIds : \A e \in DOMAIN runs[r].lines :
        LET line == runs[r].lines[e]
        IN  /\ line.taxLines.US_SS_ER = line.taxLines.US_SS_EE
            /\ line.taxLines.US_MED_ER = line.wages

FutureBooksEmpty ==
    orderly => \A e \in Employees, y \in Years :
                   y > employees[e].ytdYear => books[e][y] = NoTotals

FreshDrafts ==
    \A r \in RunIds :
        (runs[r].status = "draft" /\ r \notin stale) =>
            \A e \in DOMAIN runs[r].lines :
                runs[r].lines[e].taxLines =
                    TaxLines(runs[r].lines[e].wages, YtdForCheckDate(e, runs[r].checkDate))

Typed == TypeOK /\ DatedRuns /\ LinesAgree

Books == YtdNeverOverstated /\ YtdReconstructible /\ FutureBooksEmpty

-----------------------------------------------------------------------------
(* The arithmetic of src/money.ts                                          *)

\* Under a cap, what earlier checks used plus what this check adds is what the
\* running total gives at once.
LEMMA UnderCapTelescopes ==
    ASSUME NEW earned \in Nat, NEW current \in Nat, NEW cap \in Nat
    PROVE  Smaller(earned, cap) + UnderCap(current, Smaller(earned, cap), cap)
                = Smaller(earned + current, cap)
  BY DEF Smaller, UnderCap, AtLeastZero

\* The same for the part above a threshold.
LEMMA OverThresholdTelescopes ==
    ASSUME NEW earned \in Nat, NEW current \in Nat, NEW threshold \in Nat
    PROVE  AtLeastZero(earned - threshold) + OverThreshold(current, earned, threshold)
                = AtLeastZero(earned + current - threshold)
  BY DEF Smaller, OverThreshold, AtLeastZero

LEMMA TaxLinesType ==
    ASSUME NEW wages \in Nat, NEW ytd \in YearToDate
    PROVE  TaxLines(wages, ytd) \in TaxLineSet
  BY WageBaseAssumption
     DEF TaxLines, TaxLineSet, YearToDate, UnderCap, OverThreshold, Smaller, AtLeastZero

-----------------------------------------------------------------------------
(* Shapes                                                                  *)

LEMMA FreshYearToDateType == FreshYearToDate \in YearToDate
  BY DEF FreshYearToDate, YearToDate

LEMMA StoredRun ==
    ASSUME TypeOK, NEW r \in RunIds
    PROVE  /\ runs[r].status \in Statuses
           /\ runs[r].checkDate \in Dates \union {0}
           /\ DOMAIN runs[r].lines \subseteq Employees
           /\ runs[r].lines \in [DOMAIN runs[r].lines -> Line]
           /\ runs[r] = [status    |-> runs[r].status,
                         checkDate |-> runs[r].checkDate,
                         lines     |-> runs[r].lines]
<1>1. PICK paid \in SUBSET Employees : runs[r] \in Run(paid)
  BY DEF TypeOK
<1>2. QED
  BY <1>1 DEF Run

LEMMA YtdForCheckDateType ==
    ASSUME TypeOK, NEW e \in Employees, NEW date \in Dates
    PROVE  /\ YtdForCheckDate(e, date) \in YearToDate
           /\ StartingYtd(e, date) \in YearToDate
  BY FreshYearToDateType DEF TypeOK, YtdForCheckDate, StartingYtd

\* Drafting and recalculating produce lines for employees of the company whose
\* federal pair agrees.
LEMMA ComputedLinesType ==
    ASSUME TypeOK, NEW date \in Dates,
           NEW wages \in [ActiveEmployeesFor(date) -> Wages]
    PROVE  /\ ActiveEmployeesFor(date) \subseteq Employees
           /\ ComputedLines(date, wages) \in [ActiveEmployeesFor(date) -> Line]
           /\ \A e \in ActiveEmployeesFor(date) :
                 LET line == ComputedLines(date, wages)[e]
                 IN  /\ line.taxLines.US_SS_ER = line.taxLines.US_SS_EE
                     /\ line.taxLines.US_MED_ER = line.wages
                     /\ line.taxLines = TaxLines(line.wages, StartingYtd(e, date))
<1>1. ActiveEmployeesFor(date) \subseteq Employees
  BY DEF ActiveEmployeesFor
<1>2. ASSUME NEW e \in ActiveEmployeesFor(date)
      PROVE  /\ wages[e] \in Nat
             /\ ComputedLine(e, date, wages[e]) \in Line
  <2>1. wages[e] \in Nat
    BY PayRunAssumption
  <2>2. TaxLines(wages[e], StartingYtd(e, date)) \in TaxLineSet
    BY <1>1, <2>1, YtdForCheckDateType, TaxLinesType
  <2>3. QED
    BY <2>1, <2>2 DEF ComputedLine, Line
<1>3. ComputedLines(date, wages) \in [ActiveEmployeesFor(date) -> Line]
  BY <1>2 DEF ComputedLines
<1>4. ASSUME NEW e \in ActiveEmployeesFor(date)
      PROVE  LET line == ComputedLines(date, wages)[e]
             IN  /\ line.taxLines.US_SS_ER = line.taxLines.US_SS_EE
                 /\ line.taxLines.US_MED_ER = line.wages
                 /\ line.taxLines = TaxLines(line.wages, StartingYtd(e, date))
  BY DEF ComputedLines, ComputedLine, TaxLines
<1>5. QED
  BY <1>1, <1>3, <1>4

LEMMA AccumulateYtdType ==
    ASSUME NEW ytd \in YearToDate, NEW taxLines \in TaxLineSet
    PROVE  AccumulateYtd(ytd, taxLines) \in YearToDate
  BY DEF AccumulateYtd, YearToDate, TaxLineSet

LEMMA PostedType ==
    ASSUME NEW totals \in Totals, NEW line \in Line
    PROVE  Posted(totals, line) \in Totals
  BY DEF Posted, Totals, Line, TaxLineSet

-----------------------------------------------------------------------------
(* Types                                                                   *)

LEMMA InitTyped == Init => Typed
<1> SUFFICES ASSUME Init PROVE Typed
  OBVIOUS
<1>1. employees \in [Employees -> [ytd : YearToDate, ytdYear : Years]]
  BY FreshYearToDateType DEF Init, Years
<1>2. \A r \in RunIds : runs[r] \in Run({})
  BY DEF Init, NoLines, Run, Statuses
<1>3. books \in [Employees -> [Years -> Totals]]
  BY DEF Init, NoTotals, Totals
<1>4. TypeOK
  BY <1>1, <1>2, <1>3 DEF Init, TypeOK
<1>5. DatedRuns /\ LinesAgree
  BY DEF Init, NoLines, DatedRuns, LinesAgree
<1>6. QED
  BY <1>4, <1>5 DEF Typed

\* A step that only replaces one run by a well-formed one keeps the types.
LEMMA RunReplacedTyped ==
    ASSUME Typed, NEW r \in RunIds, NEW run, NEW paid \in SUBSET Employees,
           DOMAIN runs' = RunIds, runs'[r] = run,
           \A q \in RunIds \ {r} : runs'[q] = runs[q],
           run \in Run(paid), run.checkDate \in Dates,
           \A e \in paid : /\ run.lines[e].taxLines.US_SS_ER = run.lines[e].taxLines.US_SS_EE
                           /\ run.lines[e].taxLines.US_MED_ER = run.lines[e].wages
    PROVE  /\ DOMAIN runs' = RunIds
           /\ \A q \in RunIds : \E p \in SUBSET Employees : runs'[q] \in Run(p)
           /\ DatedRuns'
           /\ LinesAgree'
<1>2. \A q \in RunIds : \E p \in SUBSET Employees : runs'[q] \in Run(p)
  BY DEF Typed, TypeOK
<1>3. DatedRuns'
  BY DEF Typed, DatedRuns
<1>4. DOMAIN run.lines = paid
  BY DEF Run
<1>5. LinesAgree'
  BY <1>4 DEF Typed, LinesAgree
<1>6. QED
  BY <1>2, <1>3, <1>5

LEMMA DraftTyped ==
    ASSUME Typed, NEW r \in RunIds, NEW date \in Dates,
           NEW wages \in [ActiveEmployeesFor(date) -> Wages], DraftPayRun(r, date, wages)
    PROVE  Typed'
<1> DEFINE run == [status |-> "draft", checkDate |-> date, lines |-> ComputedLines(date, wages)]
<1>1. TypeOK
  BY DEF Typed
<1>2. run \in Run(ActiveEmployeesFor(date))
  BY <1>1, ComputedLinesType DEF Run, Statuses
<1>3. /\ DOMAIN runs' = RunIds
      /\ runs'[r] = run
      /\ \A q \in RunIds \ {r} : runs'[q] = runs[q]
  BY <1>1 DEF DraftPayRun, TypeOK
<1> HIDE DEF run
<1>4. run.checkDate \in Dates /\ run.lines = ComputedLines(date, wages)
  BY DEF run
<1>5. /\ DOMAIN runs' = RunIds
      /\ \A q \in RunIds : \E p \in SUBSET Employees : runs'[q] \in Run(p)
      /\ DatedRuns'
      /\ LinesAgree'
  BY <1>1, <1>2, <1>3, <1>4, ComputedLinesType, RunReplacedTyped
<1>6. QED
  BY <1>1, <1>5 DEF DraftPayRun, Typed, TypeOK

LEMMA RecalculateTyped ==
    ASSUME Typed, NEW r \in RunIds, NEW date \in Dates,
           NEW wages \in [ActiveEmployeesFor(date) -> Wages],
           RecalculatePayRun(r, date, wages)
    PROVE  Typed'
<1> DEFINE run == [status |-> "draft", checkDate |-> date, lines |-> ComputedLines(date, wages)]
<1>1. TypeOK
  BY DEF Typed
<1>2. date \in Dates
  OBVIOUS
<1>3. runs[r] = [status |-> "draft", checkDate |-> runs[r].checkDate, lines |-> runs[r].lines]
  BY <1>1, StoredRun DEF RecalculatePayRun
<1>4. /\ DOMAIN runs' = RunIds
      /\ runs'[r] = run
      /\ \A q \in RunIds \ {r} : runs'[q] = runs[q]
  BY <1>1, <1>3 DEF RecalculatePayRun, Recomputed, TypeOK
<1>5. run \in Run(ActiveEmployeesFor(date))
  BY <1>1, <1>2, ComputedLinesType DEF Run, Statuses
<1> HIDE DEF run
<1>6. run.checkDate = date /\ run.lines = ComputedLines(date, wages)
  BY DEF run
<1>7. /\ DOMAIN runs' = RunIds
      /\ \A q \in RunIds : \E p \in SUBSET Employees : runs'[q] \in Run(p)
      /\ DatedRuns'
      /\ LinesAgree'
  BY <1>1, <1>2, <1>4, <1>5, <1>6, ComputedLinesType, RunReplacedTyped
<1>8. QED
  BY <1>1, <1>7 DEF RecalculatePayRun, Typed, TypeOK

\* Approving and voiding change a run's status and nothing else of it.
LEMMA StatusChangedTyped ==
    ASSUME Typed, NEW r \in RunIds, NEW status \in Statuses,
           runs[r].status = "draft",
           runs' = [runs EXCEPT ![r].status = status]
    PROVE  /\ DOMAIN runs' = RunIds
           /\ \A q \in RunIds : \E p \in SUBSET Employees : runs'[q] \in Run(p)
           /\ DatedRuns'
           /\ LinesAgree'
<1> DEFINE run == [status    |-> status,
                   checkDate |-> runs[r].checkDate,
                   lines     |-> runs[r].lines]
<1>1. TypeOK
  BY DEF Typed
<1>2. /\ DOMAIN runs' = RunIds
      /\ runs'[r] = run
      /\ \A q \in RunIds \ {r} : runs'[q] = runs[q]
  BY <1>1, StoredRun DEF TypeOK
<1>3. run \in Run(DOMAIN runs[r].lines)
  BY <1>1, StoredRun DEF Run
<1>4. run.checkDate \in Dates
  BY DEF Typed, DatedRuns
<1>5. run.lines = runs[r].lines
  OBVIOUS
<1> HIDE DEF run
<1>6. QED
  BY <1>1, <1>2, <1>3, <1>4, <1>5, StoredRun, RunReplacedTyped DEF Typed, LinesAgree

LEMMA ApproveTyped ==
    ASSUME Typed, NEW r \in RunIds, ApprovePayRun(r)
    PROVE  Typed'
<1> DEFINE paid == DOMAIN runs[r].lines
           date == runs[r].checkDate
<1>1. TypeOK
  BY DEF Typed
<1>2. date \in Dates /\ YearOf[date] \in Years
  BY DEF Typed, DatedRuns, ApprovePayRun, Years
<1>3. ASSUME NEW e \in paid
      PROVE  /\ RolledForward(e, r) \in [ytd : YearToDate, ytdYear : Years]
             /\ runs[r].lines[e] \in Line
  <2>1. e \in Employees /\ runs[r].lines[e] \in Line
    BY <1>1, StoredRun
  <2>2. YtdForCheckDate(e, date) \in YearToDate
    BY <1>1, <1>2, <2>1, YtdForCheckDateType
  <2>3. AccumulateYtd(YtdForCheckDate(e, date), runs[r].lines[e].taxLines) \in YearToDate
    BY <2>1, <2>2, AccumulateYtdType DEF Line
  <2>4. QED
    BY <1>2, <2>1, <2>3 DEF RolledForward
<1>4. employees' \in [Employees -> [ytd : YearToDate, ytdYear : Years]]
  BY <1>1, <1>3 DEF ApprovePayRun, TypeOK
<1>5. books' \in [Employees -> [Years -> Totals]]
  BY <1>1, <1>3, PostedType DEF ApprovePayRun, TypeOK
<1>6. /\ stale' \in SUBSET RunIds
      /\ freshly' \in BOOLEAN
      /\ orderly' \in BOOLEAN
  BY <1>1 DEF ApprovePayRun, TypeOK
<1>7. /\ DOMAIN runs' = RunIds
      /\ \A q \in RunIds : \E p \in SUBSET Employees : runs'[q] \in Run(p)
      /\ DatedRuns'
      /\ LinesAgree'
  BY StatusChangedTyped DEF ApprovePayRun, Statuses
<1>8. QED
  BY <1>4, <1>5, <1>6, <1>7 DEF Typed, TypeOK

LEMMA NextTyped == Typed /\ [Next]_vars => Typed'
<1> SUFFICES ASSUME Typed, [Next]_vars PROVE Typed'
  OBVIOUS
<1>1. ASSUME NEW r \in RunIds, NEW date \in Dates,
             NEW wages \in [ActiveEmployeesFor(date) -> Wages], DraftPayRun(r, date, wages)
      PROVE  Typed'
  BY <1>1, DraftTyped
<1>2. ASSUME NEW r \in RunIds, NEW date \in Dates,
             NEW wages \in [ActiveEmployeesFor(date) -> Wages],
             RecalculatePayRun(r, date, wages)
      PROVE  Typed'
  BY <1>2, RecalculateTyped
<1>3. ASSUME NEW r \in RunIds, ApprovePayRun(r)
      PROVE  Typed'
  BY <1>3, ApproveTyped
<1>4. ASSUME NEW r \in RunIds, VoidPayRun(r)
      PROVE  Typed'
  <2>1. /\ DOMAIN runs' = RunIds
        /\ \A q \in RunIds : \E p \in SUBSET Employees : runs'[q] \in Run(p)
        /\ DatedRuns'
        /\ LinesAgree'
    BY <1>4, StatusChangedTyped DEF VoidPayRun, Statuses
  <2>2. QED
    BY <1>4, <2>1 DEF VoidPayRun, Typed, TypeOK
<1>5. CASE UNCHANGED vars
  BY <1>5 DEF vars, Typed, TypeOK, DatedRuns, LinesAgree
<1>6. QED
  BY <1>1, <1>2, <1>3, <1>4, <1>5 DEF Next

\* Every field of a run, an employee or the books has its type at every state.
THEOREM TypesHold == Spec => []TypeOK
<1>1. Spec => []Typed
  BY InitTyped, NextTyped, PTL DEF Spec
<1>2. Typed => TypeOK
  BY DEF Typed
<1>3. QED
  BY <1>1, <1>2, PTL

-----------------------------------------------------------------------------
(* Totals and books                                                        *)

LEMMA YearsAreNumbers == Years \subseteq Nat
  BY PayRunAssumption DEF Years

\* The totals an approval for `date` starts from, against the books of its year.
LEMMA StartingTotals ==
    ASSUME Typed, Books, NEW e \in Employees, NEW date \in Dates
    PROVE  LET start == YtdForCheckDate(e, date)
               book  == books[e][YearOf[date]]
           IN  /\ start.socialSecurity <= book.ss
               /\ start.medicare <= book.wages
               /\ start.stateUnemployment <= book.sui
               /\ (orderly /\ employees[e].ytdYear <= YearOf[date]) =>
                       /\ start.socialSecurity = book.ss
                       /\ start.medicare = book.wages
                       /\ start.stateUnemployment = book.sui
<1> DEFINE year == YearOf[date]
<1>0. year \in Years
  BY DEF Years
<1>1. /\ year \in Years /\ year \in Nat
      /\ books[e][year] \in Totals
      /\ employees[e].ytdYear \in Nat
  BY <1>0, YearsAreNumbers DEF Typed, TypeOK
<1>2. CASE employees[e].ytdYear = year
  BY <1>2 DEF YtdForCheckDate, Books, YtdNeverOverstated, YtdReconstructible
<1>3. CASE employees[e].ytdYear # year
  <2>1. YtdForCheckDate(e, date) = FreshYearToDate
    BY <1>3 DEF YtdForCheckDate
  <2>2. (orderly /\ employees[e].ytdYear <= year) => books[e][year] = NoTotals
    BY <1>1, <1>3 DEF Books, FutureBooksEmpty
  <2>3. QED
    BY <1>1, <2>1, <2>2 DEF FreshYearToDate, NoTotals, Totals
<1>4. QED
  BY <1>2, <1>3

\* What an approval does to one employee it pays, and to one it does not.
LEMMA ApprovedEmployee ==
    ASSUME Typed, NEW r \in RunIds, ApprovePayRun(r), NEW e \in Employees
    PROVE  LET date == runs[r].checkDate
               line == runs[r].lines[e]
               year == YearOf[date]
           IN  IF e \in DOMAIN runs[r].lines
               THEN /\ date \in Dates
                    /\ line \in Line
                    /\ employees'[e].ytdYear = year
                    /\ employees'[e].ytd.socialSecurity =
                           YtdForCheckDate(e, date).socialSecurity + line.taxLines.US_SS_EE
                    /\ employees'[e].ytd.medicare =
                           YtdForCheckDate(e, date).medicare + line.wages
                    /\ employees'[e].ytd.stateUnemployment =
                           YtdForCheckDate(e, date).stateUnemployment + line.taxLines.PA_SUI_ER
                    /\ books'[e][year] = Posted(books[e][year], line)
                    /\ \A y \in Years \ {year} : books'[e][y] = books[e][y]
                    /\ orderly' => (orderly /\ employees[e].ytdYear <= year)
               ELSE /\ employees'[e] = employees[e]
                    /\ \A y \in Years : books'[e][y] = books[e][y]
                    /\ orderly' => orderly
<1> DEFINE date == runs[r].checkDate
           line == runs[r].lines[e]
<1>1. TypeOK
  BY DEF Typed
<1>2. CASE e \in DOMAIN runs[r].lines
  <2>1. date \in Dates /\ YearOf[date] \in Years
    BY DEF Typed, DatedRuns, ApprovePayRun, Years
  <2>2. line \in Line
    BY <1>1, <1>2, StoredRun
  <2>3. /\ line.taxLines.US_SS_ER = line.taxLines.US_SS_EE
        /\ line.taxLines.US_MED_ER = line.wages
    BY <1>2 DEF Typed, LinesAgree
  <2>4. employees'[e] = RolledForward(e, r)
    BY <1>2 DEF ApprovePayRun
  <2>5. /\ books'[e][YearOf[date]] = Posted(books[e][YearOf[date]], line)
        /\ \A y \in Years \ {YearOf[date]} : books'[e][y] = books[e][y]
    BY <1>2, <2>1 DEF ApprovePayRun
  <2>6. orderly' => (orderly /\ employees[e].ytdYear <= YearOf[date])
    BY <1>2 DEF ApprovePayRun
  <2>7. QED
    BY <1>2, <2>1, <2>2, <2>3, <2>4, <2>5, <2>6 DEF RolledForward, AccumulateYtd
<1>3. CASE e \notin DOMAIN runs[r].lines
  BY <1>3 DEF ApprovePayRun
<1>4. QED
  BY <1>2, <1>3

LEMMA ApproveBooks ==
    ASSUME Typed, Books, NEW r \in RunIds, ApprovePayRun(r)
    PROVE  Books'
<1> DEFINE date == runs[r].checkDate
           year == YearOf[date]
<1>1. ASSUME NEW e \in Employees
      PROVE  LET ytd  == employees'[e].ytd
                 book == books'[e][employees'[e].ytdYear]
             IN  /\ ytd.socialSecurity <= book.ss
                 /\ ytd.medicare <= book.wages
                 /\ ytd.stateUnemployment <= book.sui
                 /\ orderly' => /\ ytd.socialSecurity = book.ss
                                /\ ytd.medicare = book.wages
                                /\ ytd.stateUnemployment = book.sui
                                /\ \A y \in Years :
                                      y > employees'[e].ytdYear => books'[e][y] = NoTotals
  <2>1. CASE e \notin DOMAIN runs[r].lines
    <3>1. employees[e].ytdYear \in Years
      BY DEF Typed, TypeOK
    <3>2. QED
      BY <2>1, <3>1, ApprovedEmployee
         DEF Books, YtdNeverOverstated, YtdReconstructible, FutureBooksEmpty
  <2>2. CASE e \in DOMAIN runs[r].lines
    <3> DEFINE line == runs[r].lines[e]
               start == YtdForCheckDate(e, date)
    <3>1. /\ date \in Dates
          /\ line \in Line
      BY <2>2, ApprovedEmployee
    <3>0. year \in Years
      BY <3>1 DEF Years
    <3>2. /\ year \in Nat
          /\ employees[e].ytdYear \in Nat
          /\ \A y \in Years : y \in Nat
      BY <3>0, YearsAreNumbers DEF Typed, TypeOK
    <3>3. /\ books[e][year] \in Totals
          /\ start \in YearToDate
      BY <3>0, <3>1, YtdForCheckDateType DEF Typed, TypeOK
    <3>4. books'[e][year] = Posted(books[e][year], line)
      BY <2>2, ApprovedEmployee
    <3>5. /\ books'[e][year].ss = books[e][year].ss + line.taxLines.US_SS_EE
          /\ books'[e][year].wages = books[e][year].wages + line.wages
          /\ books'[e][year].sui = books[e][year].sui + line.taxLines.PA_SUI_ER
      BY <3>4 DEF Posted
    <3>6. /\ employees'[e].ytdYear = year
          /\ employees'[e].ytd.socialSecurity = start.socialSecurity + line.taxLines.US_SS_EE
          /\ employees'[e].ytd.medicare = start.medicare + line.wages
          /\ employees'[e].ytd.stateUnemployment =
                 start.stateUnemployment + line.taxLines.PA_SUI_ER
          /\ \A y \in Years \ {year} : books'[e][y] = books[e][y]
          /\ orderly' => (orderly /\ employees[e].ytdYear <= year)
      BY <2>2, ApprovedEmployee
    <3>7. /\ start.socialSecurity <= books[e][year].ss
          /\ start.medicare <= books[e][year].wages
          /\ start.stateUnemployment <= books[e][year].sui
          /\ orderly' => /\ start.socialSecurity = books[e][year].ss
                         /\ start.medicare = books[e][year].wages
                         /\ start.stateUnemployment = books[e][year].sui
      BY <3>1, <3>6, StartingTotals
    <3>8. orderly' => \A y \in Years : y > year => books'[e][y] = NoTotals
      BY <3>0, <3>2, <3>6 DEF Books, FutureBooksEmpty
    <3> HIDE DEF start, line, year
    <3>9. /\ line.wages \in Nat
          /\ line.taxLines.US_SS_EE \in Nat
          /\ line.taxLines.PA_SUI_ER \in Nat
      BY <3>1 DEF Line, TaxLineSet
    <3>10. /\ books[e][year].ss \in Nat /\ start.socialSecurity \in Nat
           /\ books[e][year].wages \in Nat /\ start.medicare \in Nat
           /\ books[e][year].sui \in Nat /\ start.stateUnemployment \in Nat
      BY <3>3 DEF Totals, YearToDate
    <3>11. QED
      BY <3>5, <3>6, <3>7, <3>8, <3>9, <3>10
  <2>3. QED
    BY <2>1, <2>2
<1>2. QED
  BY <1>1 DEF Books, YtdNeverOverstated, YtdReconstructible, FutureBooksEmpty

\* Steps that leave employees and books alone keep what is said about them.
LEMMA BooksUnmoved ==
    ASSUME Books, UNCHANGED <<employees, books, orderly>>
    PROVE  Books'
  BY DEF Books, YtdNeverOverstated, YtdReconstructible, FutureBooksEmpty

LEMMA BooksInvariant == Spec => [](Typed /\ Books)
<1>1. Init => Books
  <2> SUFFICES ASSUME Init PROVE Books
    OBVIOUS
  <2>1. ASSUME NEW e \in Employees, NEW y \in Years
        PROVE  /\ employees[e].ytd = FreshYearToDate
               /\ employees[e].ytdYear = FirstYear
               /\ books[e][y] = NoTotals
    BY DEF Init
  <2>2. FirstYear \in Years
    BY DEF Years
  <2>3. QED
    BY <2>1, <2>2
       DEF Books, YtdNeverOverstated, YtdReconstructible, FutureBooksEmpty,
           FreshYearToDate, NoTotals
<1>2. Typed /\ Books /\ [Next]_vars => Books'
  <2> SUFFICES ASSUME Typed, Books, [Next]_vars PROVE Books'
    OBVIOUS
  <2>1. ASSUME NEW r \in RunIds, ApprovePayRun(r)
        PROVE  Books'
    BY <2>1, ApproveBooks
  <2>2. ASSUME NEW r \in RunIds, NEW date \in Dates,
               NEW wages \in [ActiveEmployeesFor(date) -> Wages], DraftPayRun(r, date, wages)
        PROVE  Books'
    BY <2>2, BooksUnmoved DEF DraftPayRun
  <2>3. ASSUME NEW r \in RunIds, NEW date \in Dates,
               NEW wages \in [ActiveEmployeesFor(date) -> Wages],
               RecalculatePayRun(r, date, wages)
        PROVE  Books'
    BY <2>3, BooksUnmoved DEF RecalculatePayRun
  <2>4. ASSUME NEW r \in RunIds, VoidPayRun(r)
        PROVE  Books'
    BY <2>4, BooksUnmoved DEF VoidPayRun
  <2>5. CASE UNCHANGED vars
    BY <2>5, BooksUnmoved DEF vars
  <2>6. QED
    BY <2>1, <2>2, <2>3, <2>4, <2>5 DEF Next
<1>3. QED
  BY <1>1, <1>2, InitTyped, NextTyped, PTL DEF Spec

\* No tracker runs ahead of what approved runs of its year paid, however many
\* drafts are open and in whatever order they are approved (accumulateYtd).
THEOREM NeverOverstated == Spec => []YtdNeverOverstated
<1>1. Typed /\ Books => YtdNeverOverstated
  BY DEF Books
<1>2. QED
  BY <1>1, BooksInvariant, PTL

\* While approvals go forward in time, an employee's totals are the sum of the
\* approved lines of the year (db/payroll-schema.sql, employee_ytd).
THEOREM Reconstructible == Spec => []YtdReconstructible
<1>1. Typed /\ Books => YtdReconstructible
  BY DEF Books
<1>2. QED
  BY <1>1, BooksInvariant, PTL

-----------------------------------------------------------------------------
(* Wage bases                                                              *)

\* The lines of a draft that is not stale are the engine's on the totals its
\* approval starts from, when the drafting function resolves them by check date.
LEMMA NextFreshDrafts ==
    ASSUME Typed, FreshDrafts, [Next]_vars, Layer = "payroll"
    PROVE  FreshDrafts'
<1>1. TypeOK
  BY DEF Typed
<1>2. ASSUME NEW r \in RunIds, NEW date \in Dates,
             NEW wages \in [ActiveEmployeesFor(date) -> Wages], DraftPayRun(r, date, wages)
      PROVE  FreshDrafts'
  <2>1. /\ runs'[r].checkDate = date
        /\ runs'[r].lines = ComputedLines(date, wages)
        /\ \A q \in RunIds \ {r} : runs'[q] = runs[q]
        /\ UNCHANGED <<employees, stale>>
    BY <1>1, <1>2 DEF DraftPayRun, TypeOK
  <2>2. \A e \in DOMAIN runs'[r].lines :
           runs'[r].lines[e].taxLines
               = TaxLines(runs'[r].lines[e].wages, YtdForCheckDate(e, date)')
    BY <1>1, <2>1, ComputedLinesType DEF StartingYtd, YtdForCheckDate
  <2>3. QED
    BY <2>1, <2>2 DEF FreshDrafts, YtdForCheckDate
<1>3. ASSUME NEW r \in RunIds, NEW date \in Dates,
             NEW wages \in [ActiveEmployeesFor(date) -> Wages],
             RecalculatePayRun(r, date, wages)
      PROVE  FreshDrafts'
  <2>1. /\ runs'[r].checkDate = date
        /\ runs'[r].lines = ComputedLines(date, wages)
        /\ \A q \in RunIds \ {r} : runs'[q] = runs[q]
        /\ UNCHANGED employees
        /\ stale' = stale \ {r}
    BY <1>1, <1>3, StoredRun DEF RecalculatePayRun, Recomputed, TypeOK
  <2>2. \A e \in DOMAIN runs'[r].lines :
           runs'[r].lines[e].taxLines
               = TaxLines(runs'[r].lines[e].wages, YtdForCheckDate(e, date)')
    BY <1>1, <2>1, ComputedLinesType DEF StartingYtd, YtdForCheckDate
  <2>3. QED
    BY <2>1, <2>2 DEF FreshDrafts, YtdForCheckDate
<1>4. ASSUME NEW r \in RunIds, ApprovePayRun(r)
      PROVE  FreshDrafts'
  <2>1. \A q \in RunIds : runs'[q].status = "draft" => q \in stale'
    BY <1>1, <1>4, StoredRun DEF ApprovePayRun, TypeOK
  <2>2. QED
    BY <2>1 DEF FreshDrafts
<1>5. ASSUME NEW r \in RunIds, VoidPayRun(r)
      PROVE  FreshDrafts'
  <2>1. /\ runs'[r].status = "voided"
        /\ \A q \in RunIds \ {r} : runs'[q] = runs[q]
        /\ UNCHANGED <<employees, stale>>
    BY <1>1, <1>5, StoredRun DEF VoidPayRun, TypeOK
  <2>2. QED
    BY <2>1 DEF FreshDrafts, YtdForCheckDate
<1>6. CASE UNCHANGED vars
  BY <1>6 DEF vars, FreshDrafts, YtdForCheckDate
<1>7. QED
  BY <1>2, <1>3, <1>4, <1>5, <1>6 DEF Next

LEMMA ApproveTelescopes ==
    ASSUME Typed, Books, FreshDrafts, TelescopesToWageBases,
           NEW r \in RunIds, ApprovePayRun(r)
    PROVE  TelescopesToWageBases'
<1> DEFINE date == runs[r].checkDate
           year == YearOf[date]
<1>1. SUFFICES ASSUME orderly', freshly', NEW e \in Employees, NEW y \in Years
               PROVE  LET book == books'[e][y]
                      IN  /\ book.ss = Smaller(book.wages, SSWageBase)
                          /\ book.sui = Smaller(book.wages, SuiWageBase)
                          /\ book.addl = AtLeastZero(book.wages - AddlThreshold)
  BY DEF TelescopesToWageBases
<1>2. freshly /\ r \notin stale /\ runs[r].status = "draft"
  BY <1>1 DEF ApprovePayRun
<1>3. CASE e \notin DOMAIN runs[r].lines
  BY <1>1, <1>2, <1>3, ApprovedEmployee DEF TelescopesToWageBases
<1>4. CASE e \in DOMAIN runs[r].lines
  <2> DEFINE line == runs[r].lines[e]
             start == YtdForCheckDate(e, date)
             book == books[e][year]
  <2>1. /\ date \in Dates
        /\ line \in Line
        /\ books'[e][year] = Posted(book, line)
        /\ \A z \in Years \ {year} : books'[e][z] = books[e][z]
        /\ orderly /\ employees[e].ytdYear <= year
    BY <1>1, <1>4, ApprovedEmployee
  <2>2. CASE y # year
    BY <1>2, <2>1, <2>2 DEF TelescopesToWageBases
  <2>3. CASE y = year
    <3>1. /\ start \in YearToDate
          /\ book \in Totals
      BY <2>1, <2>3, YtdForCheckDateType DEF Typed, TypeOK
    <3>2. /\ start.socialSecurity = book.ss
          /\ start.medicare = book.wages
          /\ start.stateUnemployment = book.sui
      BY <2>1, StartingTotals
    <3>3. /\ book.ss = Smaller(book.wages, SSWageBase)
          /\ book.sui = Smaller(book.wages, SuiWageBase)
          /\ book.addl = AtLeastZero(book.wages - AddlThreshold)
      BY <1>2, <2>1, <2>3 DEF TelescopesToWageBases
    <3>4. line.taxLines = TaxLines(line.wages, start)
      BY <1>2, <1>4 DEF FreshDrafts
    <3>5. /\ books'[e][y].wages = book.wages + line.wages
          /\ books'[e][y].ss = book.ss + UnderCap(line.wages, start.socialSecurity, SSWageBase)
          /\ books'[e][y].sui
                = book.sui + UnderCap(line.wages, start.stateUnemployment, SuiWageBase)
          /\ books'[e][y].addl
                = book.addl + OverThreshold(line.wages, start.medicare, AddlThreshold)
      BY <2>1, <2>3, <3>4 DEF Posted, TaxLines
    <3>6. /\ line.wages \in Nat
          /\ book.wages \in Nat
      BY <2>1, <3>1 DEF Line, Totals
    <3> HIDE DEF line, start, book
    <3>7. /\ Smaller(book.wages, SSWageBase)
                + UnderCap(line.wages, Smaller(book.wages, SSWageBase), SSWageBase)
                    = Smaller(book.wages + line.wages, SSWageBase)
          /\ Smaller(book.wages, SuiWageBase)
                + UnderCap(line.wages, Smaller(book.wages, SuiWageBase), SuiWageBase)
                    = Smaller(book.wages + line.wages, SuiWageBase)
      BY <3>6, UnderCapTelescopes, WageBaseAssumption
    <3>8. AtLeastZero(book.wages - AddlThreshold)
             + OverThreshold(line.wages, book.wages, AddlThreshold)
                 = AtLeastZero(book.wages + line.wages - AddlThreshold)
      BY <3>6, OverThresholdTelescopes, WageBaseAssumption
    <3>9. books'[e][y].ss = Smaller(books'[e][y].wages, SSWageBase)
      BY <3>2, <3>3, <3>5, <3>7
    <3>10. books'[e][y].sui = Smaller(books'[e][y].wages, SuiWageBase)
      BY <3>2, <3>3, <3>5, <3>7
    <3>11. books'[e][y].addl = AtLeastZero(books'[e][y].wages - AddlThreshold)
      BY <3>2, <3>3, <3>5, <3>6, <3>8, WageBaseAssumption DEF AtLeastZero
    <3>12. QED
      BY <3>9, <3>10, <3>11
  <2>4. QED
    BY <2>2, <2>3
<1>5. QED
  BY <1>3, <1>4

\* Payroll's own drafting: approving fresh drafts in calendar order charges each
\* wage base, over a year, exactly the wages below it, and the surtax exactly the
\* wages above its threshold (draftPayRun, approvePayRun, underCap, overThreshold).
THEOREM Telescopes ==
    ASSUME Layer = "payroll"
    PROVE  Spec => []TelescopesToWageBases
<1> DEFINE IInv == Typed /\ Books /\ FreshDrafts /\ TelescopesToWageBases
<1>1. Init => FreshDrafts /\ TelescopesToWageBases
  BY WageBaseAssumption
     DEF Init, FreshDrafts, TelescopesToWageBases, NoTotals, Smaller, AtLeastZero
<1>2. IInv /\ [Next]_vars => FreshDrafts' /\ TelescopesToWageBases'
  <2> SUFFICES ASSUME IInv, [Next]_vars PROVE FreshDrafts' /\ TelescopesToWageBases'
    OBVIOUS
  <2>1. FreshDrafts'
    BY NextFreshDrafts
  <2>2. ASSUME NEW r \in RunIds, ApprovePayRun(r)
        PROVE  TelescopesToWageBases'
    BY <2>2, ApproveTelescopes
  <2>3. ASSUME UNCHANGED <<books, freshly, orderly>>
        PROVE  TelescopesToWageBases'
    BY <2>3 DEF TelescopesToWageBases
  <2>4. QED
    BY <2>1, <2>2, <2>3 DEF Next, DraftPayRun, RecalculatePayRun, VoidPayRun, vars
<1>3. Typed /\ Books /\ FreshDrafts /\ TelescopesToWageBases => TelescopesToWageBases
  OBVIOUS
<1>4. QED
  BY <1>1, <1>2, BooksInvariant, PTL DEF Spec

-----------------------------------------------------------------------------
(* What a step may never do                                                *)

\* An approved or voided run keeps its numbers and its status.
THEOREM DecidedFinal == Spec => DecidedRunsAreFinal
<1>1. TypeOK /\ [Next]_vars =>
         [\A r \in RunIds :
             runs[r].status \in {"approved", "voided"} => runs'[r] = runs[r]]_vars
  <2> SUFFICES ASSUME TypeOK, Next, NEW q \in RunIds,
                      runs[q].status \in {"approved", "voided"}
               PROVE  runs'[q] = runs[q]
    OBVIOUS
  <2>1. PICK r \in RunIds :
           \/ \E date \in Dates : \E wages \in [ActiveEmployeesFor(date) -> Wages] :
                   DraftPayRun(r, date, wages) \/ RecalculatePayRun(r, date, wages)
           \/ ApprovePayRun(r)
           \/ VoidPayRun(r)
    BY DEF Next
  <2>2. q # r
    BY <2>1 DEF DraftPayRun, RecalculatePayRun, ApprovePayRun, VoidPayRun
  <2>3. QED
    BY <2>1, <2>2
       DEF TypeOK, DraftPayRun, RecalculatePayRun, Recomputed, ApprovePayRun, VoidPayRun
<1>2. QED
  BY <1>1, TypesHold, PTL DEF Spec, DecidedRunsAreFinal

\* Only the approval of a draft that pays an employee moves that employee's totals.
THEOREM ApprovalMovesYtd == Spec => OnlyApprovalMovesYtd
<1>1. TypeOK /\ [Next]_vars =>
         [\A e \in Employees :
             employees'[e] # employees[e] =>
                 \E r \in RunIds : /\ runs[r].status = "draft"
                                   /\ runs'[r].status = "approved"
                                   /\ e \in DOMAIN runs[r].lines]_vars
  <2> SUFFICES ASSUME TypeOK, Next, NEW e \in Employees, employees'[e] # employees[e]
               PROVE  \E r \in RunIds : /\ runs[r].status = "draft"
                                        /\ runs'[r].status = "approved"
                                        /\ e \in DOMAIN runs[r].lines
    OBVIOUS
  <2>1. PICK r \in RunIds : ApprovePayRun(r)
    BY DEF Next, DraftPayRun, RecalculatePayRun, VoidPayRun
  <2>2. /\ runs[r].status = "draft"
        /\ e \in DOMAIN runs[r].lines
    BY <2>1 DEF ApprovePayRun
  <2>3. runs'[r].status = "approved"
    BY <2>1, StoredRun DEF ApprovePayRun, TypeOK
  <2>4. QED
    BY <2>2, <2>3
<1>2. QED
  BY <1>1, TypesHold, PTL DEF Spec, OnlyApprovalMovesYtd

=============================================================================
