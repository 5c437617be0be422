---------------------------- MODULE PayrollServer ----------------------------
(***************************************************************************)
(* The payroll server (examples/payroll-server.ts) over its file store     *)
(* (payroll/store.ts).  One Node process: between two awaits a handler     *)
(* runs alone, but every handler that reads a record, awaits the request's *)
(* body and then writes the record back leaves room for another request in *)
(* between.  A step is one such run of code.  The process may stop between *)
(* two saves of a handler and start again with what the file holds.        *)
(*                                                                         *)
(* The check dates are those of one calendar year (PayRun covers its       *)
(* turn) and each check adds 1 to the employee's one tracker.              *)
(***************************************************************************)
EXTENDS Integers, FiniteSets, FiniteSetsExt, RequestsInFlight

CONSTANTS
    Companies,
    Employees,
    Seeded,           \* employees on file when the server first starts
    Applicants,       \* employees who come by the recruiting pipeline
    CompanyOf,        \* employee -> company
    Dates,            \* the schedule's check dates
    Fields,           \* fields of an employee record an edit overwrites
    Orders,           \* garnishment orders and deposit accounts
    NoDate,
    MaxEdits,         \* bound on edits, hires and moves started
    MaxCrashes        \* bound on restarts of the process

ASSUME PayrollServerAssumption ==
    /\ CompanyOf \in [Employees -> Companies]
    /\ Seeded \subseteq Employees
    /\ Applicants \subseteq Employees \ Seeded
    /\ Companies \intersect Employees = {}
    /\ Dates \subseteq Nat
    /\ Dates # {}
    /\ IsFiniteSet(Dates)
    /\ NoDate \notin Dates
    /\ MaxEdits \in Nat
    /\ MaxCrashes \in Nat

VARIABLES
    employees,        \* store: employee -> record
    payRuns,          \* store: the saved runs
    stages,           \* store: applicant -> stage in the pipeline
    edits,            \* number of edits, hires and moves started
    crashes,          \* number of restarts
    nextRunId,        \* source of fresh run ids
    intended,         \* history: the records if every edit found the latest one
    overlapped        \* history: what two requests in flight both had read, and
                      \* applicants whose hire was cut between its two saves

vars == <<employees, payRuns, stages, requests, edits, crashes, nextRunId, intended, overlapped>>

Record ==
    [onFile          : BOOLEAN,
     hireDate        : Dates \union {NoDate},
     terminationDate : Dates \union {NoDate},
     settings        : [Fields -> {0, 1}],
     orders          : SUBSET Orders,
     ytd             : Nat]

NoRecord ==
    [onFile |-> FALSE, hireDate |-> NoDate, terminationDate |-> NoDate,
     settings |-> [f \in Fields |-> 0], orders |-> {}, ytd |-> 0]

\* What a handler holds while it awaits the body of its request.
Editing(e) == [kind |-> "edit", employee |-> e, record |-> employees[e]]

Hiring(e) == [kind |-> "hire", employee |-> e]

\* A move of an applicant, the hire included.
Moving(e) == [kind |-> "move", employee |-> e, stage |-> stages[e]]

Running(c, date) ==
    [kind |-> "run", company |-> c, checkDate |-> date, records |-> employees]

\* CandidateStage: open stands for applied, screening and interviewing, closed
\* for rejected and offer_declined.
Stages == {"open", "offer_extended", "offer_accepted", "hired", "closed"}

\* FORWARD_MOVES; /advance takes any of them, also one to hired that hires nobody.
ForwardMoves(stage) ==
    CASE stage = "open"           -> {"open", "offer_extended", "closed"}
      [] stage = "offer_extended" -> {"offer_accepted", "closed"}
      [] stage = "offer_accepted" -> {"hired"}
      [] OTHER                    -> {}

-----------------------------------------------------------------------------
(* What handlers compute                                                   *)

StaffOf(c) == {e \in Employees : CompanyOf[e] = c}

\* Mutant: the staff of every company is considered.
ActiveInAnyCompany(c, records, date) ==
    {e \in Employees :
        /\ records[e].onFile
        /\ records[e].hireDate <= date
        /\ records[e].terminationDate = NoDate \/ records[e].terminationDate >= date}

ActiveEmployeesFor(c, records, date) ==
    {e \in StaffOf(c) :
        /\ records[e].onFile
        /\ records[e].hireDate <= date
        /\ records[e].terminationDate = NoDate \/ records[e].terminationDate >= date}

RanCheckDates(c) == {run.checkDate : run \in {run \in payRuns : run.company = c}}

\* Mutant: the last period that was run counts as not run.
UnrunDatesInclusive(c) == {date \in Dates : \A d \in RanCheckDates(c) : date >= d}

UnrunDates(c) == Dates \ RanCheckDates(c)

\* Mutant: the calendar is walked from its end.
LastUnrunPeriod(c) == Max(UnrunDates(c))

\* The first period of the calendar without a run.
NextUnrunPeriod(c) == Min(UnrunDates(c))

\* Mutant: everyone on file is rolled forward, paid or not.
AllStaffRolledForward(q) ==
    LET run == requests[q]
    IN  [e \in Employees |->
            IF e \in StaffOf(run.company) /\ run.records[e].onFile
            THEN [run.records[e] EXCEPT !.ytd = @ + 1]
            ELSE employees[e]]

\* Mutant: every record the handler read is written back, paid or not.
SnapshotWrittenBack(q) ==
    LET run  == requests[q]
        paid == ActiveEmployeesFor(run.company, run.records, run.checkDate)
    IN  [e \in Employees |->
            IF e \in paid
            THEN [run.records[e] EXCEPT !.ytd = @ + 1]
            ELSE run.records[e]]

\* draftPayRun() and approvePayRun() on the records the handler holds.
UpdatedEmployees(q) ==
    LET run  == requests[q]
        paid == ActiveEmployeesFor(run.company, run.records, run.checkDate)
    IN  [e \in Employees |->
            IF e \in paid
            THEN [run.records[e] EXCEPT !.ytd = @ + 1]
            ELSE employees[e]]

\* Mutant: a line for everyone on file.
RunForAllStaff(q) ==
    LET run == requests[q]
    IN  [id        |-> nextRunId,
         company   |-> run.company,
         checkDate |-> run.checkDate,
         paid      |-> {e \in StaffOf(run.company) : run.records[e].onFile}]

ApprovedRun(q) ==
    LET run == requests[q]
    IN  [id        |-> nextRunId,
         company   |-> run.company,
         checkDate |-> run.checkDate,
         paid      |-> ActiveEmployeesFor(run.company, run.records, run.checkDate)]

WithSetting(record, field) == [record EXCEPT !.settings[field] = 1]

WithOrder(record, order) == [record EXCEPT !.orders = @ \union {order}]

WithoutOrder(record, order) == [record EXCEPT !.orders = @ \ {order}]

Terminated(record, date) == [record EXCEPT !.terminationDate = date]

Hired(date) == [NoRecord EXCEPT !.onFile = TRUE, !.hireDate = date]

-----------------------------------------------------------------------------
(* Overlap, kept for the properties                                        *)

\* What a request in flight has read and will write back.
HeldBy(request) ==
    CASE request.kind \in {"edit", "move"} -> {request.employee}
      [] request.kind = "run"  ->
            {request.company}
              \union ActiveEmployeesFor(request.company, request.records, request.checkDate)
      [] OTHER -> {}

HeldByOthers(q) == UNION {HeldBy(requests[p]) : p \in Requests \ {q}}

HeldByAny == UNION {HeldBy(requests[p]) : p \in Requests}

-----------------------------------------------------------------------------

Init ==
    /\ employees = [e \in Employees |->
                       IF e \in Seeded THEN Hired(Min(Dates)) ELSE NoRecord]
    /\ payRuns = {}
    /\ stages \in [Applicants -> {"open", "offer_accepted"}]
    /\ requests = [q \in Requests |-> Idle]
    /\ edits = 0
    /\ crashes = 0
    /\ nextRunId = 1
    /\ intended = employees
    /\ overlapped = {}

\* A handler reads what it needs and awaits the request's body.
Begin(q, request) ==
    /\ requests[q] = Idle
    /\ requests' = [requests EXCEPT ![q] = request]
    /\ overlapped' = overlapped \union (HeldBy(request) \intersect HeldByOthers(q))
    /\ UNCHANGED <<employees, payRuns, stages, crashes, nextRunId, intended>>

BeginRunPayroll(q, c) ==
    /\ UnrunDates(c) # {}
    /\ ActiveEmployeesFor(c, employees, NextUnrunPeriod(c)) # {}
    /\ Begin(q, Running(c, NextUnrunPeriod(c)))
    /\ UNCHANGED edits

BeginEdit(q, e) ==
    /\ employees[e].onFile
    /\ edits < MaxEdits
    /\ Begin(q, Editing(e))
    /\ edits' = edits + 1

\* A hire reads no employee: the new one has an id of its own.
BeginHire(q, e) ==
    /\ ~employees[e].onFile
    /\ e \notin Applicants
    /\ \A p \in Requests : requests[p].kind = "hire" => requests[p].employee # e
    /\ edits < MaxEdits
    /\ Begin(q, Hiring(e))
    /\ edits' = edits + 1

\* The body is there: draft, approve, save the employees, save the run.
FinishRunPayroll(q) ==
    /\ requests[q].kind = "run"
    /\ employees' = UpdatedEmployees(q)
    /\ payRuns' = payRuns \union {ApprovedRun(q)}
    /\ nextRunId' = nextRunId + 1
    /\ requests' = [requests EXCEPT ![q] = Idle]
    /\ UNCHANGED <<stages, edits, crashes, intended, overlapped>>

\* A handler saves a whole record; `meant` is the latest one with its change.
Save(q, record, meant) ==
    LET e == requests[q].employee
    IN  /\ employees' = [employees EXCEPT ![e] = record]
        /\ intended' = [intended EXCEPT ![e] = meant]
        /\ requests' = [requests EXCEPT ![q] = Idle]
        /\ UNCHANGED <<payRuns, edits, crashes, nextRunId, overlapped>>

\* The record the handler read, and the latest, when its request is an edit.
Held(q) == requests[q].record

Latest(q) == intended[requests[q].employee]

ChangeSetting(q, field) ==
    /\ requests[q].kind = "edit"
    /\ Save(q, WithSetting(Held(q), field), WithSetting(Latest(q), field))
    /\ UNCHANGED stages

AddOrder(q, order) ==
    /\ requests[q].kind = "edit"
    /\ Save(q, WithOrder(Held(q), order), WithOrder(Latest(q), order))
    /\ UNCHANGED stages

Terminate(q, date) ==
    /\ requests[q].kind = "edit"
    /\ Save(q, Terminated(Held(q), date), Terminated(Latest(q), date))
    /\ UNCHANGED stages

Hire(q, date) ==
    /\ requests[q].kind = "hire"
    /\ Save(q, Hired(date), Hired(date))
    /\ UNCHANGED stages

\* advance, extend-offer and hire read the candidate and await the body.
BeginMove(q, e) ==
    /\ edits < MaxEdits
    /\ Begin(q, Moving(e))
    /\ edits' = edits + 1

\* advanceCandidate() and extendOffer() go by the stage the handler read;
\* acceptOffer() comes by /advance as well, and so does a stage of hired.
Advance(q, stage) ==
    /\ requests[q].kind = "move"
    /\ stage \in ForwardMoves(requests[q].stage)
    /\ stages' = [stages EXCEPT ![requests[q].employee] = stage]
    /\ requests' = [requests EXCEPT ![q] = Idle]
    /\ UNCHANGED <<employees, payRuns, edits, crashes, nextRunId, intended, overlapped>>

\* accept and decline have no body.
AnswerOffer(e, stage) ==
    /\ stages[e] = "offer_extended"
    /\ stages' = [stages EXCEPT ![e] = stage]
    /\ overlapped' = overlapped \union ({e} \intersect HeldByAny)
    /\ UNCHANGED <<employees, payRuns, requests, edits, crashes, nextRunId, intended>>

\* Mutant: the stage of the candidate is not looked at.
MayHireAnyone(q) == requests[q].kind = "move"

\* hireCandidate() of an accepted offer, as the handler read it.
MayHire(q) == requests[q].kind = "move" /\ requests[q].stage = "offer_accepted"

\* The employee has the candidate's id: a second hire takes the place of the record.
HireCandidate(q, date) ==
    /\ MayHire(q)
    /\ Save(q, Hired(date), Hired(date))
    /\ stages' = [stages EXCEPT ![requests[q].employee] = "hired"]

\* DELETE has no body: reading and saving are one step.
RemoveOrder(e, order) ==
    /\ employees[e].onFile
    /\ order \in employees[e].orders
    /\ employees' = [employees EXCEPT ![e] = WithoutOrder(@, order)]
    /\ intended' = [intended EXCEPT ![e] = WithoutOrder(@, order)]
    /\ overlapped' = overlapped \union ({e} \intersect HeldByAny)
    /\ UNCHANGED <<payRuns, stages, requests, edits, crashes, nextRunId>>

\* The body is refused, or never ends: nothing is saved.
FailRequest(q) ==
    /\ requests[q] # Idle
    /\ requests' = [requests EXCEPT ![q] = Idle]
    /\ UNCHANGED <<employees, payRuns, stages, edits, crashes, nextRunId, intended, overlapped>>

\* The process stops and starts again; the requests in flight are gone.
Restart ==
    /\ crashes < MaxCrashes
    /\ crashes' = crashes + 1
    /\ requests' = [q \in Requests |-> Idle]
    /\ UNCHANGED <<payRuns, stages, edits, nextRunId>>

Crash == Restart /\ UNCHANGED <<employees, intended, overlapped>>

\* Mutant: the run is saved before the employees.
CrashAfterSavingRun(q) ==
    /\ requests[q].kind = "run"
    /\ payRuns' = payRuns \union {ApprovedRun(q)}
    /\ nextRunId' = nextRunId + 1
    /\ crashes < MaxCrashes
    /\ crashes' = crashes + 1
    /\ requests' = [p \in Requests |-> Idle]
    /\ UNCHANGED <<employees, stages, edits, intended, overlapped>>

\* It stops after saveEmployees() and before savePayRun().
CrashBetweenSaves(q) ==
    /\ requests[q].kind = "run"
    /\ employees' = UpdatedEmployees(q)
    /\ Restart
    /\ UNCHANGED <<intended, overlapped>>

\* It stops after saveEmployee() and before saveCandidate(): the offer still
\* stands, and a second hire would take the place of the employee's record.
CrashBetweenHireSaves(q, date) ==
    /\ MayHire(q)
    /\ LET e == requests[q].employee
       IN  /\ employees' = [employees EXCEPT ![e] = Hired(date)]
           /\ intended' = [intended EXCEPT ![e] = Hired(date)]
           /\ overlapped' = overlapped \union {e}
    /\ Restart

Next ==
    \/ \E q \in Requests :
          \/ \E c \in Companies : BeginRunPayroll(q, c)
          \/ \E e \in Employees : BeginEdit(q, e) \/ BeginHire(q, e)
          \/ FinishRunPayroll(q)
          \/ \E field \in Fields : ChangeSetting(q, field)
          \/ \E order \in Orders : AddOrder(q, order)
          \/ \E date \in Dates : Terminate(q, date) \/ Hire(q, date)
          \/ \E e \in Applicants : BeginMove(q, e)
          \/ \E stage \in Stages : Advance(q, stage)
          \/ \E date \in Dates : HireCandidate(q, date) \/ CrashBetweenHireSaves(q, date)
          \/ FailRequest(q)
          \/ CrashBetweenSaves(q)
    \/ \E e \in Employees, order \in Orders : RemoveOrder(e, order)
    \/ \E e \in Applicants, stage \in {"offer_accepted", "closed"} :
          AnswerOffer(e, stage)
    \/ Crash

Spec == Init /\ [][Next]_vars

-----------------------------------------------------------------------------
(* Properties                                                              *)

Request ==
    {Idle}
      \union [kind : {"edit"}, employee : Employees, record : Record]
      \union [kind : {"hire"}, employee : Employees]
      \union [kind : {"move"}, employee : Applicants, stage : Stages]
      \union [kind : {"run"}, company : Companies, checkDate : Dates,
              records : [Employees -> Record]]

\* The records' fields, in the store and in the handlers; a run pays staff of its
\* company, and run ids are not used twice.
TypeOK ==
    /\ employees \in [Employees -> Record]
    /\ \A run \in payRuns :
          /\ run.id \in 1 .. nextRunId - 1
          /\ run.company \in Companies
          /\ run.checkDate \in Dates
          /\ run.paid \in SUBSET StaffOf(run.company)
    /\ nextRunId \in Nat \ {0}
    /\ requests \in [Requests -> Request]
    /\ stages \in [Applicants -> Stages]
    /\ edits \in 0 .. MaxEdits
    /\ crashes \in 0 .. MaxCrashes
    /\ intended \in [Employees -> Record]
    /\ overlapped \subseteq Companies \union Employees

\* Saved runs that pay e.
ChecksOf(e) == {run \in payRuns : e \in run.paid}

\* The stored totals of an employee cover every saved check, even when the server
\* stops between the two saves of run-payroll, unless two requests that had both
\* read the record were in flight at once or a stop cut the hire of an applicant:
\* short totals would tax the same wages under a cap a second time.
TotalsCoverSavedChecks ==
    \A e \in Employees \ overlapped : Cardinality(ChecksOf(e)) <= employees[e].ytd

\* However requests overlap, the totals run ahead of the saved checks by at most
\* one check for each time the server stopped.
TotalsAheadByCrashesOnly ==
    \A e \in Employees : employees[e].ytd <= Cardinality(ChecksOf(e)) + crashes

\* A check date is paid at most once, unless two run-payroll requests of the
\* company were in flight at once; a stop between the saves does not count as paid.
OneRunPerCheckDate ==
    \A c \in Companies \ overlapped :
        \A r1, r2 \in payRuns :
            (r1.company = c /\ r2.company = c /\ r1.checkDate = r2.checkDate) => r1 = r2

\* However requests overlap, no period of the schedule is passed over: a company
\* with a run for a date has one for every earlier date.
NoPeriodSkipped ==
    \A run \in payRuns : \A date \in Dates :
        date < run.checkDate => date \in RanCheckDates(run.company)

\* Every edit that was saved is still in the record, and nothing else is: a pay
\* run that rolls its totals forward, an edit of another employee or a restart
\* takes none of them back.
EditsSurvive ==
    \A e \in Employees \ overlapped : [employees[e] EXCEPT !.ytd = 0] = intended[e]

\* A run never pays someone for a date after the termination that was saved
\* before the run was, or before the hire.
OnlyStaffIsPaid ==
    [][\A run \in payRuns' \ payRuns : \A e \in run.paid \ overlapped :
          e \in ActiveEmployeesFor(run.company, intended, run.checkDate)]_vars

=============================================================================
