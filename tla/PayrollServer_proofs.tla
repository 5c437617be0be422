------------------------- MODULE PayrollServer_proofs -------------------------
(***************************************************************************)
(* For any companies, employees, check dates and requests in flight: what  *)
(* the runs of PayrollServer check on a small instance.                    *)
(*                                                                         *)
(* A handler works on what it read before the body of its request came.    *)
(* So the inductive invariant says of every request in flight what is left *)
(* of that: all of it for an employee or a company that no other request   *)
(* held at the same time, and enough of it -- the totals are covered by    *)
(* the saved checks, earlier periods have run, who was on file still is -- *)
(* for the properties that hold however requests overlap.                  *)
(***************************************************************************)
EXTENDS PayrollServer, FiniteSetTheorems, TLAPS

\* What two requests in flight both hold is overlapped.
SharedIsOverlapped ==
    \A p, q \in Requests :
        p # q => HeldBy(requests[p]) \intersect HeldBy(requests[q]) \subseteq overlapped

\* The record that an edit read is the stored one, unless overlapped; it was and
\* is on file, and its total is covered by the saved checks and the stops.
EditIsSound(request) ==
    LET e == request.employee
    IN  /\ request.record.onFile /\ employees[e].onFile
        /\ e \notin overlapped => request.record = employees[e]
        /\ request.record.ytd <= Cardinality(ChecksOf(e)) + crashes

MoveIsSound(request) ==
    request.employee \notin overlapped => request.stage = stages[request.employee]

\* An employee who is being hired is on nobody's file.
HireIsSound(request) ==
    request.employee \notin Applicants /\ ~employees[request.employee].onFile

\* The same of the records that a pay run read, of those it will pay that they are
\* the stored ones; its period has not run, unless its company is overlapped, and
\* every earlier one has.
RunIsSound(request) ==
    LET paid == ActiveEmployeesFor(request.company, request.records, request.checkDate)
        ran  == RanCheckDates(request.company)
    IN  /\ \A e \in Employees :
              /\ request.records[e].onFile => employees[e].onFile
              /\ request.records[e].ytd <= Cardinality(ChecksOf(e)) + crashes
        /\ \A e \in paid \ overlapped : request.records[e] = employees[e]
        /\ request.company \notin overlapped => request.checkDate \notin ran
        /\ \A date \in Dates : date < request.checkDate => date \in ran

IsSound(request) ==
    /\ request.kind = "edit" => EditIsSound(request)
    /\ request.kind = "move" => MoveIsSound(request)
    /\ request.kind = "hire" => HireIsSound(request)
    /\ request.kind = "run" => RunIsSound(request)

HeldIsSound == \A q \in Requests : IsSound(requests[q])

OneHireEach ==
    \A p, q \in Requests :
        (p # q /\ requests[p].kind = "hire" /\ requests[q].kind = "hire") =>
            requests[p].employee # requests[q].employee

\* An applicant whose stage is not hired is on nobody's file.
ApplicantsAreNew ==
    \A e \in Applicants \ overlapped : stages[e] # "hired" => ~employees[e].onFile

PaidAreOnFile ==
    \A run \in payRuns : \A e \in run.paid : employees[e].onFile

IInv ==
    /\ TypeOK
    /\ IsFiniteSet(payRuns)
    /\ SharedIsOverlapped
    /\ HeldIsSound
    /\ OneHireEach
    /\ ApplicantsAreNew
    /\ PaidAreOnFile
    /\ TotalsCoverSavedChecks
    /\ TotalsAheadByCrashesOnly
    /\ OneRunPerCheckDate
    /\ NoPeriodSkipped
    /\ EditsSurvive

-----------------------------------------------------------------------------
(* What the operators return                                               *)

\* A set of natural numbers has a least one: otherwise the numbers below all of
\* it would be finitely many and could be mapped, by adding 1, into all of them
\* but 0.
LEMMA MinIsLeast ==
  ASSUME NEW S \in SUBSET Nat, S # {}
  PROVE  Min(S) \in S /\ \A n \in S : Min(S) <= n
<1>1. SUFFICES ASSUME \A m \in S : \E n \in S : n < m
               PROVE  FALSE
  <2>1. (\E m \in S : \A n \in S : m <= n) => Min(S) \in S /\ \A n \in S : Min(S) <= n
    BY DEF Min
  <2> QED
    BY <2>1
<1>2. PICK top \in S : TRUE
  OBVIOUS
<1> DEFINE T == {m \in 0 .. top : \A n \in S : m <= n}
           up == [m \in T |-> m + 1]
<1>3. 0 \in T /\ \A m \in T : m \in Nat /\ m + 1 \in T
  BY <1>1, <1>2
<1>4. IsFiniteSet(T)
  <2>1. IsFiniteSet(0 .. top) /\ T \in SUBSET (0 .. top)
    BY <1>2, FS_Interval
  <2> QED
    BY <2>1, FS_Subset
<1> HIDE DEF T
<1>5. up \in Injection(T, T \ {0})
  BY <1>3 DEF Injection, IsInjective
<1>6. IsFiniteSet(T \ {0}) /\ Cardinality(T \ {0}) = Cardinality(T) - 1
  BY <1>3, <1>4, FS_RemoveElement
<1>7. Cardinality(T) <= Cardinality(T \ {0})
  BY <1>5, <1>6, FS_Injection
<1> QED
  BY <1>4, <1>6, <1>7, FS_CardinalityType

\* A period that comes up is the first of the calendar without a run.
LEMMA NextUnrunPeriodIsFirst ==
  ASSUME NEW c \in Companies, UnrunDates(c) # {}
  PROVE  /\ NextUnrunPeriod(c) \in Dates
         /\ NextUnrunPeriod(c) \notin RanCheckDates(c)
         /\ \A date \in Dates : date < NextUnrunPeriod(c) => date \in RanCheckDates(c)
<1>1. UnrunDates(c) \in SUBSET Nat /\ \A date \in Dates : date \in Nat
  BY PayrollServerAssumption DEF UnrunDates
<1>2. /\ NextUnrunPeriod(c) \in UnrunDates(c)
      /\ \A date \in UnrunDates(c) : NextUnrunPeriod(c) <= date
  BY <1>1, MinIsLeast DEF NextUnrunPeriod
<1> QED
  BY <1>1, <1>2 DEF UnrunDates

\* A record but for its totals.
Plain(record) == [record EXCEPT !.ytd = 0]

\* The changes an edit makes leave the totals and the file alone, and so do those
\* of a pay run with everything but the totals.
LEMMA EditedRecord ==
  ASSUME NEW record \in Record
  PROVE  /\ \A field \in Fields :
              /\ WithSetting(record, field) \in Record
              /\ WithSetting(record, field).ytd = record.ytd
              /\ WithSetting(record, field).onFile = record.onFile
              /\ Plain(WithSetting(record, field)) = WithSetting(Plain(record), field)
         /\ \A order \in Orders :
              /\ WithOrder(record, order) \in Record
              /\ WithOrder(record, order).ytd = record.ytd
              /\ WithOrder(record, order).onFile = record.onFile
              /\ Plain(WithOrder(record, order)) = WithOrder(Plain(record), order)
              /\ WithoutOrder(record, order) \in Record
              /\ WithoutOrder(record, order).ytd = record.ytd
              /\ WithoutOrder(record, order).onFile = record.onFile
              /\ Plain(WithoutOrder(record, order)) = WithoutOrder(Plain(record), order)
         /\ \A date \in Dates :
              /\ Terminated(record, date) \in Record
              /\ Terminated(record, date).ytd = record.ytd
              /\ Terminated(record, date).onFile = record.onFile
              /\ Plain(Terminated(record, date)) = Terminated(Plain(record), date)
<1>1. ASSUME NEW field \in Fields
      PROVE  /\ WithSetting(record, field) \in Record
             /\ WithSetting(record, field).ytd = record.ytd
             /\ WithSetting(record, field).onFile = record.onFile
             /\ Plain(WithSetting(record, field)) = WithSetting(Plain(record), field)
  BY DEF WithSetting, Record, Plain
<1>2. ASSUME NEW order \in Orders
      PROVE  /\ WithOrder(record, order) \in Record
             /\ WithOrder(record, order).ytd = record.ytd
             /\ WithOrder(record, order).onFile = record.onFile
             /\ Plain(WithOrder(record, order)) = WithOrder(Plain(record), order)
  BY DEF WithOrder, Record, Plain
<1>3. ASSUME NEW order \in Orders
      PROVE  /\ WithoutOrder(record, order) \in Record
             /\ WithoutOrder(record, order).ytd = record.ytd
             /\ WithoutOrder(record, order).onFile = record.onFile
             /\ Plain(WithoutOrder(record, order)) = WithoutOrder(Plain(record), order)
  BY DEF WithoutOrder, Record, Plain
<1>4. ASSUME NEW date \in Dates
      PROVE  /\ Terminated(record, date) \in Record
             /\ Terminated(record, date).ytd = record.ytd
             /\ Terminated(record, date).onFile = record.onFile
             /\ Plain(Terminated(record, date)) = Terminated(Plain(record), date)
  BY DEF Terminated, Record, Plain
<1> QED
  BY <1>1, <1>2, <1>3, <1>4

LEMMA HiredRecord ==
  ASSUME NEW date \in Dates
  PROVE  /\ Hired(date) \in Record
         /\ Hired(date).onFile /\ Hired(date).ytd = 0
         /\ Plain(Hired(date)) = Hired(date)
<1>1. NoRecord \in Record /\ NoRecord.ytd = 0
  BY DEF NoRecord, Record
<1>2. Hired(date) = [NoRecord EXCEPT !.onFile = TRUE, !.hireDate = date]
  BY DEF Hired
<1>3. Hired(date) \in Record /\ Hired(date).onFile /\ Hired(date).ytd = 0
  BY <1>1, <1>2 DEF Record
<1>4. Plain(Hired(date)) = Hired(date)
  BY <1>3 DEF Record, Plain
<1> QED
  BY <1>3, <1>4

LEMMA PaidRecord ==
  ASSUME NEW record \in Record
  PROVE  LET rolled == [record EXCEPT !.ytd = @ + 1]
         IN  /\ rolled \in Record
             /\ rolled.ytd = record.ytd + 1
             /\ rolled.onFile = record.onFile
             /\ Plain(rolled) = Plain(record)
<1> DEFINE rolled == [record EXCEPT !.ytd = @ + 1]
<1>1. record.ytd + 1 \in Nat
  BY DEF Record
<1>2. rolled \in Record /\ rolled.ytd = record.ytd + 1 /\ rolled.onFile = record.onFile
  BY <1>1 DEF Record
<1>3. Plain(rolled) = Plain(record)
  BY DEF Record, Plain
<1> QED
  BY <1>2, <1>3

\* An employee's checks can be counted.
LEMMA ChecksAreCounted ==
  ASSUME IInv, NEW e
  PROVE  IsFiniteSet(ChecksOf(e)) /\ Cardinality(ChecksOf(e)) \in Nat
<1>1. ChecksOf(e) \in SUBSET payRuns /\ IsFiniteSet(payRuns)
  BY DEF ChecksOf, IInv
<1> QED
  BY <1>1, FS_Subset, FS_CardinalityType

\* The fields of a request in flight.
LEMMA RequestFields ==
  ASSUME NEW request \in Request
  PROVE  /\ request.kind \in {"idle", "edit", "hire", "move", "run"}
         /\ request = Idle <=> request.kind = "idle"
         /\ request.kind = "edit" =>
               request.employee \in Employees /\ request.record \in Record
         /\ request.kind = "hire" => request.employee \in Employees
         /\ request.kind = "move" => request.employee \in Applicants /\ request.stage \in Stages
         /\ request.kind = "run" =>
               /\ request.company \in Companies
               /\ request.checkDate \in Dates
               /\ request.records \in [Employees -> Record]
<1> QED
  BY DEF Request, Idle

\* What a request in flight holds, by its kind.
LEMMA HeldByKind ==
  ASSUME NEW request \in Request
  PROVE  /\ request.kind \in {"edit", "move"} => HeldBy(request) = {request.employee}
         /\ request.kind = "run" =>
               HeldBy(request) =
                  {request.company}
                    \union ActiveEmployeesFor(request.company, request.records,
                                              request.checkDate)
         /\ request.kind \in {"idle", "hire"} => HeldBy(request) = {}
<1> QED
  BY DEF HeldBy

-----------------------------------------------------------------------------
(* What a step leaves of what the requests in flight hold                  *)

\* A request that stays in flight finds what it holds as it was, unless it is
\* overlapped; and whatever the requests hold, no one is taken off file, no date
\* is run backwards and no check is taken back.
Kept ==
    /\ \A q \in Requests : requests'[q] = requests[q] \/ requests'[q] = Idle
    /\ overlapped \subseteq overlapped'
    /\ \A e \in Employees :
          /\ employees[e].onFile => employees'[e].onFile
          /\ Cardinality(ChecksOf(e)') \in Nat
          /\ Cardinality(ChecksOf(e)) + crashes <= Cardinality(ChecksOf(e)') + crashes'
    /\ \A c \in Companies : RanCheckDates(c) \subseteq RanCheckDates(c)'
    /\ \A q \in Requests :
          requests'[q] # Idle =>
              /\ \A e \in (Employees \intersect HeldBy(requests[q])) \ overlapped' :
                    employees'[e] = employees[e]
              /\ \A e \in (Applicants \intersect HeldBy(requests[q])) \ overlapped' :
                    stages'[e] = stages[e]
              /\ \A c \in (Companies \intersect HeldBy(requests[q])) \ overlapped' :
                    RanCheckDates(c)' = RanCheckDates(c)
              /\ requests[q].kind = "hire" => ~employees'[requests[q].employee].onFile

LEMMA KeptIsSound ==
  ASSUME IInv, Kept, crashes' \in Nat, NEW q \in Requests
  PROVE  IsSound(requests[q])'
<1> DEFINE request == requests[q]
<1>1. request \in Request /\ IsSound(request) /\ crashes \in Nat
  BY PayrollServerAssumption DEF IInv, TypeOK, HeldIsSound
<1>2. CASE requests'[q] = Idle
  BY <1>2 DEF IsSound, Idle
<1>3. CASE requests'[q] # Idle
  <2>1. requests'[q] = request
    BY <1>3 DEF Kept
  <2>2. \A e \in Employees, total \in Nat :
           total <= Cardinality(ChecksOf(e)) + crashes =>
               total <= Cardinality(ChecksOf(e)') + crashes'
    <3> SUFFICES ASSUME NEW e \in Employees
                 PROVE  \A total \in Nat :
                           total <= Cardinality(ChecksOf(e)) + crashes =>
                               total <= Cardinality(ChecksOf(e)') + crashes'
      OBVIOUS
    <3>1. /\ Cardinality(ChecksOf(e)) \in Nat /\ Cardinality(ChecksOf(e)') \in Nat
          /\ Cardinality(ChecksOf(e)) + crashes <= Cardinality(ChecksOf(e)') + crashes'
      BY ChecksAreCounted DEF Kept
    <3> QED
      BY <1>1, <3>1
  <2>3. CASE request.kind = "edit"
    <3>1. /\ request.employee \in Employees /\ request.record \in Record
          /\ HeldBy(request) = {request.employee}
      BY <1>1, <2>3, RequestFields, HeldByKind
    <3>2. EditIsSound(request) /\ request.record.ytd \in Nat
      BY <1>1, <2>3, <3>1 DEF IsSound, Record
    <3>3. EditIsSound(request)'
      BY <1>3, <2>1, <2>2, <3>1, <3>2 DEF EditIsSound, Kept
    <3> QED
      BY <2>1, <2>3, <3>3 DEF IsSound
  <2>4. CASE request.kind = "move"
    <3>1. request.employee \in Applicants /\ HeldBy(request) = {request.employee}
      BY <1>1, <2>4, RequestFields, HeldByKind
    <3>2. MoveIsSound(request)'
      BY <1>1, <1>3, <2>1, <2>4, <3>1 DEF IsSound, MoveIsSound, Kept
    <3> QED
      BY <2>1, <2>4, <3>2 DEF IsSound
  <2>5. CASE request.kind = "hire"
    <3>1. HireIsSound(request)'
      BY <1>1, <1>3, <2>1, <2>5 DEF IsSound, HireIsSound, Kept
    <3> QED
      BY <2>1, <2>5, <3>1 DEF IsSound
  <2>6. CASE request.kind = "run"
    <3> DEFINE paid == ActiveEmployeesFor(request.company, request.records,
                                          request.checkDate)
    <3>1. /\ request.company \in Companies
          /\ request.records \in [Employees -> Record]
          /\ HeldBy(request) = {request.company} \union paid
          /\ paid \subseteq Employees
      BY <1>1, <2>6, RequestFields, HeldByKind DEF ActiveEmployeesFor, StaffOf
    <3> HIDE DEF paid
    <3>2. \A e \in Employees : request.records[e].ytd \in Nat
      BY <3>1 DEF Record
    <3>3. RunIsSound(request)
      BY <1>1, <2>6 DEF IsSound
    <3>4. \A e \in Employees :
             /\ request.records[e].onFile => employees'[e].onFile
             /\ request.records[e].ytd <= Cardinality(ChecksOf(e)') + crashes'
      BY <2>2, <3>2, <3>3 DEF RunIsSound, Kept
    <3>5. \A e \in paid \ overlapped' : request.records[e] = employees'[e]
      BY <1>3, <3>1, <3>3 DEF RunIsSound, Kept, paid
    <3>6. /\ request.company \notin overlapped' =>
                request.checkDate \notin RanCheckDates(request.company)'
          /\ \A date \in Dates :
                date < request.checkDate => date \in RanCheckDates(request.company)'
      BY <1>3, <3>1, <3>3 DEF RunIsSound, Kept
    <3>7. RunIsSound(request)'
      BY <2>1, <3>4, <3>5, <3>6 DEF RunIsSound, paid
    <3> QED
      BY <2>1, <2>6, <3>7 DEF IsSound
  <2>7. CASE request.kind = "idle"
    BY <2>1, <2>7 DEF IsSound
  <2> QED
    BY <1>1, <2>3, <2>4, <2>5, <2>6, <2>7, RequestFields
<1> QED
  BY <1>2, <1>3

LEMMA KeptIsHeld ==
  ASSUME IInv, Kept, crashes' \in Nat, requests' \in [Requests -> Request]
  PROVE  (SharedIsOverlapped /\ HeldIsSound /\ OneHireEach)'
<1>1. HeldIsSound'
  BY KeptIsSound DEF HeldIsSound
<1>2. SharedIsOverlapped'
  <2>1. HeldBy(Idle) = {}
    BY DEF HeldBy, Idle
  <2>2. \A q \in Requests : HeldBy(requests'[q]) \subseteq HeldBy(requests[q])
    BY <2>1 DEF Kept
  <2> QED
    BY <2>2 DEF IInv, SharedIsOverlapped, Kept
<1>3. OneHireEach'
  BY DEF IInv, OneHireEach, Kept, Idle
<1> QED
  BY <1>1, <1>2, <1>3

\* A request comes in that is sound and, if it is a hire, the only one of its
\* employee; nothing is written.
LEMMA BegunIInv ==
  ASSUME IInv, NEW q \in Requests, NEW request \in Request, Begin(q, request),
         edits' \in 0 .. MaxEdits,
         IsSound(request),
         request.kind = "hire" =>
            \A p \in Requests : requests[p].kind = "hire" =>
                requests[p].employee # request.employee
  PROVE  IInv'
<1>1. /\ requests' = [requests EXCEPT ![q] = request]
      /\ overlapped' = overlapped \union (HeldBy(request) \intersect HeldByOthers(q))
      /\ UNCHANGED <<employees, payRuns, stages, crashes, nextRunId, intended>>
  BY DEF Begin
<1>2. /\ requests' \in [Requests -> Request]
      /\ requests'[q] = request
      /\ \A p \in Requests \ {q} : requests'[p] = requests[p]
  BY <1>1 DEF IInv, TypeOK
<1>3. overlapped \subseteq overlapped'
  BY <1>1
<1>4. HeldBy(request) \subseteq Companies \union Employees
  <2>1. request.kind = "run" =>
            ActiveEmployeesFor(request.company, request.records, request.checkDate)
              \subseteq Employees
    BY DEF ActiveEmployeesFor, StaffOf
  <2>2. Applicants \subseteq Employees
    BY PayrollServerAssumption
  <2> QED
    BY <2>1, <2>2, RequestFields, HeldByKind
<1>5. TypeOK'
  BY <1>1, <1>2, <1>4 DEF IInv, TypeOK
<1>6. \A e : ChecksOf(e)' = ChecksOf(e)
  BY <1>1 DEF ChecksOf
<1>7. \A c : RanCheckDates(c)' = RanCheckDates(c)
  BY <1>1 DEF RanCheckDates
<1>8. HeldIsSound'
  <2> SUFFICES ASSUME NEW p \in Requests PROVE IsSound(requests[p])'
    BY DEF HeldIsSound
  <2>1. PICK held \in Request : held = requests'[p] /\ IsSound(held)
    BY <1>2 DEF IInv, TypeOK, HeldIsSound
  <2>2. held.kind = "edit" => EditIsSound(requests[p])'
    BY <1>1, <1>3, <1>6, <2>1 DEF IsSound, EditIsSound
  <2>3. held.kind = "move" => MoveIsSound(requests[p])'
    BY <1>1, <1>3, <2>1 DEF IsSound, MoveIsSound
  <2>4. held.kind = "hire" => HireIsSound(requests[p])'
    BY <1>1, <2>1 DEF IsSound, HireIsSound
  <2>5. held.kind = "run" => RunIsSound(requests[p])'
    BY <1>1, <1>3, <1>6, <1>7, <2>1 DEF IsSound, RunIsSound
  <2> QED
    BY <2>1, <2>2, <2>3, <2>4, <2>5 DEF IsSound
<1>9. SharedIsOverlapped'
  <2>1. \A p \in Requests \ {q} : HeldBy(requests[p]) \subseteq HeldByOthers(q)
    BY DEF HeldByOthers
  <2> QED
    BY <1>1, <1>2, <2>1 DEF IInv, SharedIsOverlapped
<1>10. OneHireEach'
  BY <1>2 DEF IInv, OneHireEach
<1>11. (IsFiniteSet(payRuns) /\ ApplicantsAreNew /\ PaidAreOnFile /\ OneRunPerCheckDate)'
  BY <1>1, <1>3 DEF IInv, ApplicantsAreNew, PaidAreOnFile, OneRunPerCheckDate
<1>12. (TotalsCoverSavedChecks /\ TotalsAheadByCrashesOnly)'
  BY <1>1, <1>3, <1>6 DEF IInv, TotalsCoverSavedChecks, TotalsAheadByCrashesOnly
<1>13. (NoPeriodSkipped /\ EditsSurvive)'
  BY <1>1, <1>3, <1>7 DEF IInv, NoPeriodSkipped, EditsSurvive
<1> QED
  BY <1>5, <1>8, <1>9, <1>10, <1>11, <1>12, <1>13 DEF IInv

LEMMA BeginRunPayrollIInv ==
  ASSUME IInv, NEW q \in Requests, NEW c \in Companies, BeginRunPayroll(q, c)
  PROVE  IInv'
<1> DEFINE date    == NextUnrunPeriod(c)
           request == Running(c, date)
<1>1. /\ UnrunDates(c) # {} /\ Begin(q, request) /\ UNCHANGED edits
  BY DEF BeginRunPayroll
<1>2. /\ date \in Dates /\ date \notin RanCheckDates(c)
      /\ \A d \in Dates : d < date => d \in RanCheckDates(c)
  BY <1>1, NextUnrunPeriodIsFirst
<1> HIDE DEF date
<1>3. /\ request.kind = "run" /\ request.company = c /\ request.checkDate = date
      /\ request.records = employees
  BY DEF Running
<1>4. request \in Request
  BY <1>2 DEF Running, Request, IInv, TypeOK
<1>5. RunIsSound(request)
  BY <1>2, <1>3 DEF RunIsSound, IInv, TotalsAheadByCrashesOnly
<1>6. IsSound(request) /\ edits' \in 0 .. MaxEdits
  BY <1>1, <1>3, <1>5 DEF IsSound, IInv, TypeOK
<1> HIDE DEF request
<1> QED
  BY <1>1, <1>3, <1>4, <1>6, BegunIInv

\* The number of edits started stays below its bound.
LEMMA OneMoreEdit ==
  ASSUME IInv, edits < MaxEdits, edits' = edits + 1
  PROVE  edits' \in 0 .. MaxEdits
<1> QED
  BY PayrollServerAssumption DEF IInv, TypeOK

LEMMA BeginEditIInv ==
  ASSUME IInv, NEW q \in Requests, NEW e \in Employees, BeginEdit(q, e)
  PROVE  IInv'
<1> DEFINE request == Editing(e)
<1>1. /\ employees[e].onFile /\ Begin(q, request) /\ edits' \in 0 .. MaxEdits
  BY OneMoreEdit DEF BeginEdit
<1>2. /\ request.kind = "edit" /\ request.employee = e
      /\ request.record = employees[e] /\ request \in Request
  BY DEF Editing, Request, IInv, TypeOK
<1>3. EditIsSound(request)
  BY <1>1, <1>2 DEF EditIsSound, IInv, TotalsAheadByCrashesOnly
<1>4. IsSound(request)
  BY <1>2, <1>3 DEF IsSound
<1> HIDE DEF request
<1> QED
  BY <1>1, <1>2, <1>4, BegunIInv

LEMMA BeginHireIInv ==
  ASSUME IInv, NEW q \in Requests, NEW e \in Employees, BeginHire(q, e)
  PROVE  IInv'
<1> DEFINE request == Hiring(e)
<1>1. /\ ~employees[e].onFile /\ e \notin Applicants
      /\ \A p \in Requests : requests[p].kind = "hire" => requests[p].employee # e
      /\ Begin(q, request) /\ edits' \in 0 .. MaxEdits
  BY OneMoreEdit DEF BeginHire
<1>2. request.kind = "hire" /\ request.employee = e /\ request \in Request
  BY DEF Hiring, Request
<1>3. IsSound(request)
  BY <1>1, <1>2 DEF IsSound, HireIsSound
<1> HIDE DEF request
<1> QED
  BY <1>1, <1>2, <1>3, BegunIInv

LEMMA BeginMoveIInv ==
  ASSUME IInv, NEW q \in Requests, NEW e \in Applicants, BeginMove(q, e)
  PROVE  IInv'
<1> DEFINE request == Moving(e)
<1>1. Begin(q, request) /\ edits' \in 0 .. MaxEdits
  BY OneMoreEdit DEF BeginMove
<1>2. /\ request.kind = "move" /\ request.employee = e
      /\ request.stage = stages[e] /\ request \in Request
  BY DEF Moving, Request, IInv, TypeOK
<1>3. IsSound(request)
  BY <1>2 DEF IsSound, MoveIsSound
<1> HIDE DEF request
<1> QED
  BY <1>1, <1>2, <1>3, BegunIInv

-----------------------------------------------------------------------------
(* Steps that write no employee and no run                                 *)

\* Kept, of a step that writes neither: what is held of the stages is left.
LEMMA NothingWritten ==
  ASSUME IInv, UNCHANGED <<employees, payRuns>>,
         crashes' \in Nat, crashes <= crashes',
         \A q \in Requests : requests'[q] = requests[q] \/ requests'[q] = Idle,
         overlapped \subseteq overlapped',
         \A q \in Requests : \A e \in (Applicants \intersect HeldBy(requests[q])) \ overlapped' :
            requests'[q] # Idle => stages'[e] = stages[e]
  PROVE  Kept
<1>1. \A e : ChecksOf(e)' = ChecksOf(e)
  BY DEF ChecksOf
<1>2. \A c : RanCheckDates(c)' = RanCheckDates(c)
  BY DEF RanCheckDates
<1>3. crashes \in Nat
  BY PayrollServerAssumption DEF IInv, TypeOK
<1>4. \A e \in Employees :
         /\ Cardinality(ChecksOf(e)') \in Nat
         /\ Cardinality(ChecksOf(e)) + crashes <= Cardinality(ChecksOf(e)') + crashes'
  BY <1>1, <1>3, ChecksAreCounted
<1>5. \A q \in Requests :
         requests[q].kind = "hire" => ~employees'[requests[q].employee].onFile
  BY DEF IInv, HeldIsSound, IsSound, HireIsSound
<1> QED
  BY <1>2, <1>4, <1>5 DEF Kept

LEMMA NothingWrittenIInv ==
  ASSUME IInv, UNCHANGED <<employees, payRuns, nextRunId, edits, intended>>, Kept,
         requests' \in [Requests -> Request],
         stages' \in [Applicants -> Stages],
         crashes' \in 0 .. MaxCrashes, crashes <= crashes',
         overlapped' \subseteq Companies \union Employees,
         ApplicantsAreNew'
  PROVE  IInv'
<1>1. TypeOK'
  BY DEF IInv, TypeOK
<1>2. (SharedIsOverlapped /\ HeldIsSound /\ OneHireEach)'
  BY KeptIsHeld, PayrollServerAssumption
<1>3. overlapped \subseteq overlapped'
  BY DEF Kept
<1>4. (IsFiniteSet(payRuns) /\ PaidAreOnFile /\ OneRunPerCheckDate)'
  BY <1>3 DEF IInv, PaidAreOnFile, OneRunPerCheckDate
<1>5. \A e : ChecksOf(e)' = ChecksOf(e)
  BY DEF ChecksOf
<1>6. TotalsCoverSavedChecks'
  BY <1>3, <1>5 DEF IInv, TotalsCoverSavedChecks
<1>7. TotalsAheadByCrashesOnly'
  <2> SUFFICES ASSUME NEW e \in Employees
               PROVE  employees[e].ytd <= Cardinality(ChecksOf(e)) + crashes'
    BY <1>5 DEF TotalsAheadByCrashesOnly
  <2>1. /\ employees[e].ytd \in Nat /\ Cardinality(ChecksOf(e)) \in Nat
        /\ crashes \in Nat /\ crashes' \in Nat
    BY ChecksAreCounted, PayrollServerAssumption DEF IInv, TypeOK, Record
  <2>2. employees[e].ytd <= Cardinality(ChecksOf(e)) + crashes
    BY DEF IInv, TotalsAheadByCrashesOnly
  <2> QED
    BY <2>1, <2>2
<1>8. (NoPeriodSkipped /\ EditsSurvive)'
  BY <1>3 DEF IInv, NoPeriodSkipped, RanCheckDates, EditsSurvive
<1> QED
  BY <1>1, <1>2, <1>4, <1>6, <1>7, <1>8 DEF IInv

LEMMA FailRequestIInv ==
  ASSUME IInv, NEW q \in Requests, FailRequest(q) PROVE IInv'
<1>1. /\ requests' = [requests EXCEPT ![q] = Idle]
      /\ UNCHANGED <<employees, payRuns, stages, edits, crashes, nextRunId, intended, overlapped>>
  BY DEF FailRequest
<1>2. /\ requests' \in [Requests -> Request]
      /\ crashes' \in 0 .. MaxCrashes /\ crashes' \in Nat /\ crashes <= crashes'
      /\ \A p \in Requests : requests'[p] = requests[p] \/ requests'[p] = Idle
  BY <1>1, PayrollServerAssumption DEF IInv, TypeOK, Request
<1>3. Kept
  BY <1>1, <1>2, NothingWritten
<1>4. ApplicantsAreNew'
  BY <1>1 DEF IInv, ApplicantsAreNew
<1> QED
  BY <1>1, <1>2, <1>3, <1>4, NothingWrittenIInv DEF IInv, TypeOK

\* What a restart leaves of the requests and its count.
LEMMA RestartedType ==
  ASSUME IInv, Restart
  PROVE  /\ requests' \in [Requests -> Request]
         /\ \A q \in Requests : requests'[q] = Idle
         /\ crashes' = crashes + 1 /\ crashes \in Nat /\ crashes' \in Nat
         /\ crashes' \in 0 .. MaxCrashes
<1> QED
  BY PayrollServerAssumption DEF IInv, TypeOK, Restart, Request

LEMMA CrashIInv ==
  ASSUME IInv, Crash PROVE IInv'
<1>1. /\ requests' \in [Requests -> Request]
      /\ \A q \in Requests : requests'[q] = Idle
      /\ crashes' \in 0 .. MaxCrashes /\ crashes' \in Nat /\ crashes <= crashes'
  BY RestartedType DEF Crash
<1>2. UNCHANGED <<employees, payRuns, stages, edits, nextRunId, intended, overlapped>>
  BY DEF Crash, Restart
<1>3. Kept
  BY <1>1, <1>2, NothingWritten
<1>4. ApplicantsAreNew'
  BY <1>2 DEF IInv, ApplicantsAreNew
<1> QED
  BY <1>1, <1>2, <1>3, <1>4, NothingWrittenIInv DEF IInv, TypeOK

LEMMA AdvanceIInv ==
  ASSUME IInv, NEW q \in Requests, NEW stage \in Stages, Advance(q, stage)
  PROVE  IInv'
<1> DEFINE e == requests[q].employee
<1>1. /\ requests[q].kind = "move" /\ stage \in ForwardMoves(requests[q].stage)
      /\ stages' = [stages EXCEPT ![e] = stage]
      /\ requests' = [requests EXCEPT ![q] = Idle]
      /\ UNCHANGED <<employees, payRuns, edits, crashes, nextRunId, intended, overlapped>>
  BY DEF Advance
<1>2. requests[q] \in Request /\ MoveIsSound(requests[q])
  BY <1>1 DEF IInv, TypeOK, HeldIsSound, IsSound
<1>3. e \in Applicants /\ HeldBy(requests[q]) = {e}
  BY <1>1, <1>2, RequestFields, HeldByKind
<1>4. /\ requests' \in [Requests -> Request]
      /\ stages' \in [Applicants -> Stages]
      /\ stages'[e] = stage /\ \A a \in Applicants \ {e} : stages'[a] = stages[a]
      /\ crashes' \in 0 .. MaxCrashes /\ crashes' \in Nat /\ crashes <= crashes'
      /\ requests'[q] = Idle
      /\ \A p \in Requests \ {q} : requests'[p] = requests[p]
  BY <1>1, <1>3, PayrollServerAssumption DEF IInv, TypeOK, Request
<1>5. e \notin overlapped => stages[e] # "hired"
  BY <1>1, <1>2 DEF MoveIsSound, ForwardMoves
<1> HIDE DEF e
<1>6. Kept
  <2>1. \A p \in Requests \ {q} : e \in HeldBy(requests[p]) => e \in overlapped
    BY <1>3 DEF IInv, SharedIsOverlapped
  <2> QED
    BY <1>1, <1>4, <2>1, NothingWritten
<1>7. ApplicantsAreNew'
  BY <1>1, <1>4, <1>5 DEF IInv, ApplicantsAreNew
<1> QED
  BY <1>1, <1>4, <1>6, <1>7, NothingWrittenIInv DEF IInv, TypeOK

LEMMA AnswerOfferIInv ==
  ASSUME IInv, NEW e \in Applicants, NEW stage \in {"offer_accepted", "closed"},
         AnswerOffer(e, stage)
  PROVE  IInv'
<1>1. /\ stages[e] = "offer_extended"
      /\ stages' = [stages EXCEPT ![e] = stage]
      /\ overlapped' = overlapped \union ({e} \intersect HeldByAny)
      /\ UNCHANGED <<employees, payRuns, requests, edits, crashes, nextRunId, intended>>
  BY DEF AnswerOffer
<1>2. /\ stages' \in [Applicants -> Stages]
      /\ stages'[e] = stage /\ \A a \in Applicants \ {e} : stages'[a] = stages[a]
      /\ crashes' \in 0 .. MaxCrashes /\ crashes' \in Nat /\ crashes <= crashes'
      /\ requests' \in [Requests -> Request]
      /\ overlapped' \subseteq Companies \union Employees
      /\ overlapped \subseteq overlapped'
  BY <1>1, PayrollServerAssumption DEF IInv, TypeOK, Stages
<1>3. \A q \in Requests : e \in HeldBy(requests[q]) => e \in overlapped'
  BY <1>1 DEF HeldByAny
<1>4. Kept
  BY <1>1, <1>2, <1>3, NothingWritten
<1>5. ApplicantsAreNew'
  BY <1>1, <1>2 DEF IInv, ApplicantsAreNew
<1> QED
  BY <1>1, <1>2, <1>4, <1>5, NothingWrittenIInv

-----------------------------------------------------------------------------
(* Steps that write one record                                             *)

\* The record of e is written by a handler that nobody else in flight shares it
\* with, unless it is overlapped.  It stays on file, and its total is what the
\* saved checks allow.
LEMMA OneRecordWrittenIInv ==
  ASSUME IInv, NEW e \in Employees, NEW record \in Record, NEW meant \in Record,
         employees' = [employees EXCEPT ![e] = record],
         intended' = [intended EXCEPT ![e] = meant],
         UNCHANGED <<payRuns, nextRunId, edits>>,
         requests' \in [Requests -> Request],
         stages' \in [Applicants -> Stages],
         crashes' \in 0 .. MaxCrashes, crashes <= crashes',
         overlapped' \subseteq Companies \union Employees,
         overlapped \subseteq overlapped',
         record.onFile,
         record.ytd <= Cardinality(ChecksOf(e)) + crashes',
         e \notin overlapped' =>
            Plain(record) = meant /\ Cardinality(ChecksOf(e)) <= record.ytd,
         \A q \in Requests : requests'[q] = requests[q] \/ requests'[q] = Idle,
         \A q \in Requests :
            requests'[q] # Idle =>
                /\ e \in HeldBy(requests[q]) => e \in overlapped'
                /\ requests[q].kind = "hire" => requests[q].employee # e
                /\ \A a \in (Applicants \intersect HeldBy(requests[q])) \ overlapped' :
                      stages'[a] = stages[a],
         ApplicantsAreNew'
  PROVE  IInv'
<1>1. /\ employees' \in [Employees -> Record] /\ intended' \in [Employees -> Record]
      /\ employees'[e] = record /\ intended'[e] = meant
      /\ \A f \in Employees \ {e} : employees'[f] = employees[f] /\ intended'[f] = intended[f]
  BY DEF IInv, TypeOK
<1>2. crashes \in Nat /\ crashes' \in Nat
  BY PayrollServerAssumption DEF IInv, TypeOK
<1>3. TypeOK'
  BY <1>1 DEF IInv, TypeOK
<1>4. \A f : ChecksOf(f)' = ChecksOf(f)
  BY DEF ChecksOf
<1>5. \A c : RanCheckDates(c)' = RanCheckDates(c)
  BY DEF RanCheckDates
<1>6. \A f \in Employees : employees[f].onFile => employees'[f].onFile
  BY <1>1
<1>7. Kept
  <2>1. \A f \in Employees :
           /\ Cardinality(ChecksOf(f)') \in Nat
           /\ Cardinality(ChecksOf(f)) + crashes <= Cardinality(ChecksOf(f)') + crashes'
    BY <1>2, <1>4, ChecksAreCounted
  <2>2. ASSUME NEW q \in Requests, requests'[q] # Idle
        PROVE  /\ \A f \in (Employees \intersect HeldBy(requests[q])) \ overlapped' :
                     employees'[f] = employees[f]
               /\ requests[q].kind = "hire" => ~employees'[requests[q].employee].onFile
    <3>1. requests[q].kind = "hire" =>
             /\ requests[q].employee \in Employees \ {e}
             /\ ~employees[requests[q].employee].onFile
      BY <2>2, RequestFields DEF IInv, TypeOK, HeldIsSound, IsSound, HireIsSound
    <3> QED
      BY <1>1, <2>2, <3>1
  <2> QED
    BY <1>5, <1>6, <2>1, <2>2 DEF Kept
<1>8. (SharedIsOverlapped /\ HeldIsSound /\ OneHireEach)'
  BY <1>2, <1>7, KeptIsHeld
<1>9. (IsFiniteSet(payRuns) /\ OneRunPerCheckDate)'
  BY DEF IInv, OneRunPerCheckDate
<1>10. PaidAreOnFile'
  <2>1. \A run \in payRuns : \A f \in run.paid : f \in Employees
    BY DEF IInv, TypeOK, StaffOf
  <2> QED
    BY <1>6, <2>1 DEF IInv, PaidAreOnFile
<1>11. TotalsCoverSavedChecks'
  BY <1>1, <1>4 DEF IInv, TotalsCoverSavedChecks
<1>12. TotalsAheadByCrashesOnly'
  <2> SUFFICES ASSUME NEW f \in Employees
               PROVE  employees'[f].ytd <= Cardinality(ChecksOf(f)) + crashes'
    BY <1>4 DEF TotalsAheadByCrashesOnly
  <2>1. /\ employees[f].ytd \in Nat /\ Cardinality(ChecksOf(f)) \in Nat
        /\ employees[f].ytd <= Cardinality(ChecksOf(f)) + crashes
    BY ChecksAreCounted DEF IInv, TypeOK, Record, TotalsAheadByCrashesOnly
  <2> QED
    BY <1>1, <1>2, <2>1
<1>13. NoPeriodSkipped'
  BY <1>5 DEF IInv, NoPeriodSkipped
<1>14. EditsSurvive'
  BY <1>1 DEF IInv, EditsSurvive, Plain
<1> QED
  BY <1>3, <1>8, <1>9, <1>10, <1>11, <1>12, <1>13, <1>14 DEF IInv

\* An edit that changes what was read, but for the totals and the file, and the
\* intended record in the same way.
LEMMA EditIInv ==
  ASSUME IInv, NEW q \in Requests, requests[q].kind = "edit",
         NEW record \in Record, NEW meant \in Record,
         Save(q, record, meant), UNCHANGED stages,
         record.onFile = Held(q).onFile,
         record.ytd = Held(q).ytd,
         Plain(Held(q)) = Latest(q) => Plain(record) = meant
  PROVE  IInv'
<1> DEFINE e == requests[q].employee
<1>1. requests[q] \in Request /\ EditIsSound(requests[q])
  BY DEF IInv, TypeOK, HeldIsSound, IsSound
<1>2. e \in Employees /\ Held(q) \in Record /\ HeldBy(requests[q]) = {e}
  BY <1>1, RequestFields, HeldByKind DEF Held
<1>3. /\ Held(q).onFile /\ employees[e].onFile
      /\ e \notin overlapped => Held(q) = employees[e]
      /\ Held(q).ytd <= Cardinality(ChecksOf(e)) + crashes
  BY <1>1 DEF EditIsSound, Held
<1>4. /\ employees' = [employees EXCEPT ![e] = record]
      /\ intended' = [intended EXCEPT ![e] = meant]
      /\ requests' = [requests EXCEPT ![q] = Idle]
      /\ UNCHANGED <<payRuns, edits, crashes, nextRunId, overlapped, stages>>
  BY DEF Save
<1>5. Latest(q) = intended[e]
  BY DEF Latest
<1> HIDE DEF e
<1>6. /\ requests' \in [Requests -> Request]
      /\ crashes' \in 0 .. MaxCrashes /\ crashes <= crashes'
      /\ requests'[q] = Idle
      /\ \A p \in Requests \ {q} : requests'[p] = requests[p]
      /\ stages' \in [Applicants -> Stages]
      /\ overlapped' \subseteq Companies \union Employees
  BY <1>4, PayrollServerAssumption DEF IInv, TypeOK, Request
<1>7. e \notin overlapped' =>
         Plain(record) = meant /\ Cardinality(ChecksOf(e)) <= record.ytd
  BY <1>2, <1>3, <1>4, <1>5 DEF IInv, EditsSurvive, TotalsCoverSavedChecks, Plain
<1>8. \A p \in Requests \ {q} :
         /\ e \in HeldBy(requests[p]) => e \in overlapped'
         /\ requests[p].kind = "hire" => requests[p].employee # e
  BY <1>2, <1>3, <1>4
     DEF IInv, SharedIsOverlapped, HeldIsSound, IsSound, HireIsSound
<1>9. ApplicantsAreNew'
  <2>1. \A a \in Applicants \ overlapped :
           stages[a] # "hired" => a \in Employees \ {e} /\ ~employees[a].onFile
    BY <1>3, PayrollServerAssumption DEF IInv, ApplicantsAreNew
  <2> QED
    BY <1>4, <2>1 DEF ApplicantsAreNew
<1> QED
  BY <1>2, <1>3, <1>4, <1>6, <1>7, <1>8, <1>9, OneRecordWrittenIInv

LEMMA ChangeSettingIInv ==
  ASSUME IInv, NEW q \in Requests, NEW field \in Fields, ChangeSetting(q, field)
  PROVE  IInv'
<1>1. /\ requests[q].kind = "edit" /\ UNCHANGED stages
      /\ Save(q, WithSetting(Held(q), field), WithSetting(Latest(q), field))
  BY DEF ChangeSetting
<1>2. Held(q) \in Record /\ Latest(q) \in Record
  BY <1>1, RequestFields DEF Held, Latest, IInv, TypeOK
<1> QED
  BY <1>1, <1>2, EditedRecord, EditIInv

LEMMA AddOrderIInv ==
  ASSUME IInv, NEW q \in Requests, NEW order \in Orders, AddOrder(q, order)
  PROVE  IInv'
<1>1. /\ requests[q].kind = "edit" /\ UNCHANGED stages
      /\ Save(q, WithOrder(Held(q), order), WithOrder(Latest(q), order))
  BY DEF AddOrder
<1>2. Held(q) \in Record /\ Latest(q) \in Record
  BY <1>1, RequestFields DEF Held, Latest, IInv, TypeOK
<1> QED
  BY <1>1, <1>2, EditedRecord, EditIInv

LEMMA TerminateIInv ==
  ASSUME IInv, NEW q \in Requests, NEW date \in Dates, Terminate(q, date)
  PROVE  IInv'
<1>1. /\ requests[q].kind = "edit" /\ UNCHANGED stages
      /\ Save(q, Terminated(Held(q), date), Terminated(Latest(q), date))
  BY DEF Terminate
<1>2. Held(q) \in Record /\ Latest(q) \in Record
  BY <1>1, RequestFields DEF Held, Latest, IInv, TypeOK
<1> QED
  BY <1>1, <1>2, EditedRecord, EditIInv

LEMMA RemoveOrderIInv ==
  ASSUME IInv, NEW e \in Employees, NEW order \in Orders, RemoveOrder(e, order)
  PROVE  IInv'
<1> DEFINE record == WithoutOrder(employees[e], order)
           meant  == WithoutOrder(intended[e], order)
<1>1. /\ employees[e].onFile
      /\ employees' = [employees EXCEPT ![e] = record]
      /\ intended' = [intended EXCEPT ![e] = meant]
      /\ overlapped' = overlapped \union ({e} \intersect HeldByAny)
      /\ UNCHANGED <<payRuns, stages, requests, edits, crashes, nextRunId>>
  BY DEF RemoveOrder
<1>2. employees[e] \in Record /\ intended[e] \in Record
  BY DEF IInv, TypeOK
<1>3. /\ record \in Record /\ meant \in Record
      /\ record.onFile = employees[e].onFile /\ record.ytd = employees[e].ytd
      /\ Plain(record) = WithoutOrder(Plain(employees[e]), order)
  BY <1>2, EditedRecord
<1>4. /\ requests' \in [Requests -> Request]
      /\ crashes' \in 0 .. MaxCrashes /\ crashes <= crashes'
      /\ stages' \in [Applicants -> Stages]
      /\ overlapped \subseteq overlapped'
      /\ overlapped' \subseteq Companies \union Employees
  BY <1>1, PayrollServerAssumption DEF IInv, TypeOK
<1>5. record.ytd <= Cardinality(ChecksOf(e)) + crashes'
  BY <1>1, <1>3 DEF IInv, TotalsAheadByCrashesOnly
<1>6. e \notin overlapped' =>
         Plain(record) = meant /\ Cardinality(ChecksOf(e)) <= record.ytd
  BY <1>1, <1>3 DEF IInv, EditsSurvive, TotalsCoverSavedChecks, Plain
<1>7. \A q \in Requests :
         /\ e \in HeldBy(requests[q]) => e \in overlapped'
         /\ requests[q].kind = "hire" => requests[q].employee # e
  BY <1>1 DEF HeldByAny, IInv, HeldIsSound, IsSound, HireIsSound
<1>8. ApplicantsAreNew'
  <2>1. \A a \in Applicants \ overlapped :
           stages[a] # "hired" => a \in Employees \ {e} /\ ~employees[a].onFile
    BY <1>1, PayrollServerAssumption DEF IInv, ApplicantsAreNew
  <2> QED
    BY <1>1, <2>1 DEF ApplicantsAreNew
<1> HIDE DEF record, meant
<1> QED
  BY <1>1, <1>3, <1>4, <1>5, <1>6, <1>7, <1>8, OneRecordWrittenIInv

\* Nobody who is not on file was paid.
LEMMA NoCheckOffFile ==
  ASSUME IInv, NEW e \in Employees, ~employees[e].onFile
  PROVE  Cardinality(ChecksOf(e)) = 0
<1>1. ChecksOf(e) = {}
  BY DEF IInv, PaidAreOnFile, ChecksOf
<1> QED
  BY <1>1, FS_EmptySet

LEMMA HireIInv ==
  ASSUME IInv, NEW q \in Requests, NEW date \in Dates, Hire(q, date)
  PROVE  IInv'
<1> DEFINE e      == requests[q].employee
           record == Hired(date)
<1>1. /\ requests[q].kind = "hire"
      /\ employees' = [employees EXCEPT ![e] = record]
      /\ intended' = [intended EXCEPT ![e] = record]
      /\ requests' = [requests EXCEPT ![q] = Idle]
      /\ UNCHANGED <<payRuns, edits, crashes, nextRunId, overlapped, stages>>
  BY DEF Hire, Save
<1>2. /\ record \in Record /\ record.onFile /\ record.ytd = 0 /\ Plain(record) = record
  BY HiredRecord
<1>3. /\ e \in Employees \ Applicants /\ ~employees[e].onFile
      /\ \A p \in Requests \ {q} : requests[p].kind = "hire" => requests[p].employee # e
  BY <1>1, RequestFields DEF IInv, TypeOK, HeldIsSound, IsSound, HireIsSound, OneHireEach
<1> HIDE DEF e, record
<1>4. Cardinality(ChecksOf(e)) = 0
  BY <1>3, NoCheckOffFile
<1>5. /\ requests' \in [Requests -> Request]
      /\ crashes \in Nat /\ crashes' \in 0 .. MaxCrashes /\ crashes <= crashes'
      /\ requests'[q] = Idle
      /\ \A p \in Requests \ {q} : requests'[p] = requests[p]
      /\ stages' \in [Applicants -> Stages]
      /\ overlapped' \subseteq Companies \union Employees
  BY <1>1, PayrollServerAssumption DEF IInv, TypeOK, Request
<1>6. \A p \in Requests : e \notin HeldBy(requests[p])
  <2> SUFFICES ASSUME NEW p \in Requests PROVE e \notin HeldBy(requests[p])
    OBVIOUS
  <2>1. requests[p] \in Request /\ IsSound(requests[p])
    BY DEF IInv, TypeOK, HeldIsSound
  <2>2. CASE requests[p].kind = "edit"
    BY <1>3, <2>1, <2>2, HeldByKind DEF IsSound, EditIsSound
  <2>3. CASE requests[p].kind = "move"
    BY <1>3, <2>1, <2>3, HeldByKind, RequestFields
  <2>4. CASE requests[p].kind = "run"
    <3>1. RunIsSound(requests[p]) /\ requests[p].company \in Companies
      BY <2>1, <2>4, RequestFields DEF IsSound
    <3>2. ~requests[p].records[e].onFile
      BY <1>3, <3>1 DEF RunIsSound
    <3>3. e # requests[p].company
      BY <1>3, <3>1, PayrollServerAssumption
    <3> QED
      BY <2>1, <2>4, <3>2, <3>3, HeldByKind DEF ActiveEmployeesFor
  <2>5. CASE requests[p].kind \in {"idle", "hire"}
    BY <2>1, <2>5, HeldByKind
  <2> QED
    BY <2>1, <2>2, <2>3, <2>4, <2>5, RequestFields
<1>7. ApplicantsAreNew'
  <2>1. \A a \in Applicants : a \in Employees \ {e}
    BY <1>3, PayrollServerAssumption
  <2> QED
    BY <1>1, <2>1 DEF IInv, ApplicantsAreNew
<1>8. /\ record.ytd <= Cardinality(ChecksOf(e)) + crashes'
      /\ e \notin overlapped' =>
            Plain(record) = record /\ Cardinality(ChecksOf(e)) <= record.ytd
  BY <1>1, <1>2, <1>4, <1>5
<1>9. \A p \in Requests :
         requests'[p] # Idle =>
             /\ e \in HeldBy(requests[p]) => e \in overlapped'
             /\ requests[p].kind = "hire" => requests[p].employee # e
             /\ \A a \in (Applicants \intersect HeldBy(requests[p])) \ overlapped' :
                   stages'[a] = stages[a]
  BY <1>1, <1>3, <1>5, <1>6
<1>10. \A p \in Requests : requests'[p] = requests[p] \/ requests'[p] = Idle
  BY <1>5
<1>11. overlapped \subseteq overlapped' /\ UNCHANGED <<payRuns, nextRunId, edits>>
  BY <1>1
<1> QED
  BY <1>1, <1>2, <1>3, <1>5, <1>7, <1>8, <1>9, <1>10, <1>11, OneRecordWrittenIInv

\* What a hire of an applicant writes, whether the process then stops or not.
LEMMA ApplicantHiredIInv ==
  ASSUME IInv, NEW q \in Requests, NEW date \in Dates, MayHire(q),
         NEW e, e = requests[q].employee, NEW record, record = Hired(date),
         employees' = [employees EXCEPT ![e] = record],
         intended' = [intended EXCEPT ![e] = record],
         UNCHANGED <<payRuns, edits, nextRunId>>,
         requests' \in [Requests -> Request],
         requests'[q] = Idle,
         \A p \in Requests : requests'[p] = requests[p] \/ requests'[p] = Idle,
         stages' \in [Applicants -> Stages],
         e \notin overlapped' => stages'[e] = "hired",
         \A a \in Applicants \ {e} : stages'[a] = stages[a],
         crashes' \in 0 .. MaxCrashes, crashes <= crashes',
         overlapped' = overlapped \/ overlapped' = overlapped \union {e}
  PROVE  IInv'
<1>1. record \in Record /\ record.onFile /\ record.ytd = 0 /\ Plain(record) = record
  BY HiredRecord
<1>2. /\ requests[q].kind = "move" /\ requests[q].stage = "offer_accepted"
      /\ requests[q] \in Request /\ MoveIsSound(requests[q])
  BY DEF MayHire, IInv, TypeOK, HeldIsSound, IsSound
<1>3. e \in Applicants /\ e \in Employees /\ HeldBy(requests[q]) = {e}
  BY <1>2, RequestFields, HeldByKind, PayrollServerAssumption
<1>4. e \notin overlapped => ~employees[e].onFile
  BY <1>2, <1>3 DEF MoveIsSound, IInv, ApplicantsAreNew
<1>5. e \notin overlapped => Cardinality(ChecksOf(e)) = 0
  BY <1>3, <1>4, NoCheckOffFile
<1>6. /\ Cardinality(ChecksOf(e)) \in Nat /\ crashes' \in Nat
      /\ overlapped' \subseteq Companies \union Employees
      /\ overlapped \subseteq overlapped'
  BY <1>3, ChecksAreCounted, PayrollServerAssumption DEF IInv, TypeOK
<1>7. \A p \in Requests \ {q} :
         /\ e \in HeldBy(requests[p]) => e \in overlapped'
         /\ requests[p].kind = "hire" => requests[p].employee # e
  BY <1>3, <1>6 DEF IInv, SharedIsOverlapped, HeldIsSound, IsSound, HireIsSound
<1>8. \A p \in Requests :
         requests'[p] # Idle =>
             /\ e \in HeldBy(requests[p]) => e \in overlapped'
             /\ requests[p].kind = "hire" => requests[p].employee # e
             /\ \A a \in (Applicants \intersect HeldBy(requests[p])) \ overlapped' :
                   stages'[a] = stages[a]
  BY <1>7
<1>9. ApplicantsAreNew'
  <2>1. \A a \in Applicants : a \in Employees
    BY PayrollServerAssumption
  <2> QED
    BY <1>6, <2>1 DEF IInv, TypeOK, ApplicantsAreNew
<1>10. /\ record.ytd <= Cardinality(ChecksOf(e)) + crashes'
       /\ e \notin overlapped' =>
             Plain(record) = record /\ Cardinality(ChecksOf(e)) <= record.ytd
  BY <1>1, <1>5, <1>6
<1> QED
  BY <1>1, <1>3, <1>6, <1>8, <1>9, <1>10, OneRecordWrittenIInv

LEMMA HireCandidateIInv ==
  ASSUME IInv, NEW q \in Requests, NEW date \in Dates, HireCandidate(q, date)
  PROVE  IInv'
<1> DEFINE e == requests[q].employee
<1>1. /\ MayHire(q)
      /\ employees' = [employees EXCEPT ![e] = Hired(date)]
      /\ intended' = [intended EXCEPT ![e] = Hired(date)]
      /\ requests' = [requests EXCEPT ![q] = Idle]
      /\ stages' = [stages EXCEPT ![e] = "hired"]
      /\ UNCHANGED <<payRuns, edits, crashes, nextRunId, overlapped>>
  BY DEF HireCandidate, Save
<1>2. e \in Applicants
  BY <1>1, RequestFields DEF MayHire, IInv, TypeOK
<1>3. /\ requests' \in [Requests -> Request]
      /\ requests'[q] = Idle
      /\ \A p \in Requests : requests'[p] = requests[p] \/ requests'[p] = Idle
      /\ stages' \in [Applicants -> Stages]
      /\ stages'[e] = "hired"
      /\ \A a \in Applicants \ {e} : stages'[a] = stages[a]
      /\ crashes' \in 0 .. MaxCrashes /\ crashes <= crashes'
  BY <1>1, <1>2, PayrollServerAssumption DEF IInv, TypeOK, Request, Stages
<1> QED
  BY <1>1, <1>3, ApplicantHiredIInv

LEMMA CrashBetweenHireSavesIInv ==
  ASSUME IInv, NEW q \in Requests, NEW date \in Dates, CrashBetweenHireSaves(q, date)
  PROVE  IInv'
<1> DEFINE e == requests[q].employee
<1>1. /\ MayHire(q)
      /\ employees' = [employees EXCEPT ![e] = Hired(date)]
      /\ intended' = [intended EXCEPT ![e] = Hired(date)]
      /\ overlapped' = overlapped \union {e}
      /\ UNCHANGED <<payRuns, stages, edits, nextRunId>>
  BY DEF CrashBetweenHireSaves, Restart
<1>2. /\ requests' \in [Requests -> Request]
      /\ \A p \in Requests : requests'[p] = Idle
      /\ crashes' \in 0 .. MaxCrashes /\ crashes <= crashes'
  BY RestartedType DEF CrashBetweenHireSaves
<1>3. stages' \in [Applicants -> Stages]
  BY <1>1 DEF IInv, TypeOK
<1> QED
  BY <1>1, <1>2, <1>3, ApplicantHiredIInv

-----------------------------------------------------------------------------
(* Pay runs                                                                *)

\* Those that a run in flight pays.
PaidBy(request) ==
    ActiveEmployeesFor(request.company, request.records, request.checkDate)

\* What approvePayRun() writes: the records of those it pays, as they were read
\* and with one more check, which changes the totals alone.
LEMMA RolledForward ==
  ASSUME IInv, NEW q \in Requests, requests[q].kind = "run",
         employees' = UpdatedEmployees(q)
  PROVE  /\ PaidBy(requests[q]) \subseteq StaffOf(requests[q].company)
         /\ employees' \in [Employees -> Record]
         /\ \A e \in Employees : employees[e].onFile <=> employees'[e].onFile
         /\ \A e \in PaidBy(requests[q]) :
               /\ e \in Employees /\ employees'[e].onFile
               /\ employees'[e].ytd <= Cardinality(ChecksOf(e)) + crashes + 1
               /\ e \notin overlapped =>
                     /\ requests[q].records[e] = employees[e]
                     /\ employees'[e].ytd = employees[e].ytd + 1
                     /\ Plain(employees'[e]) = Plain(employees[e])
         /\ \A e \in Employees \ PaidBy(requests[q]) : employees'[e] = employees[e]
<1> DEFINE request == requests[q]
           paid    == PaidBy(request)
<1>1. /\ request \in Request /\ RunIsSound(request)
      /\ request.records \in [Employees -> Record]
  BY RequestFields DEF IInv, TypeOK, HeldIsSound, IsSound
<1>2. paid \subseteq StaffOf(request.company) /\ paid \subseteq Employees
  BY DEF PaidBy, ActiveEmployeesFor, StaffOf
<1>3. /\ \A e \in paid : employees'[e] = [request.records[e] EXCEPT !.ytd = @ + 1]
      /\ \A e \in Employees \ paid : employees'[e] = employees[e]
      /\ employees' = [e \in Employees |-> employees'[e]]
  BY <1>2 DEF UpdatedEmployees, PaidBy
<1>4. \A e \in paid :
         /\ employees'[e] \in Record
         /\ employees'[e].ytd = request.records[e].ytd + 1
         /\ employees'[e].onFile = request.records[e].onFile
         /\ Plain(employees'[e]) = Plain(request.records[e])
  BY <1>1, <1>2, <1>3, PaidRecord
<1>5. employees' \in [Employees -> Record]
  <2>1. \A e \in Employees : employees'[e] \in Record
    BY <1>3, <1>4 DEF IInv, TypeOK
  <2> QED
    BY <1>3, <2>1
<1>6. \A e \in paid : request.records[e].onFile /\ employees[e].onFile
  BY <1>1, <1>2 DEF PaidBy, ActiveEmployeesFor, RunIsSound
<1>7. \A e \in Employees : employees[e].onFile <=> employees'[e].onFile
  BY <1>3, <1>4, <1>6
<1>8. ASSUME NEW e \in paid
      PROVE  employees'[e].ytd <= Cardinality(ChecksOf(e)) + crashes + 1
  <2>1. /\ request.records[e].ytd \in Nat /\ Cardinality(ChecksOf(e)) \in Nat
        /\ crashes \in Nat
    BY <1>1, <1>2, ChecksAreCounted, PayrollServerAssumption DEF Record, IInv, TypeOK
  <2>2. request.records[e].ytd <= Cardinality(ChecksOf(e)) + crashes
    BY <1>1, <1>2 DEF RunIsSound
  <2> QED
    BY <1>4, <2>1, <2>2
<1>9. \A e \in paid \ overlapped : request.records[e] = employees[e]
  BY <1>1 DEF RunIsSound, PaidBy
<1> HIDE DEF paid
<1>10. \A e \in paid :
          /\ e \in Employees /\ employees'[e].onFile
          /\ employees'[e].ytd <= Cardinality(ChecksOf(e)) + crashes + 1
          /\ e \notin overlapped =>
                /\ request.records[e] = employees[e]
                /\ employees'[e].ytd = employees[e].ytd + 1
                /\ Plain(employees'[e]) = Plain(employees[e])
  BY <1>2, <1>4, <1>6, <1>8, <1>9
<1> QED
  BY <1>2, <1>3, <1>5, <1>7, <1>10 DEF paid

\* The properties of the records that a roll-forward leaves, saved run or not.
LEMMA RolledForwardRecords ==
  ASSUME IInv, NEW q \in Requests, requests[q].kind = "run",
         employees' = UpdatedEmployees(q),
         UNCHANGED <<stages, intended, overlapped>>
  PROVE  (ApplicantsAreNew /\ EditsSurvive)'
<1>1. \A e \in Applicants : e \in Employees
  BY PayrollServerAssumption
<1>2. ApplicantsAreNew'
  BY <1>1, RolledForward DEF IInv, ApplicantsAreNew
<1>3. \A e \in Employees \ overlapped : Plain(employees'[e]) = Plain(employees[e])
  BY RolledForward
<1>4. EditsSurvive'
  BY <1>3 DEF IInv, EditsSurvive, Plain
<1> QED
  BY <1>2, <1>4

LEMMA CrashBetweenSavesIInv ==
  ASSUME IInv, NEW q \in Requests, CrashBetweenSaves(q) PROVE IInv'
<1> DEFINE paid == PaidBy(requests[q])
<1>1. /\ requests[q].kind = "run" /\ employees' = UpdatedEmployees(q)
      /\ UNCHANGED <<payRuns, stages, edits, nextRunId, intended, overlapped>>
  BY DEF CrashBetweenSaves, Restart
<1>2. /\ requests' \in [Requests -> Request]
      /\ \A p \in Requests : requests'[p] = Idle
      /\ crashes' = crashes + 1 /\ crashes \in Nat /\ crashes' \in Nat
      /\ crashes' \in 0 .. MaxCrashes
  BY RestartedType DEF CrashBetweenSaves
<1>3. /\ employees' \in [Employees -> Record]
      /\ \A e \in Employees : employees[e].onFile <=> employees'[e].onFile
      /\ \A e \in paid :
            /\ employees'[e].ytd <= Cardinality(ChecksOf(e)) + crashes + 1
            /\ e \notin overlapped => employees'[e].ytd = employees[e].ytd + 1
      /\ \A e \in Employees \ paid : employees'[e] = employees[e]
  BY <1>1, RolledForward
<1> HIDE DEF paid
<1>4. TypeOK'
  BY <1>1, <1>2, <1>3 DEF IInv, TypeOK
<1>5. \A e : ChecksOf(e)' = ChecksOf(e)
  BY <1>1 DEF ChecksOf
<1>6. \A c : RanCheckDates(c)' = RanCheckDates(c)
  BY <1>1 DEF RanCheckDates
<1>7. Kept
  <2>1. \A e \in Employees :
           /\ Cardinality(ChecksOf(e)') \in Nat
           /\ Cardinality(ChecksOf(e)) + crashes <= Cardinality(ChecksOf(e)') + crashes'
    BY <1>2, <1>5, ChecksAreCounted
  <2> QED
    BY <1>1, <1>2, <1>3, <1>6, <2>1 DEF Kept
<1>8. (SharedIsOverlapped /\ HeldIsSound /\ OneHireEach)'
  BY <1>2, <1>7, KeptIsHeld
<1>9. (ApplicantsAreNew /\ EditsSurvive)'
  BY <1>1, RolledForwardRecords
<1>10. (IsFiniteSet(payRuns) /\ OneRunPerCheckDate /\ NoPeriodSkipped)'
  BY <1>1, <1>6 DEF IInv, OneRunPerCheckDate, NoPeriodSkipped
<1>11. PaidAreOnFile'
  <2>1. \A run \in payRuns : \A e \in run.paid : e \in Employees
    BY DEF IInv, TypeOK, StaffOf
  <2> QED
    BY <1>1, <1>3, <2>1 DEF IInv, PaidAreOnFile
<1>12. ASSUME NEW e \in Employees
       PROVE  /\ e \notin overlapped' => Cardinality(ChecksOf(e)) <= employees'[e].ytd
              /\ employees'[e].ytd <= Cardinality(ChecksOf(e)) + crashes'
  <2>1. /\ employees[e].ytd \in Nat /\ employees'[e].ytd \in Nat
        /\ Cardinality(ChecksOf(e)) \in Nat
    BY <1>3, ChecksAreCounted DEF IInv, TypeOK, Record
  <2>2. /\ e \notin overlapped => Cardinality(ChecksOf(e)) <= employees[e].ytd
        /\ employees[e].ytd <= Cardinality(ChecksOf(e)) + crashes
    BY DEF IInv, TotalsCoverSavedChecks, TotalsAheadByCrashesOnly
  <2> QED
    BY <1>1, <1>2, <1>3, <2>1, <2>2
<1>13. (TotalsCoverSavedChecks /\ TotalsAheadByCrashesOnly)'
  BY <1>5, <1>12 DEF TotalsCoverSavedChecks, TotalsAheadByCrashesOnly
<1> QED
  BY <1>4, <1>8, <1>9, <1>10, <1>11, <1>13 DEF IInv

\* The saved run: its id is fresh, and it adds one check for each of those it pays
\* and its date for its company.
LEMMA SavedRun ==
  ASSUME IInv, NEW q \in Requests, requests[q].kind = "run",
         payRuns' = payRuns \union {ApprovedRun(q)}
  PROVE  LET run == ApprovedRun(q)
         IN  /\ run \notin payRuns
             /\ run.id = nextRunId
             /\ run.company = requests[q].company /\ run.company \in Companies
             /\ run.checkDate = requests[q].checkDate /\ run.checkDate \in Dates
             /\ run.paid = PaidBy(requests[q])
             /\ run.paid \subseteq StaffOf(run.company)
             /\ IsFiniteSet(payRuns')
             /\ \A e :
                   /\ Cardinality(ChecksOf(e)) \in Nat /\ Cardinality(ChecksOf(e)') \in Nat
                   /\ Cardinality(ChecksOf(e)') = IF e \in run.paid
                                                  THEN Cardinality(ChecksOf(e)) + 1
                                                  ELSE Cardinality(ChecksOf(e))
             /\ \A c : /\ RanCheckDates(c) \subseteq RanCheckDates(c)'
                       /\ c # run.company => RanCheckDates(c)' = RanCheckDates(c)
<1> DEFINE run == ApprovedRun(q)
<1>1. /\ run.id = nextRunId
      /\ run.company = requests[q].company
      /\ run.checkDate = requests[q].checkDate
      /\ run.paid = PaidBy(requests[q])
  BY DEF ApprovedRun, PaidBy
<1>2. run.company \in Companies /\ run.checkDate \in Dates
  BY <1>1, RequestFields DEF IInv, TypeOK
<1>3. run.paid \subseteq StaffOf(run.company)
  BY <1>1 DEF PaidBy, ActiveEmployeesFor
<1>4. run \notin payRuns
  <2>1. nextRunId \in Nat /\ \A r \in payRuns : r.id \in 1 .. nextRunId - 1
    BY DEF IInv, TypeOK
  <2> HIDE DEF run
  <2> QED
    BY <1>1, <2>1
<1> HIDE DEF run
<1>5. payRuns' = payRuns \union {run} /\ IsFiniteSet(payRuns)
  BY DEF IInv, run
<1>6. \A e :
         /\ Cardinality(ChecksOf(e)) \in Nat /\ Cardinality(ChecksOf(e)') \in Nat
         /\ Cardinality(ChecksOf(e)') = IF e \in run.paid
                                        THEN Cardinality(ChecksOf(e)) + 1
                                        ELSE Cardinality(ChecksOf(e))
  <2> SUFFICES ASSUME NEW e
               PROVE  /\ Cardinality(ChecksOf(e)) \in Nat
                      /\ Cardinality(ChecksOf(e)') \in Nat
                      /\ Cardinality(ChecksOf(e)') = IF e \in run.paid
                                                     THEN Cardinality(ChecksOf(e)) + 1
                                                     ELSE Cardinality(ChecksOf(e))
    OBVIOUS
  <2>1. IsFiniteSet(ChecksOf(e)) /\ Cardinality(ChecksOf(e)) \in Nat
    BY ChecksAreCounted
  <2>2. CASE e \in run.paid
    <3>1. ChecksOf(e)' = ChecksOf(e) \union {run} /\ run \notin ChecksOf(e)
      BY <1>4, <1>5, <2>2 DEF ChecksOf
    <3> DEFINE checks == ChecksOf(e)
    <3> HIDE DEF checks
    <3>2. IsFiniteSet(checks) /\ run \notin checks
      BY <2>1, <3>1 DEF checks
    <3>3. Cardinality(checks \union {run}) = Cardinality(checks) + 1
      BY <3>2, FS_AddElement
    <3>4. Cardinality(ChecksOf(e)') = Cardinality(ChecksOf(e)) + 1
      BY <3>1, <3>3 DEF checks
    <3> QED
      BY <2>1, <2>2, <3>4
  <2>3. CASE e \notin run.paid
    <3>1. ChecksOf(e)' = ChecksOf(e)
      BY <1>5, <2>3 DEF ChecksOf
    <3> QED
      BY <2>1, <2>3, <3>1
  <2> QED
    BY <2>2, <2>3
<1>7. IsFiniteSet(payRuns')
  BY <1>5, FS_AddElement
<1>8. \A c : /\ RanCheckDates(c) \subseteq RanCheckDates(c)'
             /\ c # run.company => RanCheckDates(c)' = RanCheckDates(c)
  BY <1>5 DEF RanCheckDates
<1> QED
  BY <1>1, <1>2, <1>3, <1>4, <1>6, <1>7, <1>8 DEF run

LEMMA FinishRunPayrollIInv ==
  ASSUME IInv, NEW q \in Requests, FinishRunPayroll(q) PROVE IInv'
<1> DEFINE run  == ApprovedRun(q)
           paid == PaidBy(requests[q])
           c    == requests[q].company
<1>1. /\ requests[q].kind = "run" /\ employees' = UpdatedEmployees(q)
      /\ payRuns' = payRuns \union {run} /\ nextRunId' = nextRunId + 1
      /\ requests' = [requests EXCEPT ![q] = Idle]
      /\ UNCHANGED <<stages, edits, crashes, intended, overlapped>>
  BY DEF FinishRunPayroll
<1>2. /\ paid \subseteq StaffOf(c)
      /\ employees' \in [Employees -> Record]
      /\ \A e \in Employees : employees[e].onFile <=> employees'[e].onFile
      /\ \A e \in paid :
            /\ e \in Employees /\ employees'[e].onFile
            /\ employees'[e].ytd <= Cardinality(ChecksOf(e)) + crashes + 1
            /\ e \notin overlapped => employees'[e].ytd = employees[e].ytd + 1
      /\ \A e \in Employees \ paid : employees'[e] = employees[e]
  BY <1>1, RolledForward
<1>3. /\ run \notin payRuns /\ run.id = nextRunId
      /\ run.company = c /\ c \in Companies
      /\ run.checkDate = requests[q].checkDate /\ run.checkDate \in Dates
      /\ run.paid = paid
      /\ IsFiniteSet(payRuns')
      /\ \A e :
            /\ Cardinality(ChecksOf(e)) \in Nat /\ Cardinality(ChecksOf(e)') \in Nat
            /\ Cardinality(ChecksOf(e)') = IF e \in paid THEN Cardinality(ChecksOf(e)) + 1
                                           ELSE Cardinality(ChecksOf(e))
      /\ \A d : /\ RanCheckDates(d) \subseteq RanCheckDates(d)'
                /\ d # c => RanCheckDates(d)' = RanCheckDates(d)
  BY <1>1, SavedRun
<1>4. /\ requests[q] \in Request /\ RunIsSound(requests[q])
      /\ HeldBy(requests[q]) = {c} \union paid
  BY <1>1, HeldByKind DEF IInv, TypeOK, HeldIsSound, IsSound, PaidBy
<1>5. /\ c \notin overlapped => run.checkDate \notin RanCheckDates(c)
      /\ \A date \in Dates : date < run.checkDate => date \in RanCheckDates(c)
  BY <1>3, <1>4 DEF RunIsSound
<1> HIDE DEF run, paid, c
<1>6. /\ requests' \in [Requests -> Request]
      /\ requests'[q] = Idle
      /\ \A p \in Requests \ {q} : requests'[p] = requests[p]
      /\ crashes \in Nat /\ crashes' \in Nat
  BY <1>1, PayrollServerAssumption DEF IInv, TypeOK, Request
<1>7. TypeOK'
  <2>1. \A r \in payRuns' :
           /\ r.id \in 1 .. nextRunId' - 1
           /\ r.company \in Companies
           /\ r.checkDate \in Dates
           /\ r.paid \in SUBSET StaffOf(r.company)
    BY <1>1, <1>2, <1>3 DEF IInv, TypeOK
  <2>2. nextRunId' \in Nat \ {0}
    BY <1>1 DEF IInv, TypeOK
  <2> QED
    BY <1>1, <1>2, <1>6, <2>1, <2>2 DEF IInv, TypeOK
<1>8. Kept
  <2>1. \A e \in Employees :
           /\ employees[e].onFile => employees'[e].onFile
           /\ Cardinality(ChecksOf(e)') \in Nat
           /\ Cardinality(ChecksOf(e)) + crashes <= Cardinality(ChecksOf(e)') + crashes'
    BY <1>1, <1>2, <1>3, <1>6
  <2>2. ASSUME NEW p \in Requests, requests'[p] # Idle
        PROVE  /\ \A e \in (Employees \intersect HeldBy(requests[p])) \ overlapped' :
                     employees'[e] = employees[e]
               /\ \A d \in (Companies \intersect HeldBy(requests[p])) \ overlapped' :
                     RanCheckDates(d)' = RanCheckDates(d)
               /\ requests[p].kind = "hire" => ~employees'[requests[p].employee].onFile
    <3>1. p # q /\ HeldBy(requests[p]) \intersect HeldBy(requests[q]) \subseteq overlapped
      BY <1>6, <2>2 DEF IInv, SharedIsOverlapped
    <3>2. requests[p].kind = "hire" =>
             requests[p].employee \in Employees /\ ~employees[requests[p].employee].onFile
      BY RequestFields DEF IInv, TypeOK, HeldIsSound, IsSound, HireIsSound
    <3> QED
      BY <1>1, <1>2, <1>3, <1>4, <3>1, <3>2
  <2> QED
    BY <1>1, <1>3, <1>6, <2>1, <2>2 DEF Kept
<1>9. (SharedIsOverlapped /\ HeldIsSound /\ OneHireEach)'
  BY <1>6, <1>8, KeptIsHeld
<1>10. (ApplicantsAreNew /\ EditsSurvive)'
  BY <1>1, RolledForwardRecords
<1>11. PaidAreOnFile'
  <2>1. \A r \in payRuns : \A e \in r.paid : e \in Employees
    BY DEF IInv, TypeOK, StaffOf
  <2> QED
    BY <1>1, <1>2, <1>3, <2>1 DEF IInv, PaidAreOnFile
<1>12. ASSUME NEW e \in Employees
       PROVE  /\ e \notin overlapped' => Cardinality(ChecksOf(e)') <= employees'[e].ytd
              /\ employees'[e].ytd <= Cardinality(ChecksOf(e)') + crashes'
  <2>1. /\ employees[e].ytd \in Nat /\ employees'[e].ytd \in Nat
        /\ Cardinality(ChecksOf(e)) \in Nat
    BY <1>2, <1>3 DEF IInv, TypeOK, Record
  <2>2. /\ e \notin overlapped => Cardinality(ChecksOf(e)) <= employees[e].ytd
        /\ employees[e].ytd <= Cardinality(ChecksOf(e)) + crashes
    BY DEF IInv, TotalsCoverSavedChecks, TotalsAheadByCrashesOnly
  <2>3. CASE e \in paid
    BY <1>1, <1>2, <1>3, <1>6, <2>1, <2>2, <2>3
  <2>4. CASE e \notin paid
    BY <1>1, <1>2, <1>3, <1>6, <2>1, <2>2, <2>4
  <2> QED
    BY <2>3, <2>4
<1>13. (TotalsCoverSavedChecks /\ TotalsAheadByCrashesOnly)'
  BY <1>12 DEF TotalsCoverSavedChecks, TotalsAheadByCrashesOnly
<1>14. OneRunPerCheckDate'
  <2>1. c \notin overlapped =>
           \A r \in payRuns : r.company = c => r.checkDate # run.checkDate
    BY <1>5 DEF RanCheckDates
  <2> QED
    BY <1>1, <1>3, <2>1 DEF IInv, OneRunPerCheckDate
<1>15. NoPeriodSkipped'
  <2> SUFFICES ASSUME NEW r \in payRuns', NEW date \in Dates, date < r.checkDate
               PROVE  date \in RanCheckDates(r.company)'
    BY DEF NoPeriodSkipped
  <2>1. date \in RanCheckDates(r.company)
    BY <1>1, <1>3, <1>5 DEF IInv, NoPeriodSkipped
  <2> QED
    BY <1>3, <2>1
<1> QED
  BY <1>3, <1>7, <1>9, <1>10, <1>11, <1>13, <1>14, <1>15 DEF IInv

-----------------------------------------------------------------------------

LEMMA InitIInv == Init => IInv
<1> SUFFICES ASSUME Init PROVE IInv
  OBVIOUS
<1> DEFINE first == Min(Dates)
<1>1. first \in Dates
  BY MinIsLeast, PayrollServerAssumption
<1>2. /\ NoRecord \in Record /\ ~NoRecord.onFile /\ NoRecord.ytd = 0
      /\ Plain(NoRecord) = NoRecord
  <2>1. NoRecord \in Record /\ ~NoRecord.onFile /\ NoRecord.ytd = 0
    BY DEF NoRecord, Record
  <2> QED
    BY <2>1 DEF Record, Plain
<1>3. Hired(first) \in Record /\ Hired(first).ytd = 0 /\ Plain(Hired(first)) = Hired(first)
  BY <1>1, HiredRecord
<1>4. employees = [e \in Employees |-> IF e \in Seeded THEN Hired(first) ELSE NoRecord]
  BY DEF Init
<1> HIDE DEF first
<1>5. /\ employees \in [Employees -> Record]
      /\ \A e \in Employees : employees[e].ytd = 0 /\ Plain(employees[e]) = employees[e]
      /\ \A e \in Applicants : ~employees[e].onFile
  BY <1>2, <1>3, <1>4, PayrollServerAssumption
<1>6. /\ payRuns = {} /\ requests = [q \in Requests |-> Idle]
      /\ stages \in [Applicants -> {"open", "offer_accepted"}]
      /\ edits = 0 /\ crashes = 0 /\ nextRunId = 1
      /\ intended = employees /\ overlapped = {}
  BY DEF Init
<1>7. TypeOK
  BY <1>5, <1>6, PayrollServerAssumption DEF TypeOK, Request, Stages
<1>8. HeldBy(Idle) = {} /\ Idle.kind = "idle"
  BY DEF HeldBy, Idle
<1>9. IsFiniteSet(payRuns) /\ SharedIsOverlapped /\ HeldIsSound /\ OneHireEach
  BY <1>6, <1>8, FS_EmptySet DEF SharedIsOverlapped, HeldIsSound, IsSound, OneHireEach
<1>10. ApplicantsAreNew /\ PaidAreOnFile /\ OneRunPerCheckDate /\ NoPeriodSkipped
  BY <1>5, <1>6 DEF ApplicantsAreNew, PaidAreOnFile, OneRunPerCheckDate, NoPeriodSkipped
<1>11. \A e : Cardinality(ChecksOf(e)) = 0
  <2>1. \A e : ChecksOf(e) = {}
    BY <1>6 DEF ChecksOf
  <2> QED
    BY <2>1, FS_EmptySet
<1>12. TotalsCoverSavedChecks /\ TotalsAheadByCrashesOnly /\ EditsSurvive
  BY <1>5, <1>6, <1>11
     DEF TotalsCoverSavedChecks, TotalsAheadByCrashesOnly, EditsSurvive, Plain
<1> QED
  BY <1>7, <1>9, <1>10, <1>12 DEF IInv

LEMMA NextIInv == IInv /\ [Next]_vars => IInv'
<1> SUFFICES ASSUME IInv, [Next]_vars PROVE IInv'
  OBVIOUS
<1>1. ASSUME NEW q \in Requests, NEW c \in Companies, BeginRunPayroll(q, c) PROVE IInv'
  BY <1>1, BeginRunPayrollIInv
<1>2. ASSUME NEW q \in Requests, NEW e \in Employees, BeginEdit(q, e) \/ BeginHire(q, e)
      PROVE  IInv'
  BY <1>2, BeginEditIInv, BeginHireIInv
<1>3. ASSUME NEW q \in Requests, FinishRunPayroll(q) PROVE IInv'
  BY <1>3, FinishRunPayrollIInv
<1>4. ASSUME NEW q \in Requests, NEW field \in Fields, ChangeSetting(q, field) PROVE IInv'
  BY <1>4, ChangeSettingIInv
<1>5. ASSUME NEW q \in Requests, NEW order \in Orders, AddOrder(q, order) PROVE IInv'
  BY <1>5, AddOrderIInv
<1>6. ASSUME NEW q \in Requests, NEW date \in Dates, Terminate(q, date) \/ Hire(q, date)
      PROVE  IInv'
  BY <1>6, TerminateIInv, HireIInv
<1>7. ASSUME NEW q \in Requests, NEW e \in Applicants, BeginMove(q, e) PROVE IInv'
  BY <1>7, BeginMoveIInv
<1>8. ASSUME NEW q \in Requests, NEW stage \in Stages, Advance(q, stage) PROVE IInv'
  BY <1>8, AdvanceIInv
<1>9. ASSUME NEW q \in Requests, NEW date \in Dates,
             HireCandidate(q, date) \/ CrashBetweenHireSaves(q, date)
      PROVE  IInv'
  BY <1>9, HireCandidateIInv, CrashBetweenHireSavesIInv
<1>10. ASSUME NEW q \in Requests, FailRequest(q) \/ CrashBetweenSaves(q) PROVE IInv'
  BY <1>10, FailRequestIInv, CrashBetweenSavesIInv
<1>11. ASSUME NEW e \in Employees, NEW order \in Orders, RemoveOrder(e, order) PROVE IInv'
  BY <1>11, RemoveOrderIInv
<1>12. ASSUME NEW e \in Applicants, NEW stage \in {"offer_accepted", "closed"},
              AnswerOffer(e, stage)
       PROVE  IInv'
  BY <1>12, AnswerOfferIInv
<1>13. CASE Crash
  BY <1>13, CrashIInv
<1>14. CASE UNCHANGED vars
  <2>1. /\ UNCHANGED <<employees, payRuns, nextRunId, edits, intended>>
        /\ UNCHANGED <<requests, stages, crashes, overlapped>>
    BY <1>14 DEF vars
  <2>2. crashes' \in 0 .. MaxCrashes /\ crashes' \in Nat /\ crashes <= crashes'
    BY <2>1, PayrollServerAssumption DEF IInv, TypeOK
  <2>3. Kept
    BY <2>1, <2>2, NothingWritten
  <2>4. ApplicantsAreNew'
    BY <2>1 DEF IInv, ApplicantsAreNew
  <2> QED
    BY <2>1, <2>2, <2>3, <2>4, NothingWrittenIInv DEF IInv, TypeOK
<1> QED
  BY <1>1, <1>2, <1>3, <1>4, <1>5, <1>6, <1>7, <1>8, <1>9, <1>10, <1>11, <1>12, <1>13,
     <1>14 DEF Next

LEMMA Invariance == Spec => []IInv
<1> QED
  BY InitIInv, NextIInv, PTL DEF Spec

\* Whatever requests overlap and wherever the server stops, records, runs and what
\* the handlers hold keep their types, a run pays its company's staff alone and no
\* run id is used twice.
THEOREM Typed == Spec => []TypeOK
<1>1. IInv => TypeOK
  BY DEF IInv
<1> QED
  BY <1>1, Invariance, PTL

\* No stop and no overlap of other requests leaves a saved check out of the totals
\* of the next run (run-payroll, saveEmployees before savePayRun).
THEOREM TotalsCover == Spec => []TotalsCoverSavedChecks
<1>1. IInv => TotalsCoverSavedChecks
  BY DEF IInv
<1> QED
  BY <1>1, Invariance, PTL

\* The price of that order of the saves: one check too many in the totals for each
\* stop, and never more, overlapped or not.
THEOREM TotalsBounded == Spec => []TotalsAheadByCrashesOnly
<1>1. IInv => TotalsAheadByCrashesOnly
  BY DEF IInv
<1> QED
  BY <1>1, Invariance, PTL

\* A company whose run-payroll requests do not overlap pays no check date twice.
THEOREM DatesRunOnce == Spec => []OneRunPerCheckDate
<1>1. IInv => OneRunPerCheckDate
  BY DEF IInv
<1> QED
  BY <1>1, Invariance, PTL

\* However they overlap, no period of the schedule is passed over.
THEOREM PeriodsInOrder == Spec => []NoPeriodSkipped
<1>1. IInv => NoPeriodSkipped
  BY DEF IInv
<1> QED
  BY <1>1, Invariance, PTL

\* A pay run, an edit of another employee or a restart takes no saved edit back.
THEOREM EditsKept == Spec => []EditsSurvive
<1>1. IInv => EditsSurvive
  BY DEF IInv
<1> QED
  BY <1>1, Invariance, PTL

\* A step that saves a run is the end of a run-payroll request, and those it pays
\* who are not overlapped were on file and not terminated by the latest edits.
LEMMA RunPaysStaff ==
  ASSUME IInv, [Next]_vars, NEW run \in payRuns' \ payRuns, NEW e \in run.paid \ overlapped
  PROVE  e \in ActiveEmployeesFor(run.company, intended, run.checkDate)
<1>1. PICK q \in Requests : FinishRunPayroll(q)
  <2>1. payRuns' # payRuns
    OBVIOUS
  <2> QED
    BY <2>1
       DEF Next, vars, BeginRunPayroll, BeginEdit, BeginHire, BeginMove, Begin, ChangeSetting,
           AddOrder, Terminate, Hire, HireCandidate, Save, Advance, AnswerOffer, RemoveOrder,
           FailRequest, Crash, CrashBetweenSaves, CrashBetweenHireSaves, Restart
<1>2. /\ requests[q].kind = "run" /\ employees' = UpdatedEmployees(q)
      /\ payRuns' = payRuns \union {ApprovedRun(q)}
  BY <1>1 DEF FinishRunPayroll
<1> DEFINE request == requests[q]
<1>3. /\ run.company = request.company /\ run.checkDate = request.checkDate
      /\ run.paid = PaidBy(request)
  BY <1>2, SavedRun
<1>4. e \in Employees /\ request.records[e] = employees[e]
  BY <1>2, <1>3, RolledForward
<1>5. /\ e \in StaffOf(request.company)
      /\ request.records[e].onFile
      /\ request.records[e].hireDate <= request.checkDate
      /\ \/ request.records[e].terminationDate = NoDate
         \/ request.records[e].terminationDate >= request.checkDate
  BY <1>3 DEF PaidBy, ActiveEmployeesFor
<1>6. /\ employees[e] \in Record /\ intended[e] = Plain(employees[e])
  BY <1>4 DEF IInv, TypeOK, EditsSurvive, Plain
<1>7. /\ intended[e].onFile = employees[e].onFile
      /\ intended[e].hireDate = employees[e].hireDate
      /\ intended[e].terminationDate = employees[e].terminationDate
  BY <1>6 DEF Record, Plain
<1> QED
  BY <1>3, <1>4, <1>5, <1>7 DEF ActiveEmployeesFor

\* No run pays someone for a date after the termination, or before the hire, that
\* was saved before it.
THEOREM PaysStaffOnly == Spec => OnlyStaffIsPaid
<1>1. IInv /\ [Next]_vars =>
        [\A run \in payRuns' \ payRuns : \A e \in run.paid \ overlapped :
            e \in ActiveEmployeesFor(run.company, intended, run.checkDate)]_vars
  BY RunPaysStaff
<1> QED
  BY <1>1, Invariance, PTL DEF Spec, OnlyStaffIsPaid
=============================================================================
