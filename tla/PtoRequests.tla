------------------------------ MODULE PtoRequests ------------------------------
(***************************************************************************)
(* Time off that is requested and decided against a balance                *)
(* (payroll/pto.ts, payroll/ptoRequest.ts), behind the payroll server's    *)
(* routes (examples/payroll-server.ts).                                    *)
(*                                                                         *)
(* One Node process over one file: the deny route reads the request,       *)
(* awaits the body and saves what it makes of it, which is two steps;      *)
(* every other handler reads and saves in one, the body being there.       *)
(* The routes pass on what the body says: hours that are used or accrued   *)
(* may be negative, and only a request's are looked at.                    *)
(***************************************************************************)
EXTENDS Integers, FiniteSets, FiniteSetsExt, RequestsInFlight

CONSTANTS
    Balances,         \* an employee's balance under a policy
    Tickets,          \* ids of PTO requests
    BalanceOf,        \* PTO request -> balance
    Hours,            \* what a request or a direct use may ask for
    Accruals,         \* what a period may accrue, of the hours said to be worked
    CapOf,            \* balance -> maxBalanceHours, or NoCap
    NoCap,
    MaxHours,         \* bound on hours accrued and used directly, either way
    MaxCrashes        \* bound on restarts of the process

ASSUME PtoRequestsAssumption ==
    /\ BalanceOf \in [Tickets -> Balances]
    /\ Hours \subseteq Int
    /\ Accruals \subseteq Int
    /\ NoCap \notin Int
    /\ CapOf \in [Balances -> Int \union {NoCap}]
    /\ MaxHours \in Nat
    /\ MaxCrashes \in Nat

VARIABLES
    balances,         \* store: balance -> hours left, accrued and used
    tickets,          \* store: PTO requests
    crashes,          \* number of restarts
    direct,           \* history: hours used without a request
    verdict,          \* history: how a request was first decided
    late,             \* history: decided while a denial in flight had read it
    cut               \* history: approvals cut between their two saves

vars == <<balances, tickets, requests, crashes, direct, verdict, late, cut>>

history == <<direct, verdict, late, cut>>

Decisions == {"approved", "denied", "cancelled"}

NoTicket == [status |-> "none", hours |-> 0]

Ticket ==
    {NoTicket} \union
    [status : {"pending"} \union Decisions, hours : {h \in Hours : h > 0}]

Denying(t) == [kind |-> "deny", ticket |-> t, read |-> tickets[t]]

Init ==
    /\ balances = [b \in Balances |-> [hours |-> 0, accrued |-> 0, used |-> 0]]
    /\ tickets = [t \in Tickets |-> NoTicket]
    /\ requests = [q \in Requests |-> Idle]
    /\ crashes = 0
    /\ direct = [b \in Balances |-> 0]
    /\ verdict = [t \in Tickets |-> "none"]
    /\ late = {}
    /\ cut = {}

-----------------------------------------------------------------------------
(* pto.ts                                                                  *)

\* accruePto(): what does not fit under the cap was never accrued, and a balance that
\* is above it comes down to it.
Accrued(b, earned) ==
    LET uncapped == balances[b].hours + earned
        capped   == IF CapOf[b] = NoCap \/ uncapped <= CapOf[b] THEN uncapped ELSE CapOf[b]
    IN  [balances[b] EXCEPT !.hours = capped,
                            !.accrued = @ + (capped - balances[b].hours)]

\* usePto() grants all or nothing.
Covers(b, hours) == hours <= balances[b].hours

Spent(b, hours) ==
    [balances[b] EXCEPT !.hours = @ - hours, !.used = @ + hours]

Accrue(b, earned) ==
    /\ Accrued(b, earned).accrued \in -MaxHours .. MaxHours
    /\ balances' = [balances EXCEPT ![b] = Accrued(b, earned)]
    /\ UNCHANGED <<tickets, requests, crashes, history>>

Use(b, hours) ==
    /\ Covers(b, hours)
    /\ direct[b] + hours \in -MaxHours .. MaxHours
    /\ balances' = [balances EXCEPT ![b] = Spent(b, hours)]
    /\ direct' = [direct EXCEPT ![b] = @ + hours]
    /\ UNCHANGED <<tickets, requests, crashes, verdict, late, cut>>

-----------------------------------------------------------------------------
(* ptoRequest.ts                                                           *)

\* Mutant: any number of hours may be requested.
CreateAnyRequest(t, hours) ==
    /\ tickets[t].status = "none"
    /\ tickets' = [tickets EXCEPT ![t] = [status |-> "pending", hours |-> hours]]
    /\ UNCHANGED <<balances, requests, crashes, history>>

CreateRequest(t, hours) ==
    /\ hours > 0
    /\ tickets[t].status = "none"
    /\ tickets' = [tickets EXCEPT ![t] = [status |-> "pending", hours |-> hours]]
    /\ UNCHANGED <<balances, requests, crashes, history>>

\* HTTP requests in flight that hold a PTO request as they read it.
HoldersOf(t) == {q \in Requests : requests[q].kind = "deny" /\ requests[q].ticket = t}

\* A decision of t, made by the handler of `own`, or by one that reads it anew.
NoteDecision(t, decision, own) ==
    /\ verdict' = [verdict EXCEPT ![t] = IF @ = "none" THEN decision ELSE @]
    /\ late' = IF HoldersOf(t) \ own # {} THEN late \union {t} ELSE late

\* A pending request that the balance covers; a short one is saved as it was.
MayApprove(t) ==
    /\ tickets[t].status = "pending"
    /\ Covers(BalanceOf[t], tickets[t].hours)

TakeHours(t) ==
    balances' = [balances EXCEPT ![BalanceOf[t]] = Spent(BalanceOf[t], tickets[t].hours)]

Approve(t) ==
    /\ MayApprove(t)
    /\ tickets' = [tickets EXCEPT ![t].status = "approved"]
    /\ TakeHours(t)
    /\ NoteDecision(t, "approved", {})
    /\ UNCHANGED <<requests, crashes, direct, cut>>

\* The route has no body: reading and saving are one step.
Cancel(t) ==
    /\ tickets[t].status = "pending"
    /\ tickets' = [tickets EXCEPT ![t].status = "cancelled"]
    /\ NoteDecision(t, "cancelled", {})
    /\ UNCHANGED <<balances, requests, crashes, direct, cut>>

BeginDeny(q, t) ==
    /\ requests[q] = Idle
    /\ tickets[t].status # "none"
    /\ requests' = [requests EXCEPT ![q] = Denying(t)]
    /\ UNCHANGED <<balances, tickets, crashes, history>>

\* Mutant: whatever was read is denied.
MayDenyAnyway(q) == requests[q].kind = "deny"

\* denyPtoRequest() looks at what the handler read before the body came.
MayDeny(q) == requests[q].kind = "deny" /\ requests[q].read.status = "pending"

FinishDeny(q) ==
    /\ MayDeny(q)
    /\ LET t == requests[q].ticket
       IN  /\ tickets' = [tickets EXCEPT ![t] = [requests[q].read EXCEPT !.status = "denied"]]
           /\ NoteDecision(t, "denied", {q})
    /\ requests' = [requests EXCEPT ![q] = Idle]
    /\ UNCHANGED <<balances, crashes, direct, cut>>

-----------------------------------------------------------------------------

\* The body is refused or never ends, or what was read is already decided.
FailRequest(q) ==
    /\ requests[q] # Idle
    /\ requests' = [requests EXCEPT ![q] = Idle]
    /\ UNCHANGED <<balances, tickets, crashes, history>>

\* The process stops and starts again.
Restart ==
    /\ crashes < MaxCrashes
    /\ crashes' = crashes + 1
    /\ requests' = [q \in Requests |-> Idle]

Crash == Restart /\ UNCHANGED <<balances, tickets, history>>

\* Mutant: the balance is saved before the request.
CutAfterBalance(t) ==
    /\ MayApprove(t)
    /\ TakeHours(t)
    /\ Restart
    /\ UNCHANGED <<tickets, history>>

\* It stops after savePtoRequest() and before savePtoBalance().
CutApproval(t) ==
    /\ MayApprove(t)
    /\ tickets' = [tickets EXCEPT ![t].status = "approved"]
    /\ NoteDecision(t, "approved", Requests)
    /\ cut' = cut \union {t}
    /\ Restart
    /\ UNCHANGED <<balances, direct>>

Next ==
    \/ \E b \in Balances :
          \/ \E earned \in Accruals : Accrue(b, earned)
          \/ \E hours \in Hours : Use(b, hours)
    \/ \E t \in Tickets :
          \/ \E hours \in Hours : CreateRequest(t, hours)
          \/ Approve(t) \/ Cancel(t) \/ CutApproval(t)
    \/ \E q \in Requests :
          \/ \E t \in Tickets : BeginDeny(q, t)
          \/ FinishDeny(q)
          \/ FailRequest(q)
    \/ Crash

Spec == Init /\ [][Next]_vars

-----------------------------------------------------------------------------
(* Properties                                                              *)

Request == {Idle} \union [kind : {"deny"}, ticket : Tickets, read : Ticket]

\* The records' fields and what the handlers hold of them; whatever is passed for a
\* direct use, a request is for a positive number of hours (createPtoRequest).
TypeOK ==
    /\ balances \in [Balances -> [hours : Int, accrued : Int, used : Int]]
    /\ tickets \in [Tickets -> Ticket]
    /\ requests \in [Requests -> Request]
    /\ crashes \in Nat
    /\ direct \in [Balances -> Int]
    /\ verdict \in [Tickets -> {"none"} \union Decisions]
    /\ late \subseteq Tickets
    /\ cut \subseteq Tickets

HoursOf(set) == MapThenSumSet(LAMBDA t : tickets[t].hours, set)

\* A balance is what was accrued less what was used, and what was used is the
\* hours used directly and those of the approved requests, each once -- but for
\* an approval cut between its two saves, whose hours are not taken, and one
\* that an earlier-read denial wrote over, whose hours stay taken (pto-use, the
\* approve and deny routes).
HoursTakenOnce ==
    \A b \in Balances :
        LET approved == {t \in Tickets : BalanceOf[t] = b /\ tickets[t].status = "approved"}
            deniedLate == {t \in late : BalanceOf[t] = b /\ verdict[t] = "approved"}
        IN  /\ balances[b].hours = balances[b].accrued - balances[b].used
            /\ balances[b].used = direct[b] + HoursOf((approved \union deniedLate) \ cut)

\* A request keeps its first decision, unless a denial had read it before that
\* and is saved after it (ptoRequest.ts 15).
DecisionsStand ==
    \A t \in Tickets \ late :
        verdict[t] # "none" => tickets[t].status = verdict[t]
=============================================================================
