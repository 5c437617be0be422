-------------------------- MODULE HrWorkflows_proofs --------------------------
(***************************************************************************)
(* The two workflows behind the payroll server's HR routes, for any number *)
(* of requests in flight.                                                  *)
(*                                                                         *)
(* PtoRequests: a balance is always what was accrued less what was used,   *)
(* and between zero and its cap if no hours that are passed are negative,  *)
(* the hours of an approved request are used once, and a decision stands   *)
(* unless a denial had read the request before it.                         *)
(*                                                                         *)
(* DepositVerification: for any number of accounts and attempts, a         *)
(* verification is what the guesses so far make of it.                     *)
(***************************************************************************)
EXTENDS PtoRequests, DepositVerification, FiniteSetTheorems, WellFoundedInduction, TLAPS

-----------------------------------------------------------------------------
(* PTO requests                                                            *)

BalancesAddUp ==
    \A b \in Balances : balances[b].hours = balances[b].accrued - balances[b].used

OpenUntilDecided ==
    \A t \in Tickets : verdict[t] = "none" => tickets[t].status \in {"none", "pending"}

\* What a denial in flight holds is still what the store says, unless the request
\* was decided since.
HeldIsCurrent ==
    \A q \in Requests :
        requests[q].kind = "deny" =>
            LET t == requests[q].ticket
            IN  /\ tickets[t].status # "none"
                /\ t \notin late => requests[q].read = tickets[t]

IInv == TypeOK /\ BalancesAddUp /\ OpenUntilDecided /\ HeldIsCurrent /\ DecisionsStand

-----------------------------------------------------------------------------
(* What the operators return                                               *)

\* The hours of a request are positive once there is one.
LEMMA TicketHours ==
  ASSUME NEW record \in Ticket
  PROVE  record.hours \in Nat /\ (record.status # "none" => record.hours > 0)
<1>1. CASE record = NoTicket
  BY <1>1 DEF NoTicket
<1>2. CASE record \in [status : {"pending"} \union Decisions, hours : {h \in Hours : h > 0}]
  <2>1. record.hours \in Int /\ record.hours > 0
    BY <1>2, PtoRequestsAssumption
  <2> QED
    BY <2>1
<1> QED
  BY <1>1, <1>2 DEF Ticket

\* A decision makes a request of a request, for the same hours.
LEMMA TicketDecided ==
  ASSUME NEW record \in Ticket, record.status # "none", NEW decision \in Decisions
  PROVE  /\ [record EXCEPT !.status = decision] \in Ticket
         /\ [record EXCEPT !.status = decision].status = decision
         /\ [record EXCEPT !.status = decision].hours = record.hours
<1>1. record \in [status : {"pending"} \union Decisions, hours : {h \in Hours : h > 0}]
  BY DEF Ticket, NoTicket
<1> QED
  BY <1>1 DEF Ticket

\* accruePto() adds to the hours of the balance what it adds to the accrued ones.
LEMMA AccruedType ==
  ASSUME TypeOK, NEW b \in Balances, NEW earned \in Accruals
  PROVE  /\ Accrued(b, earned) \in [hours : Int, accrued : Int, used : Int]
         /\ (CapOf[b] = NoCap \/ balances[b].hours + earned <= CapOf[b]) =>
               Accrued(b, earned).hours = balances[b].hours + earned
         /\ ~(CapOf[b] = NoCap \/ balances[b].hours + earned <= CapOf[b]) =>
               Accrued(b, earned).hours = CapOf[b]
         /\ Accrued(b, earned).used = balances[b].used
         /\ Accrued(b, earned).accrued - Accrued(b, earned).hours
              = balances[b].accrued - balances[b].hours
<1>1. balances[b] \in [hours : Int, accrued : Int, used : Int] /\ earned \in Int
  BY PtoRequestsAssumption DEF TypeOK
<1>2. CapOf[b] # NoCap => CapOf[b] \in Int
  BY PtoRequestsAssumption
<1> DEFINE h == balances[b].hours
           capped == IF CapOf[b] = NoCap \/ h + earned <= CapOf[b] THEN h + earned
                     ELSE CapOf[b]
<1>3. capped \in Int
  BY <1>1, <1>2
<1>4. Accrued(b, earned) = [balances[b] EXCEPT !.hours = capped,
                                                !.accrued = @ + (capped - h)]
  BY DEF Accrued
<1>5. /\ (CapOf[b] = NoCap \/ h + earned <= CapOf[b]) => capped = h + earned
      /\ ~(CapOf[b] = NoCap \/ h + earned <= CapOf[b]) => capped = CapOf[b]
  OBVIOUS
<1> HIDE DEF capped
<1>6. balances[b].accrued + (capped - h) \in Int
  BY <1>1, <1>3
<1>7. Accrued(b, earned) \in [hours : Int, accrued : Int, used : Int]
  BY <1>1, <1>3, <1>4, <1>6
<1>8. /\ Accrued(b, earned).hours = capped
      /\ Accrued(b, earned).accrued = balances[b].accrued + (capped - h)
      /\ Accrued(b, earned).used = balances[b].used
  BY <1>1, <1>4
<1>9. (balances[b].accrued + (capped - h)) - capped = balances[b].accrued - h
  BY <1>1, <1>3
<1> QED
  BY <1>5, <1>7, <1>8, <1>9

\* usePto() takes from the hours of the balance what it adds to the used ones.
LEMMA SpentType ==
  ASSUME TypeOK, NEW b \in Balances, NEW hours \in Int
  PROVE  /\ Spent(b, hours) \in [hours : Int, accrued : Int, used : Int]
         /\ Spent(b, hours).hours = balances[b].hours - hours
         /\ Spent(b, hours).accrued = balances[b].accrued
         /\ Spent(b, hours).hours + Spent(b, hours).used
              = balances[b].hours + balances[b].used
<1>1. balances[b] \in [hours : Int, accrued : Int, used : Int]
  BY DEF TypeOK
<1>2. Spent(b, hours) \in [hours : Int, accrued : Int, used : Int]
  <2>1. balances[b].hours - hours \in Int /\ balances[b].used + hours \in Int
    BY <1>1
  <2> QED
    BY <1>1, <2>1 DEF Spent
<1>3. /\ Spent(b, hours).hours = balances[b].hours - hours
      /\ Spent(b, hours).accrued = balances[b].accrued
      /\ Spent(b, hours).used = balances[b].used + hours
  BY <1>1 DEF Spent
<1>4. (balances[b].hours - hours) + (balances[b].used + hours)
        = balances[b].hours + balances[b].used
  BY <1>1
<1> QED
  BY <1>2, <1>3, <1>4

-----------------------------------------------------------------------------

LEMMA InitIInv == Init => IInv
<1> QED
  BY PtoRequestsAssumption
     DEF Init, IInv, TypeOK, BalancesAddUp, OpenUntilDecided, HeldIsCurrent, DecisionsStand,
         NoTicket, Ticket, Idle, Request

LEMMA AccrueIInv ==
  ASSUME IInv, NEW b \in Balances, NEW earned \in Accruals, Accrue(b, earned)
  PROVE  IInv'
<1>1. balances' = [balances EXCEPT ![b] = Accrued(b, earned)]
  BY DEF Accrue
<1>2. TypeOK'
  <2>1. balances' \in [Balances -> [hours : Int, accrued : Int, used : Int]]
    BY <1>1, AccruedType DEF IInv, TypeOK
  <2> QED
    BY <2>1 DEF IInv, TypeOK, Accrue, history
<1>3. BalancesAddUp'
  BY <1>1, AccruedType DEF IInv, TypeOK, BalancesAddUp
<1>4. (OpenUntilDecided /\ HeldIsCurrent /\ DecisionsStand)'
  BY DEF IInv, OpenUntilDecided, HeldIsCurrent, DecisionsStand, Accrue, history
<1> QED
  BY <1>2, <1>3, <1>4 DEF IInv

LEMMA UseIInv ==
  ASSUME IInv, NEW b \in Balances, NEW hours \in Hours, Use(b, hours) PROVE IInv'
<1>0. hours \in Int
  BY PtoRequestsAssumption
<1>1. balances' = [balances EXCEPT ![b] = Spent(b, hours)]
  BY DEF Use
<1>2. TypeOK'
  <2>1. balances' \in [Balances -> [hours : Int, accrued : Int, used : Int]]
    BY <1>0, <1>1, SpentType DEF IInv, TypeOK
  <2>2. direct' \in [Balances -> Int]
    BY <1>0 DEF IInv, TypeOK, Use
  <2> QED
    BY <2>1, <2>2 DEF IInv, TypeOK, Use
<1>3. BalancesAddUp'
  BY <1>0, <1>1, SpentType DEF IInv, TypeOK, BalancesAddUp
<1>4. (OpenUntilDecided /\ HeldIsCurrent /\ DecisionsStand)'
  BY DEF IInv, OpenUntilDecided, HeldIsCurrent, DecisionsStand, Use
<1> QED
  BY <1>2, <1>3, <1>4 DEF IInv

LEMMA CreateRequestIInv ==
  ASSUME IInv, NEW t \in Tickets, NEW hours \in Hours, CreateRequest(t, hours)
  PROVE  IInv'
<1>1. TypeOK'
  BY DEF IInv, TypeOK, CreateRequest, history, Ticket
<1>2. BalancesAddUp'
  BY DEF IInv, BalancesAddUp, CreateRequest
<1>3. (OpenUntilDecided /\ DecisionsStand)'
  BY DEF IInv, TypeOK, OpenUntilDecided, DecisionsStand, CreateRequest, history, NoTicket,
         Decisions
<1>4. HeldIsCurrent'
  BY DEF IInv, TypeOK, HeldIsCurrent, CreateRequest, history, NoTicket
<1> QED
  BY <1>1, <1>2, <1>3, <1>4 DEF IInv

\* What NoteDecision leaves: t is late if a request in flight still holds it.
Noted(t, decision) ==
    /\ verdict' = [verdict EXCEPT ![t] = IF @ = "none" THEN decision ELSE @]
    /\ late \subseteq late' /\ late' \subseteq Tickets
    /\ \A q \in Requests : requests'[q].kind = "deny" /\ requests'[q].ticket = t => t \in late'

\* A handler decides a request that it found pending: still is, unless `late`.
LEMMA DecidedIInv ==
  ASSUME IInv, NEW t \in Tickets, NEW decision \in Decisions,
         NEW record \in Ticket, record.status = decision,
         tickets' = [tickets EXCEPT ![t] = record],
         t \notin late => tickets[t].status = "pending",
         Noted(t, decision),
         \A q \in Requests : requests'[q] = requests[q] \/ requests'[q] = Idle
  PROVE  /\ (OpenUntilDecided /\ HeldIsCurrent /\ DecisionsStand)'
         /\ tickets' \in [Tickets -> Ticket]
         /\ verdict' \in [Tickets -> {"none"} \union Decisions]
<1>1. /\ tickets' \in [Tickets -> Ticket]
      /\ verdict' = [verdict EXCEPT ![t] = IF @ = "none" THEN decision ELSE @]
      /\ \A s \in Tickets : s # t => tickets'[s] = tickets[s]
      /\ tickets'[t].status = decision
      /\ late \subseteq late'
  BY DEF IInv, TypeOK, Noted
<1>2. OpenUntilDecided'
  BY <1>1 DEF IInv, TypeOK, OpenUntilDecided, Decisions
<1>3. HeldIsCurrent'
  <2> SUFFICES ASSUME NEW q \in Requests, requests'[q].kind = "deny"
               PROVE  /\ tickets'[requests'[q].ticket].status # "none"
                      /\ requests'[q].ticket \notin late' =>
                            requests'[q].read = tickets'[requests'[q].ticket]
    BY DEF HeldIsCurrent
  <2>1. requests'[q] = requests[q]
    BY DEF Idle
  <2>2. CASE requests[q].ticket = t
    BY <1>1, <2>1, <2>2 DEF Decisions, Noted
  <2>3. CASE requests[q].ticket # t
    <3>1. requests[q].ticket \in Tickets
      BY <2>1 DEF IInv, TypeOK, Request, Idle
    <3> QED
      BY <1>1, <2>1, <2>3, <3>1 DEF IInv, HeldIsCurrent
  <2> QED
    BY <2>2, <2>3
<1>4. DecisionsStand'
  <2>1. t \notin late => verdict[t] = "none"
    BY DEF IInv, TypeOK, DecisionsStand, Decisions
  <2> QED
    BY <1>1, <2>1 DEF IInv, TypeOK, DecisionsStand
<1>5. verdict' \in [Tickets -> {"none"} \union Decisions]
  BY <1>1 DEF IInv, TypeOK
<1> QED
  BY <1>1, <1>2, <1>3, <1>4, <1>5

LEMMA ApproveIInv ==
  ASSUME IInv, NEW t \in Tickets, Approve(t) PROVE IInv'
<1> DEFINE record == [tickets[t] EXCEPT !.status = "approved"]
<1>1. /\ tickets[t].hours \in Int
      /\ BalanceOf[t] \in Balances
      /\ balances' = [balances EXCEPT ![BalanceOf[t]] = Spent(BalanceOf[t], tickets[t].hours)]
  <2>1. tickets[t] \in Ticket
    BY DEF IInv, TypeOK
  <2> QED
    BY <2>1, PtoRequestsAssumption, TicketHours DEF Approve, TakeHours
<1>2. balances' \in [Balances -> [hours : Int, accrued : Int, used : Int]]
  BY <1>1, SpentType DEF IInv, TypeOK
<1>3. BalancesAddUp'
  <2>1. balances'[BalanceOf[t]] = Spent(BalanceOf[t], tickets[t].hours)
    BY <1>1 DEF IInv, TypeOK
  <2>2. balances'[BalanceOf[t]].hours
          = balances'[BalanceOf[t]].accrued - balances'[BalanceOf[t]].used
    <3>1. /\ balances[BalanceOf[t]] \in [hours : Int, accrued : Int, used : Int]
          /\ balances[BalanceOf[t]].hours
               = balances[BalanceOf[t]].accrued - balances[BalanceOf[t]].used
      BY <1>1 DEF IInv, TypeOK, BalancesAddUp
    <3>2. PICK before : before = balances[BalanceOf[t]]
      OBVIOUS
    <3>3. PICK after : after = Spent(BalanceOf[t], tickets[t].hours)
      OBVIOUS
    <3>4. /\ after \in [hours : Int, accrued : Int, used : Int]
          /\ after.accrued = before.accrued
          /\ after.hours + after.used = before.hours + before.used
      BY <1>1, <3>2, <3>3, SpentType DEF IInv
    <3>5. after.hours = after.accrued - after.used
      BY <3>1, <3>2, <3>4
    <3> QED
      BY <2>1, <3>3, <3>5
  <2> QED
    BY <1>1, <2>2 DEF IInv, TypeOK, BalancesAddUp
<1>4. /\ Noted(t, "approved") /\ "approved" \in Decisions
      /\ tickets' = [tickets EXCEPT ![t] = record] /\ tickets[t].status = "pending"
      /\ UNCHANGED <<requests, crashes, direct, cut>>
  BY DEF Approve, MayApprove, Decisions, IInv, TypeOK, NoteDecision, Noted, HoldersOf
<1>5. record \in Ticket /\ record.status = "approved"
  BY <1>4, TicketDecided DEF IInv, TypeOK
<1> HIDE DEF record
<1>6. /\ (OpenUntilDecided /\ HeldIsCurrent /\ DecisionsStand)'
      /\ tickets' \in [Tickets -> Ticket]
      /\ verdict' \in [Tickets -> {"none"} \union Decisions]
  BY <1>4, <1>5, DecidedIInv
<1>7. TypeOK'
  BY <1>2, <1>4, <1>6 DEF IInv, TypeOK, Noted
<1> QED
  BY <1>3, <1>6, <1>7 DEF IInv

LEMMA CancelIInv ==
  ASSUME IInv, NEW t \in Tickets, Cancel(t) PROVE IInv'
<1> DEFINE record == [tickets[t] EXCEPT !.status = "cancelled"]
<1>1. /\ Noted(t, "cancelled") /\ "cancelled" \in Decisions
      /\ tickets' = [tickets EXCEPT ![t] = record] /\ tickets[t].status = "pending"
      /\ UNCHANGED <<balances, requests, crashes, direct, cut>>
  BY DEF Cancel, Decisions, IInv, TypeOK, NoteDecision, Noted, HoldersOf
<1>2. record \in Ticket /\ record.status = "cancelled"
  BY <1>1, TicketDecided DEF IInv, TypeOK
<1> HIDE DEF record
<1>3. /\ (OpenUntilDecided /\ HeldIsCurrent /\ DecisionsStand)'
      /\ tickets' \in [Tickets -> Ticket]
      /\ verdict' \in [Tickets -> {"none"} \union Decisions]
  BY <1>1, <1>2, DecidedIInv
<1>4. TypeOK'
  BY <1>1, <1>3 DEF IInv, TypeOK, Noted
<1>5. BalancesAddUp'
  BY <1>1 DEF IInv, BalancesAddUp
<1> QED
  BY <1>3, <1>4, <1>5 DEF IInv

LEMMA CutApprovalIInv ==
  ASSUME IInv, NEW t \in Tickets, CutApproval(t) PROVE IInv'
<1> DEFINE record == [tickets[t] EXCEPT !.status = "approved"]
<1>1. /\ Noted(t, "approved") /\ "approved" \in Decisions
      /\ tickets' = [tickets EXCEPT ![t] = record] /\ tickets[t].status = "pending"
      /\ cut' = cut \union {t}
      /\ UNCHANGED <<balances, direct>>
  BY DEF CutApproval, MayApprove, Restart, Decisions, IInv, TypeOK, NoteDecision, Noted,
         HoldersOf, Idle
<1>2. record \in Ticket /\ record.status = "approved"
  BY <1>1, TicketDecided DEF IInv, TypeOK
<1>3. /\ requests' \in [Requests -> Request] /\ crashes' \in Nat
      /\ \A q \in Requests : requests'[q] = Idle
  BY DEF IInv, TypeOK, CutApproval, Restart, Request
<1> HIDE DEF record
<1>4. /\ (OpenUntilDecided /\ HeldIsCurrent /\ DecisionsStand)'
      /\ tickets' \in [Tickets -> Ticket]
      /\ verdict' \in [Tickets -> {"none"} \union Decisions]
  BY <1>1, <1>2, <1>3, DecidedIInv
<1>5. TypeOK'
  BY <1>1, <1>3, <1>4 DEF IInv, TypeOK, Noted
<1>6. BalancesAddUp'
  BY <1>1 DEF IInv, BalancesAddUp
<1> QED
  BY <1>4, <1>5, <1>6 DEF IInv

LEMMA BeginDenyIInv ==
  ASSUME IInv, NEW q \in Requests, NEW t \in Tickets, BeginDeny(q, t) PROVE IInv'
<1>1. Denying(t) \in Request
  BY DEF Denying, Request, IInv, TypeOK
<1>2. TypeOK'
  BY <1>1 DEF IInv, TypeOK, BeginDeny, history
<1>3. HeldIsCurrent'
  BY DEF IInv, TypeOK, HeldIsCurrent, BeginDeny, history, Denying
<1>4. (BalancesAddUp /\ OpenUntilDecided /\ DecisionsStand)'
  BY DEF IInv, BalancesAddUp, OpenUntilDecided, DecisionsStand, BeginDeny, history
<1> QED
  BY <1>2, <1>3, <1>4 DEF IInv

LEMMA FinishDenyIInv ==
  ASSUME IInv, NEW q \in Requests, FinishDeny(q) PROVE IInv'
<1> DEFINE t == requests[q].ticket
           record == [requests[q].read EXCEPT !.status = "denied"]
<1>1. t \in Tickets /\ requests[q].read \in Ticket
  BY DEF IInv, TypeOK, FinishDeny, MayDeny, Request, Idle
<1>2. record \in Ticket /\ record.status = "denied"
  <2>1. requests[q].read.status # "none" /\ "denied" \in Decisions
    BY DEF FinishDeny, MayDeny, Decisions
  <2> QED
    BY <1>1, <2>1, TicketDecided
<1>3. t \notin late => tickets[t].status = "pending"
  BY DEF IInv, HeldIsCurrent, FinishDeny, MayDeny
<1>4. /\ tickets' = [tickets EXCEPT ![t] = record]
      /\ requests' = [requests EXCEPT ![q] = Idle]
      /\ UNCHANGED <<balances, crashes, direct, cut>>
  BY DEF FinishDeny
<1>5. /\ requests' \in [Requests -> Request]
      /\ \A p \in Requests : requests'[p] = requests[p] \/ requests'[p] = Idle
  BY <1>4 DEF IInv, TypeOK, Request
<1>6. Noted(t, "denied") /\ "denied" \in Decisions
  BY <1>1, <1>4 DEF FinishDeny, IInv, TypeOK, NoteDecision, Noted, HoldersOf, Decisions,
                    Idle
<1> HIDE DEF t, record
<1>7. /\ (OpenUntilDecided /\ HeldIsCurrent /\ DecisionsStand)'
      /\ tickets' \in [Tickets -> Ticket]
      /\ verdict' \in [Tickets -> {"none"} \union Decisions]
  BY <1>1, <1>2, <1>3, <1>4, <1>5, <1>6, DecidedIInv
<1>8. TypeOK'
  BY <1>4, <1>5, <1>6, <1>7 DEF IInv, TypeOK, Noted
<1>9. BalancesAddUp'
  BY <1>4 DEF IInv, BalancesAddUp
<1> QED
  BY <1>7, <1>8, <1>9 DEF IInv

\* A request that fails, and a stop, give up what was held.
LEMMA GivenUpIInv ==
  ASSUME IInv, requests' \in [Requests -> Request], crashes' \in Nat,
         \A q \in Requests : requests'[q] = requests[q] \/ requests'[q] = Idle,
         UNCHANGED <<balances, tickets, direct, verdict, late, cut>>
  PROVE  IInv'
<1>1. TypeOK'
  BY DEF IInv, TypeOK
<1>2. HeldIsCurrent'
  BY DEF IInv, HeldIsCurrent, Idle
<1>3. (BalancesAddUp /\ OpenUntilDecided /\ DecisionsStand)'
  BY DEF IInv, BalancesAddUp, OpenUntilDecided, DecisionsStand
<1> QED
  BY <1>1, <1>2, <1>3 DEF IInv

LEMMA NextIInv == IInv /\ [Next]_vars => IInv'
<1> SUFFICES ASSUME IInv, [Next]_vars PROVE IInv'
  OBVIOUS
<1>1. CASE UNCHANGED vars
  BY <1>1, GivenUpIInv DEF vars, IInv, TypeOK
<1>2. ASSUME NEW q \in Requests, FailRequest(q) PROVE IInv'
  <2>1. /\ requests' \in [Requests -> Request]
        /\ \A p \in Requests : requests'[p] = requests[p] \/ requests'[p] = Idle
    BY <1>2 DEF FailRequest, IInv, TypeOK, Request
  <2> QED
    BY <1>2, <2>1, GivenUpIInv DEF FailRequest, history, IInv, TypeOK
<1>3. CASE Crash
  <2>1. requests' \in [Requests -> Request] /\ \A p \in Requests : requests'[p] = Idle
    BY <1>3 DEF Crash, Restart, Request
  <2> QED
    BY <1>3, <2>1, GivenUpIInv DEF Crash, Restart, history, IInv, TypeOK
<1> QED
  BY <1>1, <1>2, <1>3, AccrueIInv, UseIInv, CreateRequestIInv, ApproveIInv, CancelIInv,
     CutApprovalIInv, BeginDenyIInv, FinishDenyIInv DEF Next

LEMMA Invariance == Spec => []IInv
<1> QED
  BY InitIInv, NextIInv, PTL DEF Spec

\* Whatever accrues, is used, requested and decided, the balances and requests keep
\* their types, and every request is for a positive number of hours.
THEOREM Typed == Spec => []TypeOK
<1>1. IInv => TypeOK
  BY DEF IInv
<1> QED
  BY <1>1, Invariance, PTL

\* No hours worked or used are negative, and no policy caps below zero: nothing in
\* the routes sees to it.
NothingNegative ==
    /\ Hours \subseteq Nat
    /\ Accruals \subseteq Nat
    /\ \A b \in Balances : CapOf[b] # NoCap => CapOf[b] \in Nat

WithinCap ==
    \A b \in Balances : /\ balances[b].hours >= 0
                        /\ CapOf[b] # NoCap => balances[b].hours <= CapOf[b]

LEMMA NextWithinCap ==
  ASSUME NothingNegative, IInv, WithinCap, [Next]_vars PROVE WithinCap'
<1>1. \A b \in Balances :
          /\ balances[b].hours \in Int
          /\ balances[b].hours >= 0
          /\ CapOf[b] # NoCap => CapOf[b] \in Nat /\ balances[b].hours <= CapOf[b]
  BY DEF NothingNegative, IInv, TypeOK, WithinCap
<1>2. ASSUME NEW b \in Balances, NEW hours \in Nat, Covers(b, hours),
             balances' = [balances EXCEPT ![b] = Spent(b, hours)]
      PROVE  WithinCap'
  <2>0. /\ balances[b].hours \in Int
        /\ balances[b].hours >= 0
        /\ CapOf[b] # NoCap => CapOf[b] \in Nat /\ balances[b].hours <= CapOf[b]
    BY <1>1
  <2> PICK h \in Int : /\ h = balances[b].hours
                       /\ h >= 0
                       /\ CapOf[b] # NoCap => CapOf[b] \in Nat /\ h <= CapOf[b]
    BY <2>0
  <2>1. Spent(b, hours).hours = h - hours
    BY <1>2, SpentType DEF IInv
  <2>2. /\ h - hours \in Int /\ h - hours >= 0
        /\ CapOf[b] # NoCap => h - hours <= CapOf[b]
    <3>1. hours \in Nat /\ hours <= h
      BY <1>2 DEF Covers
    <3>2. h - hours \in Int /\ h - hours >= 0 /\ h - hours <= h
      BY <3>1
    <3>3. CapOf[b] # NoCap => h - hours <= CapOf[b]
      BY <3>1, <3>2
    <3> QED
      BY <3>2, <3>3
  <2>3. \A a \in Balances : balances'[a] = IF a = b THEN Spent(b, hours) ELSE balances[a]
    BY <1>2 DEF IInv, TypeOK
  <2> QED
    BY <1>1, <2>1, <2>2, <2>3 DEF WithinCap
<1>3. ASSUME NEW b \in Balances, NEW earned \in Accruals, Accrue(b, earned)
      PROVE  WithinCap'
  <2>1. earned \in Nat
    BY DEF NothingNegative
  <2>0. /\ balances[b].hours \in Int
        /\ balances[b].hours >= 0
        /\ CapOf[b] # NoCap => CapOf[b] \in Nat
    BY <1>1
  <2> PICK h \in Int : /\ h = balances[b].hours
                       /\ h >= 0
                       /\ CapOf[b] # NoCap => CapOf[b] \in Nat
    BY <2>0
  <2>2. /\ Accrued(b, earned).hours >= 0
        /\ CapOf[b] # NoCap => Accrued(b, earned).hours <= CapOf[b]
    <3>1. CASE CapOf[b] = NoCap \/ h + earned <= CapOf[b]
      <4>1. Accrued(b, earned).hours = h + earned
        BY <3>1, AccruedType DEF IInv
      <4>2. h + earned >= 0
        BY <2>1
      <4> QED
        BY <3>1, <4>1, <4>2
    <3>2. CASE ~(CapOf[b] = NoCap \/ h + earned <= CapOf[b])
      <4>1. Accrued(b, earned).hours = CapOf[b]
        BY <3>2, AccruedType DEF IInv
      <4>2. CapOf[b] \in Nat
        BY <3>2
      <4>3. CapOf[b] >= 0 /\ CapOf[b] <= CapOf[b]
        BY <4>2
      <4> QED
        BY <4>1, <4>3
    <3> QED
      BY <3>1, <3>2
  <2>3. \A a \in Balances : balances'[a] = IF a = b THEN Accrued(b, earned) ELSE balances[a]
    BY <1>3 DEF Accrue, IInv, TypeOK
  <2> QED
    BY <1>1, <2>2, <2>3 DEF WithinCap
<1>4. ASSUME NEW b \in Balances, NEW hours \in Hours, Use(b, hours)
      PROVE  WithinCap'
  BY <1>2, <1>4 DEF Use, NothingNegative
<1>5. ASSUME NEW t \in Tickets, Approve(t)
      PROVE  WithinCap'
  <2>1. tickets[t].hours \in Nat /\ BalanceOf[t] \in Balances
    BY PtoRequestsAssumption, TicketHours DEF IInv, TypeOK
  <2> QED
    BY <1>2, <1>5, <2>1 DEF Approve, MayApprove, TakeHours
<1>6. ASSUME UNCHANGED balances
      PROVE  WithinCap'
  BY <1>6 DEF WithinCap
<1> QED
  BY <1>3, <1>4, <1>5, <1>6 DEF Next, vars, CreateRequest, Cancel, CutApproval, BeginDeny,
                                FinishDeny, FailRequest, Crash

\* If no hours that are passed are negative, no balance is overdrawn or above its cap
\* (accruePto, usePto): for any hours, caps, requests and restarts.
THEOREM StaysWithinCap == ASSUME NothingNegative PROVE Spec => []WithinCap
<1>1. Init => WithinCap
  BY PtoRequestsAssumption DEF Init, WithinCap, NothingNegative
<1>2. IInv /\ WithinCap /\ [Next]_vars => WithinCap'
  BY NextWithinCap
<1> QED
  BY <1>1, <1>2, Invariance, PTL DEF Spec

\* A balance is always the hours accrued less the hours used.
THEOREM AddsUp == Spec => []BalancesAddUp
<1>1. IInv => BalancesAddUp
  BY DEF IInv
<1> QED
  BY <1>1, Invariance, PTL

\* However many denials are in flight, only one that had read the request before
\* its decision can undo it.
THEOREM Stands == Spec => []DecisionsStand
<1>1. IInv => DecisionsStand
  BY DEF IInv
<1> QED
  BY <1>1, Invariance, PTL

-----------------------------------------------------------------------------
(* Hours are taken once.  The hours of a set of requests are known by      *)
(* their total on every subset, which needs no induction to grow by one    *)
(* request; that the fold of HoursOf is that total follows because a       *)
(* smallest subset on which it is not cannot be.                           *)

AmountTo(book, set, n) ==
    \E sum \in [SUBSET set -> Nat] :
        /\ sum[{}] = 0
        /\ \A part \in SUBSET set : \A k \in set \ part :
              sum[part \union {k}] = sum[part] + book[k].hours
        /\ n = sum[set]

First(part) == CHOOSE t \in part : TRUE

Fold(book, set) ==
    CHOOSE total : total = [part \in SUBSET set |->
                      IF part = {} THEN 0
                      ELSE book[First(part)].hours + total[part \ {First(part)}]]

LEMMA HoursOfIsAFold == \A set : HoursOf(set) = Fold(tickets, set)[set]
BY DEF HoursOf, MapThenSumSet, MapThenFoldSet, Fold, First

LEMMA AFoldIsTheSum ==
  ASSUME NEW book, NEW set, IsFiniteSet(set), NEW sum \in [SUBSET set -> Nat], sum[{}] = 0,
         \A part \in SUBSET set : \A k \in set \ part :
             sum[part \union {k}] = sum[part] + book[k].hours,
         \A k \in set : book[k].hours \in Nat
  PROVE  Fold(book, set)[set] = sum[set]
<1> DEFINE Rule(total) == [part \in SUBSET set |->
                              IF part = {} THEN 0
                              ELSE book[First(part)].hours + total[part \ {First(part)}]]
<1>1. \A part \in SUBSET set : part # {} =>
          /\ First(part) \in part
          /\ part \ {First(part)} \in SUBSET set
          /\ sum[part] = book[First(part)].hours + sum[part \ {First(part)}]
  <2> SUFFICES ASSUME NEW part \in SUBSET set, part # {}
               PROVE  /\ First(part) \in part
                      /\ part \ {First(part)} \in SUBSET set
                      /\ sum[part] = book[First(part)].hours + sum[part \ {First(part)}]
    OBVIOUS
  <2>1. First(part) \in part
    BY DEF First
  <2> PICK k : k = First(part)
    OBVIOUS
  <2>2. part \ {k} \in SUBSET set /\ k \in set \ (part \ {k}) /\ (part \ {k}) \union {k} = part
    BY <2>1
  <2>3. sum[part] = sum[part \ {k}] + book[k].hours
    BY <2>2
  <2>4. sum[part \ {k}] \in Nat /\ book[k].hours \in Nat
    BY <2>2
  <2> QED
    BY <2>1, <2>2, <2>3, <2>4
<1>2. sum = Rule(sum)
  BY <1>1
<1> DEFINE fold == Fold(book, set)
<1>3. fold = Rule(fold)
  BY <1>2 DEF Fold
<1>4. \A part \in SUBSET set :
          fold[part] = IF part = {} THEN 0
                       ELSE book[First(part)].hours + fold[part \ {First(part)}]
  BY <1>3
<1> HIDE DEF fold, Rule
<1> DEFINE Wrong == {part \in SUBSET set : fold[part] # sum[part]}
           Smaller == StrictSubsetOrdering(set)
<1>5. CASE Wrong = {}
  BY <1>5 DEF fold
<1>6. CASE Wrong # {}
  <2>1. IsWellFoundedOn(Smaller, SUBSET set)
    BY FS_StrictSubsetOrderingWellFounded, FS_FiniteSubsetsOfFinite
  <2>2. Wrong \in SUBSET (SUBSET set)
    OBVIOUS
  <2> HIDE DEF Smaller, Wrong
  <2>3. PICK part \in Wrong : \A less \in Wrong : <<less, part>> \notin Smaller
    BY <1>6, <2>1, <2>2, WFMin
  <2>4. part \in SUBSET set /\ fold[part] # sum[part]
    BY <2>3 DEF Wrong
  <2>5. part # {}
    BY <1>4, <2>4
  <2> PICK less : less = part \ {First(part)}
    OBVIOUS
  <2>6. <<less, part>> \in Smaller /\ less \in SUBSET set
    BY <1>1, <2>4, <2>5 DEF Smaller, StrictSubsetOrdering
  <2>7. fold[less] = sum[less]
    BY <2>3, <2>6 DEF Wrong
  <2> QED
    BY <1>1, <1>4, <2>4, <2>5, <2>7
<1> QED
  BY <1>5, <1>6

LEMMA HoursOfIsTheAmount ==
  ASSUME NEW set, IsFiniteSet(set), \A k \in set : tickets[k].hours \in Nat,
         NEW n, AmountTo(tickets, set, n)
  PROVE  HoursOf(set) = n
<1>1. PICK sum \in [SUBSET set -> Nat] :
          /\ sum[{}] = 0
          /\ \A part \in SUBSET set : \A k \in set \ part :
                sum[part \union {k}] = sum[part] + tickets[k].hours
          /\ n = sum[set]
  BY DEF AmountTo
<1> PICK book : book = tickets
  OBVIOUS
<1>2. Fold(book, set)[set] = sum[set]
  BY <1>1, AFoldIsTheSum
<1> QED
  BY <1>1, <1>2, HoursOfIsAFold

LEMMA NothingAmountsToNothing == \A book : AmountTo(book, {}, 0)
<1> DEFINE sum == [part \in SUBSET {} |-> 0]
<1>1. sum \in [SUBSET {} -> Nat] /\ sum[{}] = 0
  OBVIOUS
<1> QED
  BY <1>1 DEF AmountTo

LEMMA AmountOfTheSameHours ==
  ASSUME NEW book, NEW later, NEW set, NEW n, AmountTo(book, set, n),
         \A k \in set : later[k].hours = book[k].hours
  PROVE  AmountTo(later, set, n)
BY DEF AmountTo

LEMMA OneMore ==
  ASSUME NEW book, NEW set, NEW n, AmountTo(book, set, n), NEW k, k \notin set,
         \A j \in set \union {k} : book[j].hours \in Nat
  PROVE  n \in Nat /\ AmountTo(book, set \union {k}, n + book[k].hours)
<1> DEFINE more == set \union {k}
<1>1. PICK sum \in [SUBSET set -> Nat] :
          /\ sum[{}] = 0
          /\ \A part \in SUBSET set : \A j \in set \ part :
                sum[part \union {j}] = sum[part] + book[j].hours
          /\ n = sum[set]
  BY DEF AmountTo
<1> DEFINE all == [part \in SUBSET more |->
                      IF k \in part THEN sum[part \ {k}] + book[k].hours ELSE sum[part]]
<1>2. \A part \in SUBSET more :
          /\ part \ {k} \in SUBSET set
          /\ k \notin part => part \in SUBSET set
  OBVIOUS
<1>3. all \in [SUBSET more -> Nat] /\ all[{}] = 0
  BY <1>1, <1>2
<1>4. ASSUME NEW part \in SUBSET more, NEW j \in more \ part
      PROVE  all[part \union {j}] = all[part] + book[j].hours
  <2>1. part \union {j} \in SUBSET more
    OBVIOUS
  <2>2. CASE j = k
    <3>1. (part \union {j}) \ {k} = part /\ part \in SUBSET set
      BY <2>2
    <3> QED
      BY <2>1, <2>2, <3>1
  <2>3. CASE j # k /\ k \in part
    <3>1. /\ (part \union {j}) \ {k} = (part \ {k}) \union {j}
          /\ part \ {k} \in SUBSET set /\ j \in set \ (part \ {k})
      BY <2>3
    <3>2. sum[(part \ {k}) \union {j}] = sum[part \ {k}] + book[j].hours
      BY <1>1, <3>1
    <3>3. sum[part \ {k}] \in Nat /\ book[j].hours \in Nat /\ book[k].hours \in Nat
      BY <1>1, <3>1
    <3>4. all[part \union {j}] = sum[(part \ {k}) \union {j}] + book[k].hours
      BY <2>1, <2>3, <3>1
    <3>5. all[part] = sum[part \ {k}] + book[k].hours
      BY <2>3
    <3> QED
      BY <3>2, <3>3, <3>4, <3>5
  <2>4. CASE j # k /\ k \notin part
    <3>1. part \in SUBSET set /\ j \in set \ part
      BY <2>4
    <3> QED
      BY <1>1, <2>1, <2>4, <3>1
  <2> QED
    BY <2>2, <2>3, <2>4
<1>5. all[more] = n + book[k].hours
  <2>1. more \ {k} = set /\ k \in more /\ more \in SUBSET more
    OBVIOUS
  <2> QED
    BY <1>1, <2>1
<1>6. n \in Nat
  BY <1>1
<1> HIDE DEF all, more
<1>7. AmountTo(book, more, n + book[k].hours)
  BY <1>3, <1>4, <1>5 DEF AmountTo
<1> QED
  BY <1>6, <1>7 DEF more

-----------------------------------------------------------------------------

\* A request is open until its first decision, and what is approved, or was cut
\* while it was approved, was first approved.
DecidedOnce ==
    \A t \in Tickets :
        /\ tickets[t].status \in {"none", "pending"} => verdict[t] = "none"
        /\ tickets[t].status = "approved" => verdict[t] = "approved"
        /\ t \in cut => verdict[t] # "none"

\* The hours of a request never change: what a denial holds has them too.
HeldHours ==
    \A q \in Requests :
        requests[q].kind = "deny" =>
            requests[q].read.hours = tickets[requests[q].ticket].hours

\* The requests whose hours were taken: those first approved and not cut.
Taken(b) == {t \in Tickets : BalanceOf[t] = b /\ verdict[t] = "approved" /\ t \notin cut}

UsedIsTaken ==
    \A b \in Balances :
        /\ IsFiniteSet(Taken(b))
        /\ \E n \in Nat : AmountTo(tickets, Taken(b), n) /\ balances[b].used = direct[b] + n

HoursInv == DecidedOnce /\ HeldHours /\ UsedIsTaken

LEMMA InitHoursInv == Init => HoursInv
<1> SUFFICES ASSUME Init PROVE HoursInv
  OBVIOUS
<1>1. DecidedOnce /\ HeldHours
  BY DEF Init, DecidedOnce, HeldHours, NoTicket, Idle
<1>2. ASSUME NEW b \in Balances
      PROVE  /\ IsFiniteSet(Taken(b))
             /\ AmountTo(tickets, Taken(b), 0) /\ balances[b].used = direct[b] + 0
  <2>1. Taken(b) = {} /\ balances[b].used = 0 /\ direct[b] = 0
    BY DEF Init, Taken
  <2>2. AmountTo(tickets, {}, 0)
    BY NothingAmountsToNothing
  <2> QED
    BY <2>1, <2>2, FS_EmptySet
<1>3. UsedIsTaken
  BY <1>2 DEF UsedIsTaken
<1> QED
  BY <1>1, <1>3 DEF HoursInv

\* A step that approves nothing, or cuts what it approves, and leaves the hours of
\* what was approved before: used and direct hours grow alike.
LEMMA NoneTaken ==
  ASSUME IInv, HoursInv,
         \A t \in Tickets : (verdict'[t] = "approved" /\ t \notin cut')
                              <=> (verdict[t] = "approved" /\ t \notin cut),
         \A t \in Tickets : verdict[t] = "approved" => tickets'[t].hours = tickets[t].hours,
         \A b \in Balances : /\ balances'[b].used \in Int /\ direct'[b] \in Int
                             /\ balances'[b].used - direct'[b] = balances[b].used - direct[b]
  PROVE  UsedIsTaken'
<1> SUFFICES ASSUME NEW b \in Balances
             PROVE  /\ IsFiniteSet(Taken(b)')
                    /\ \E n \in Nat : /\ AmountTo(tickets', Taken(b)', n)
                                      /\ balances'[b].used = direct'[b] + n
  BY DEF UsedIsTaken, AmountTo
<1>1. Taken(b)' = Taken(b)
  BY DEF Taken
<1>2. PICK n \in Nat : AmountTo(tickets, Taken(b), n) /\ balances[b].used = direct[b] + n
  BY DEF HoursInv, UsedIsTaken
<1>3. AmountTo(tickets', Taken(b), n)
  <2>1. \A t \in Taken(b) : tickets'[t].hours = tickets[t].hours
    BY DEF Taken
  <2> QED
    BY <1>2, <2>1, AmountOfTheSameHours
<1>4. balances'[b].used = direct'[b] + n
  <2>1. balances[b].used \in Int /\ direct[b] \in Int
    BY DEF IInv, TypeOK
  <2> QED
    BY <1>2, <2>1
<1> QED
  BY <1>1, <1>2, <1>3, <1>4 DEF HoursInv, UsedIsTaken

LEMMA BalanceStepHoursInv ==
  ASSUME IInv, IInv', HoursInv, NEW b \in Balances,
         (\E earned \in Accruals : Accrue(b, earned)) \/ (\E hours \in Hours : Use(b, hours))
  PROVE  HoursInv'
<1>1. UNCHANGED <<tickets, requests, verdict, cut>>
  BY DEF Accrue, Use, history
<1>2. (DecidedOnce /\ HeldHours)'
  BY <1>1 DEF HoursInv, DecidedOnce, HeldHours
<1>3. ASSUME NEW a \in Balances
      PROVE  /\ balances'[a].used \in Int /\ direct'[a] \in Int
             /\ balances'[a].used - direct'[a] = balances[a].used - direct[a]
  <2>1. /\ balances'[a].used \in Int /\ direct'[a] \in Int
        /\ balances[a].used \in Int /\ direct[a] \in Int
    BY DEF IInv, TypeOK
  <2>2. ASSUME NEW earned \in Accruals, Accrue(b, earned)
        PROVE  balances'[a].used = balances[a].used /\ direct'[a] = direct[a]
    BY <2>2, AccruedType DEF Accrue, history, IInv, TypeOK
  <2>3. ASSUME NEW hours \in Hours, Use(b, hours)
        PROVE  balances'[a].used - direct'[a] = balances[a].used - direct[a]
    <3>1. hours \in Int
      BY PtoRequestsAssumption
    <3>2. CASE a = b
      <4>1. balances'[a].used = balances[a].used + hours /\ direct'[a] = direct[a] + hours
        BY <2>3, <3>2 DEF Use, Spent, IInv, TypeOK
      <4> QED
        BY <2>1, <3>1, <4>1
    <3>3. CASE a # b
      BY <2>3, <3>3 DEF Use, IInv, TypeOK
    <3> QED
      BY <3>2, <3>3
  <2> QED
    BY <2>1, <2>2, <2>3
<1>4. UsedIsTaken'
  BY <1>1, <1>3, NoneTaken
<1> QED
  BY <1>2, <1>4 DEF HoursInv

\* Balances and what was used directly stay, and so do the hours of every request
\* that was ever saved.
LEMMA DecisionHoursInv ==
  ASSUME IInv, HoursInv, UNCHANGED <<balances, direct>>,
         \A t \in Tickets : (verdict'[t] = "approved" /\ t \notin cut')
                              <=> (verdict[t] = "approved" /\ t \notin cut),
         \A t \in Tickets : verdict[t] = "approved" => tickets'[t].hours = tickets[t].hours
  PROVE  UsedIsTaken'
<1>1. \A b \in Balances : /\ balances'[b].used \in Int /\ direct'[b] \in Int
                          /\ balances'[b].used - direct'[b] = balances[b].used - direct[b]
  BY DEF IInv, TypeOK
<1> QED
  BY <1>1, NoneTaken

LEMMA CreateRequestHoursInv ==
  ASSUME IInv, HoursInv, NEW t \in Tickets, NEW hours \in Hours, CreateRequest(t, hours)
  PROVE  HoursInv'
<1>1. /\ tickets' = [tickets EXCEPT ![t] = [status |-> "pending", hours |-> hours]]
      /\ tickets[t].status = "none" /\ verdict[t] = "none"
      /\ UNCHANGED <<balances, requests, direct, verdict, cut>>
  BY DEF CreateRequest, history, HoursInv, DecidedOnce
<1>2. DecidedOnce'
  BY <1>1 DEF IInv, TypeOK, HoursInv, DecidedOnce
<1>3. HeldHours'
  BY <1>1 DEF IInv, TypeOK, HeldIsCurrent, HoursInv, HeldHours
<1>4. \A s \in Tickets : verdict[s] = "approved" => tickets'[s].hours = tickets[s].hours
  BY <1>1 DEF IInv, TypeOK
<1>5. UsedIsTaken'
  BY <1>1, <1>4, DecisionHoursInv
<1> QED
  BY <1>2, <1>3, <1>5 DEF HoursInv

\* A decision leaves the hours of the request, and who held it or was given up.
LEMMA DecidedHours ==
  ASSUME IInv, HoursInv, NEW t \in Tickets, NEW decision \in Decisions,
         NEW record \in Ticket, record.status = decision, record.hours = tickets[t].hours,
         tickets' = [tickets EXCEPT ![t] = record],
         verdict' = [verdict EXCEPT ![t] = IF @ = "none" THEN decision ELSE @],
         decision = "approved" => tickets[t].status = "pending",
         cut \subseteq cut' /\ cut' \subseteq cut \union {t},
         \A q \in Requests : requests'[q] = requests[q] \/ requests'[q] = Idle
  PROVE  /\ (DecidedOnce /\ HeldHours)'
         /\ \A s \in Tickets : tickets'[s].hours = tickets[s].hours
<1>1. \A s \in Tickets : /\ tickets'[s].hours = tickets[s].hours
                         /\ s # t => tickets'[s] = tickets[s] /\ verdict'[s] = verdict[s]
  BY DEF IInv, TypeOK
<1>2. /\ tickets'[t].status = decision
      /\ verdict'[t] = IF verdict[t] = "none" THEN decision ELSE verdict[t]
      /\ decision # "none" /\ decision # "pending"
  BY DEF IInv, TypeOK, Decisions
<1>3. DecidedOnce'
  BY <1>1, <1>2 DEF HoursInv, DecidedOnce
<1>4. HeldHours'
  <2> SUFFICES ASSUME NEW q \in Requests, requests'[q].kind = "deny"
               PROVE  requests'[q].read.hours = tickets'[requests'[q].ticket].hours
    BY DEF HeldHours
  <2>1. requests'[q] = requests[q]
    BY DEF Idle
  <2>2. requests[q].ticket \in Tickets
    BY <2>1 DEF IInv, TypeOK, Request, Idle
  <2> QED
    BY <1>1, <2>1, <2>2 DEF HoursInv, HeldHours
<1> QED
  BY <1>1, <1>3, <1>4

LEMMA ApproveHoursInv ==
  ASSUME IInv, HoursInv, NEW t \in Tickets, Approve(t) PROVE HoursInv'
<1> DEFINE record == [tickets[t] EXCEPT !.status = "approved"]
<1>1. record \in Ticket /\ record.status = "approved" /\ record.hours = tickets[t].hours
  <2>1. tickets[t] \in Ticket /\ tickets[t].status # "none" /\ "approved" \in Decisions
    BY DEF IInv, TypeOK, Approve, MayApprove, Decisions
  <2> QED
    BY <2>1, TicketDecided
<1>2. /\ tickets' = [tickets EXCEPT ![t] = record]
      /\ verdict' = [verdict EXCEPT ![t] = IF @ = "none" THEN "approved" ELSE @]
      /\ tickets[t].status = "pending" /\ "approved" \in Decisions
      /\ UNCHANGED <<requests, direct, cut>>
  BY DEF Approve, MayApprove, NoteDecision, IInv, TypeOK, Decisions
<1> HIDE DEF record
<1>3. /\ (DecidedOnce /\ HeldHours)'
      /\ \A s \in Tickets : tickets'[s].hours = tickets[s].hours
  BY <1>1, <1>2, DecidedHours
<1>4. verdict[t] = "none" /\ t \notin cut
  BY <1>2 DEF HoursInv, DecidedOnce
<1>5. /\ \A s \in Tickets : tickets[s].hours \in Nat
      /\ BalanceOf[t] \in Balances
  BY TicketHours, PtoRequestsAssumption DEF IInv, TypeOK
<1>6. ASSUME NEW b \in Balances, b # BalanceOf[t]
      PROVE  /\ IsFiniteSet(Taken(b)')
             /\ \E n \in Nat : /\ AmountTo(tickets', Taken(b)', n)
                               /\ balances'[b].used = direct'[b] + n
  <2>1. Taken(b)' = Taken(b)
    BY <1>2, <1>6 DEF Taken, IInv, TypeOK
  <2>2. PICK n \in Nat : AmountTo(tickets, Taken(b), n) /\ balances[b].used = direct[b] + n
    BY DEF HoursInv, UsedIsTaken
  <2>3. AmountTo(tickets', Taken(b), n)
    <3>1. \A s \in Taken(b) : tickets'[s].hours = tickets[s].hours
      BY <1>3 DEF Taken
    <3> QED
      BY <2>2, <3>1, AmountOfTheSameHours
  <2>4. balances'[b] = balances[b]
    BY <1>6 DEF Approve, TakeHours, IInv, TypeOK
  <2> QED
    BY <1>2, <2>1, <2>2, <2>3, <2>4 DEF HoursInv, UsedIsTaken
<1>7. /\ IsFiniteSet(Taken(BalanceOf[t])')
      /\ \E n \in Nat : /\ AmountTo(tickets', Taken(BalanceOf[t])', n)
                        /\ balances'[BalanceOf[t]].used = direct'[BalanceOf[t]] + n
  <2> PICK b \in Balances : b = BalanceOf[t]
    BY <1>5
  <2> PICK set : set = Taken(b)
    OBVIOUS
  <2>1. Taken(b)' = set \union {t} /\ t \notin set /\ set \subseteq Tickets
    BY <1>2, <1>4 DEF Taken, IInv, TypeOK
  <2>2. IsFiniteSet(set \union {t})
    BY FS_AddElement DEF HoursInv, UsedIsTaken
  <2>3. PICK n \in Nat : AmountTo(tickets, set, n) /\ balances[b].used = direct[b] + n
    BY DEF HoursInv, UsedIsTaken
  <2>4. AmountTo(tickets, set \union {t}, n + tickets[t].hours)
    <3>1. \A s \in set \union {t} : tickets[s].hours \in Nat
      BY <1>5, <2>1
    <3> QED
      BY <2>1, <2>3, <3>1, OneMore
  <2>5. AmountTo(tickets', set \union {t}, n + tickets[t].hours)
    <3>1. \A s \in set \union {t} : tickets'[s].hours = tickets[s].hours
      BY <1>3, <2>1
    <3> QED
      BY <2>4, <3>1, AmountOfTheSameHours
  <2>6. balances'[b].used = balances[b].used + tickets[t].hours
    BY DEF Approve, TakeHours, Spent, IInv, TypeOK
  <2>7. /\ n + tickets[t].hours \in Nat
        /\ balances'[b].used = direct'[b] + (n + tickets[t].hours)
    <3>1. direct[b] \in Int /\ tickets[t].hours \in Nat
      BY <1>5 DEF IInv, TypeOK
    <3> QED
      BY <1>2, <2>3, <2>6, <3>1
  <2> QED
    BY <2>1, <2>2, <2>5, <2>7
<1>8. UsedIsTaken'
  <2> SUFFICES ASSUME NEW b \in Balances
               PROVE  /\ IsFiniteSet(Taken(b)')
                      /\ \E n \in Nat : /\ AmountTo(tickets', Taken(b)', n)
                                        /\ balances'[b].used = direct'[b] + n
    BY DEF UsedIsTaken, AmountTo
  <2>1. CASE b = BalanceOf[t]
    BY <1>7, <2>1
  <2>2. CASE b # BalanceOf[t]
    BY <1>6, <2>2
  <2> QED
    BY <2>1, <2>2
<1> QED
  BY <1>3, <1>8 DEF HoursInv

LEMMA CutApprovalHoursInv ==
  ASSUME IInv, HoursInv, NEW t \in Tickets, CutApproval(t) PROVE HoursInv'
<1> DEFINE record == [tickets[t] EXCEPT !.status = "approved"]
<1>1. record \in Ticket /\ record.status = "approved" /\ record.hours = tickets[t].hours
  <2>1. tickets[t] \in Ticket /\ tickets[t].status # "none" /\ "approved" \in Decisions
    BY DEF IInv, TypeOK, CutApproval, MayApprove, Decisions
  <2> QED
    BY <2>1, TicketDecided
<1>2. /\ tickets' = [tickets EXCEPT ![t] = record]
      /\ verdict' = [verdict EXCEPT ![t] = IF @ = "none" THEN "approved" ELSE @]
      /\ tickets[t].status = "pending" /\ "approved" \in Decisions
      /\ \A q \in Requests : requests'[q] = Idle
      /\ cut' = cut \union {t}
      /\ UNCHANGED <<balances, direct>>
  BY DEF CutApproval, MayApprove, NoteDecision, Restart, IInv, TypeOK, Decisions
<1> HIDE DEF record
<1>3. /\ (DecidedOnce /\ HeldHours)'
      /\ \A s \in Tickets : tickets'[s].hours = tickets[s].hours
  BY <1>1, <1>2, DecidedHours
<1>4. \A s \in Tickets : (verdict'[s] = "approved" /\ s \notin cut')
                           <=> (verdict[s] = "approved" /\ s \notin cut)
  <2>1. verdict[t] = "none"
    BY <1>2 DEF HoursInv, DecidedOnce
  <2> QED
    BY <1>2, <2>1 DEF IInv, TypeOK
<1>5. UsedIsTaken'
  BY <1>2, <1>3, <1>4, DecisionHoursInv
<1> QED
  BY <1>3, <1>5 DEF HoursInv

LEMMA CancelHoursInv ==
  ASSUME IInv, HoursInv, NEW t \in Tickets, Cancel(t) PROVE HoursInv'
<1> DEFINE record == [tickets[t] EXCEPT !.status = "cancelled"]
<1>1. record \in Ticket /\ record.status = "cancelled" /\ record.hours = tickets[t].hours
  <2>1. tickets[t] \in Ticket /\ tickets[t].status # "none" /\ "cancelled" \in Decisions
    BY DEF IInv, TypeOK, Cancel, Decisions
  <2> QED
    BY <2>1, TicketDecided
<1>2. /\ tickets' = [tickets EXCEPT ![t] = record]
      /\ verdict' = [verdict EXCEPT ![t] = IF @ = "none" THEN "cancelled" ELSE @]
      /\ "cancelled" \in Decisions
      /\ UNCHANGED <<balances, requests, direct, cut>>
  BY DEF Cancel, NoteDecision, IInv, TypeOK, Decisions
<1> HIDE DEF record
<1>3. /\ (DecidedOnce /\ HeldHours)'
      /\ \A s \in Tickets : tickets'[s].hours = tickets[s].hours
  BY <1>1, <1>2, DecidedHours
<1>4. \A s \in Tickets : verdict'[s] = "approved" <=> verdict[s] = "approved"
  BY <1>2 DEF IInv, TypeOK
<1>5. UsedIsTaken'
  BY <1>2, <1>3, <1>4, DecisionHoursInv
<1> QED
  BY <1>3, <1>5 DEF HoursInv

LEMMA FinishDenyHoursInv ==
  ASSUME IInv, HoursInv, NEW q \in Requests, FinishDeny(q) PROVE HoursInv'
<1> DEFINE t == requests[q].ticket
           record == [requests[q].read EXCEPT !.status = "denied"]
<1>1. t \in Tickets /\ requests[q].read \in Ticket
  BY DEF IInv, TypeOK, FinishDeny, MayDeny, Request, Idle
<1>2. record \in Ticket /\ record.status = "denied" /\ record.hours = tickets[t].hours
  <2>1. requests[q].read.status # "none" /\ "denied" \in Decisions
    BY DEF FinishDeny, MayDeny, Decisions
  <2>2. requests[q].read.hours = tickets[t].hours
    BY DEF HoursInv, HeldHours, FinishDeny, MayDeny
  <2> QED
    BY <1>1, <2>1, <2>2, TicketDecided
<1>3. /\ tickets' = [tickets EXCEPT ![t] = record]
      /\ verdict' = [verdict EXCEPT ![t] = IF @ = "none" THEN "denied" ELSE @]
      /\ "denied" \in Decisions
      /\ \A p \in Requests : requests'[p] = requests[p] \/ requests'[p] = Idle
      /\ UNCHANGED <<balances, direct, cut>>
  BY DEF FinishDeny, NoteDecision, IInv, TypeOK, Decisions
<1> HIDE DEF t, record
<1>4. /\ (DecidedOnce /\ HeldHours)'
      /\ \A s \in Tickets : tickets'[s].hours = tickets[s].hours
  BY <1>1, <1>2, <1>3, DecidedHours
<1>5. \A s \in Tickets : verdict'[s] = "approved" <=> verdict[s] = "approved"
  BY <1>1, <1>3 DEF IInv, TypeOK
<1>6. UsedIsTaken'
  BY <1>3, <1>4, <1>5, DecisionHoursInv
<1> QED
  BY <1>4, <1>6 DEF HoursInv

LEMMA NextHoursInv == IInv /\ IInv' /\ HoursInv /\ [Next]_vars => HoursInv'
<1> SUFFICES ASSUME IInv, IInv', HoursInv, [Next]_vars PROVE HoursInv'
  OBVIOUS
<1>1. ASSUME UNCHANGED <<balances, tickets, direct, verdict, cut>>,
             \A q \in Requests : \/ requests'[q] = requests[q] \/ requests'[q] = Idle
                                 \/ \E t \in Tickets : requests'[q] = Denying(t)
      PROVE  HoursInv'
  <2>1. DecidedOnce'
    BY <1>1 DEF HoursInv, DecidedOnce
  <2>2. HeldHours'
    <3> SUFFICES ASSUME NEW q \in Requests, requests'[q].kind = "deny"
                 PROVE  requests'[q].read.hours = tickets[requests'[q].ticket].hours
      BY <1>1 DEF HeldHours
    <3>1. CASE requests'[q] = requests[q]
      BY <3>1 DEF HoursInv, HeldHours
    <3>2. CASE requests'[q] = Idle
      BY <3>2 DEF Idle
    <3>3. ASSUME NEW t \in Tickets, requests'[q] = Denying(t)
          PROVE  requests'[q].read.hours = tickets[requests'[q].ticket].hours
      BY <3>3 DEF Denying
    <3> QED
      BY <1>1, <3>1, <3>2, <3>3
  <2>3. UsedIsTaken'
    BY <1>1, DecisionHoursInv
  <2> QED
    BY <2>1, <2>2, <2>3 DEF HoursInv
<1>2. CASE UNCHANGED vars
  BY <1>1, <1>2 DEF vars
<1>3. ASSUME NEW q \in Requests, FailRequest(q) \/ \E t \in Tickets : BeginDeny(q, t)
      PROVE  HoursInv'
  BY <1>1, <1>3 DEF FailRequest, BeginDeny, history, IInv, TypeOK
<1>4. CASE Crash
  BY <1>1, <1>4 DEF Crash, Restart, history
<1> QED
  BY <1>2, <1>3, <1>4, BalanceStepHoursInv, CreateRequestHoursInv, ApproveHoursInv,
     CancelHoursInv, CutApprovalHoursInv, FinishDenyHoursInv DEF Next

\* A balance is what was accrued less what was used, and what was used is what was
\* used directly and the hours of the approved requests, each once (pto-use, the
\* approve and deny routes): for any balances and requests, a denial that wrote
\* over an approval and an approval cut between its saves included.
THEOREM TakenOnce == Spec => []HoursTakenOnce
<1>1. IInv /\ HoursInv => HoursTakenOnce
  <2> SUFFICES ASSUME IInv, HoursInv, NEW b \in Balances
               PROVE  LET approved == {t \in Tickets : /\ BalanceOf[t] = b
                                                       /\ tickets[t].status = "approved"}
                          deniedLate == {t \in late : BalanceOf[t] = b /\ verdict[t] = "approved"}
                      IN  /\ balances[b].hours = balances[b].accrued - balances[b].used
                          /\ balances[b].used =
                                direct[b] + HoursOf((approved \union deniedLate) \ cut)
    BY DEF HoursTakenOnce
  <2> DEFINE approved == {t \in Tickets : BalanceOf[t] = b /\ tickets[t].status = "approved"}
             deniedLate == {t \in late : BalanceOf[t] = b /\ verdict[t] = "approved"}
  <2>1. (approved \union deniedLate) \ cut = Taken(b)
    BY DEF Taken, IInv, TypeOK, DecisionsStand, HoursInv, DecidedOnce
  <2>2. PICK n \in Nat : AmountTo(tickets, Taken(b), n) /\ balances[b].used = direct[b] + n
    BY DEF HoursInv, UsedIsTaken
  <2>3. HoursOf(Taken(b)) = n
    <3>2. \A k \in Taken(b) : tickets[k].hours \in Nat
      BY TicketHours DEF Taken, IInv, TypeOK
    <3>3. IsFiniteSet(Taken(b))
      BY DEF HoursInv, UsedIsTaken
    <3> QED
      BY <2>2, <3>2, <3>3, HoursOfIsTheAmount
  <2>4. balances[b].hours = balances[b].accrued - balances[b].used
    BY DEF IInv, BalancesAddUp
  <2> QED
    BY <2>1, <2>2, <2>3, <2>4
<1> QED
  BY <1>1, Invariance, InitHoursInv, NextHoursInv, PTL DEF Spec

-----------------------------------------------------------------------------
(* Deposit verifications                                                   *)

\* A verification's attempts are those that the guesses have left of a pending one.
AttemptsLeft(a) ==
    verifications[a].status = "pending" =>
        verifications[a].attempts = MaxAttempts - Len(guesses[a])

Decided ==
    \A a \in Accounts \ raced :
        verifications[a].method = "micro-deposit" =>
            /\ verifications[a].status = Verdict(guesses[a])
            /\ AttemptsLeft(a)

\* What a request in flight holds is what the store says, unless another one was
\* saved meanwhile.
HeldVerificationIsCurrent ==
    \A q \in Requests :
        requests[q].kind = "answer" /\ requests[q].account \notin raced =>
            requests[q].read = verifications[requests[q].account]

\* A verification in its own right, in the store or in flight.
Sound(v) ==
    /\ v.attempts \in 0 .. MaxAttempts
    /\ v.method = "micro-deposit" => (v.status = "failed" <=> v.attempts = 0)

HeldVerificationIsSound ==
    \A q \in Requests : requests[q].kind = "answer" => Sound(requests[q].read)

DepositIInv == DepositTypeOK /\ HeldVerificationIsSound /\ HeldVerificationIsCurrent /\ Decided

-----------------------------------------------------------------------------
(* The verdict                                                             *)

\* One more guess, on a verification that is still pending, decides as
\* verifyMicroDeposits() does.
LEMMA VerdictOfOneMore ==
  ASSUME NEW guessed \in Seq(BOOLEAN), NEW right \in BOOLEAN,
         Verdict(guessed) = "pending"
  PROVE  /\ Len(guessed) < MaxAttempts
         /\ right => Verdict(Append(guessed, right)) = "verified"
         /\ ~right /\ Len(guessed) + 1 < MaxAttempts =>
                Verdict(Append(guessed, right)) = "pending"
         /\ ~right /\ Len(guessed) + 1 = MaxAttempts =>
                Verdict(Append(guessed, right)) = "failed"
<1> DEFINE more == Append(guessed, right)
<1>1. /\ Len(guessed) \in Nat
      /\ Len(more) = Len(guessed) + 1
      /\ more[Len(guessed) + 1] = right
      /\ \A i \in 1 .. Len(guessed) : more[i] = guessed[i]
  OBVIOUS
<1>2. /\ Len(guessed) < MaxAttempts
      /\ \A i \in 1 .. Len(guessed) : ~guessed[i]
  BY <1>1, DepositVerificationAssumption DEF Verdict
<1> HIDE DEF more
<1>3. \A i \in 1 .. Len(more) : i = Len(guessed) + 1 \/ ~more[i]
  BY <1>1, <1>2
<1>4. right => Verdict(more) = "verified"
  <2> SUFFICES ASSUME right
               PROVE  \E i \in 1 .. Len(more) : i <= MaxAttempts /\ more[i]
    BY DEF Verdict
  <2>1. /\ Len(guessed) + 1 \in 1 .. Len(more)
        /\ Len(guessed) + 1 <= MaxAttempts
        /\ more[Len(guessed) + 1]
    BY <1>1, <1>2, DepositVerificationAssumption
  <2> QED
    BY <2>1
<1>5. ~right => \A i \in 1 .. Len(more) : ~more[i]
  BY <1>1, <1>3
<1>6. ~right => Verdict(more) = IF Len(more) >= MaxAttempts THEN "failed" ELSE "pending"
  BY <1>5 DEF Verdict
<1> QED
  BY <1>1, <1>2, <1>4, <1>6, DepositVerificationAssumption DEF more

\* The verdict on a decided verification does not change.
LEMMA VerdictStands ==
  ASSUME NEW guessed \in Seq(BOOLEAN), NEW right \in BOOLEAN,
         Verdict(guessed) # "pending"
  PROVE  Verdict(Append(guessed, right)) = Verdict(guessed)
<1> DEFINE more == Append(guessed, right)
<1>1. /\ Len(guessed) \in Nat
      /\ Len(more) = Len(guessed) + 1
      /\ \A i \in 1 .. Len(guessed) : more[i] = guessed[i]
  OBVIOUS
<1> HIDE DEF more
<1>2. CASE \E i \in 1 .. Len(guessed) : i <= MaxAttempts /\ guessed[i]
  BY <1>1, <1>2 DEF Verdict, more
<1>3. CASE ~\E i \in 1 .. Len(guessed) : i <= MaxAttempts /\ guessed[i]
  <2>1. Len(guessed) >= MaxAttempts /\ Verdict(guessed) = "failed"
    BY <1>3 DEF Verdict
  <2>2. ~\E i \in 1 .. Len(more) : i <= MaxAttempts /\ more[i]
    BY <1>1, <1>3, <2>1, DepositVerificationAssumption
  <2>3. Verdict(more) = "failed"
    BY <1>1, <2>1, <2>2, DepositVerificationAssumption DEF Verdict
  <2> QED
    BY <2>1, <2>3 DEF more
<1> QED
  BY <1>2, <1>3

-----------------------------------------------------------------------------

LEMMA DepositInitIInv == DepositInit => DepositIInv
<1> QED
  BY DepositVerificationAssumption
     DEF DepositInit, DepositIInv, DepositTypeOK, HeldVerificationIsSound,
         HeldVerificationIsCurrent, Decided, NoVerification,
         Verification, Idle, DepositRequest

LEMMA BeginInitiateIInv ==
  ASSUME DepositIInv, NEW q \in Requests, NEW a \in Accounts, BeginInitiate(q, a) PROVE DepositIInv'
<1>1. Initiating(a) \in DepositRequest /\ Initiating(a).kind = "initiate"
  BY DEF Initiating, DepositRequest
<1>2. DepositTypeOK'
  BY <1>1 DEF DepositIInv, DepositTypeOK, BeginInitiate
<1>3. (HeldVerificationIsSound /\ HeldVerificationIsCurrent)'
  BY <1>1 DEF DepositIInv, DepositTypeOK, HeldVerificationIsSound,
              HeldVerificationIsCurrent, BeginInitiate
<1>4. Decided'
  BY DEF DepositIInv, Decided, AttemptsLeft, BeginInitiate
<1> QED
  BY <1>2, <1>3, <1>4 DEF DepositIInv

LEMMA BeginAnswerIInv ==
  ASSUME DepositIInv, NEW q \in Requests, NEW a \in Accounts, BeginAnswer(q, a) PROVE DepositIInv'
<1>1. /\ Answering(a) \in DepositRequest
      /\ Answering(a).account = a /\ Answering(a).read = verifications[a]
  BY DEF Answering, DepositRequest, DepositIInv, DepositTypeOK
<1>2. DepositTypeOK'
  BY <1>1 DEF DepositIInv, DepositTypeOK, BeginAnswer
<1>3. (HeldVerificationIsSound /\ HeldVerificationIsCurrent)'
  BY <1>1 DEF DepositIInv, DepositTypeOK, HeldVerificationIsSound,
              HeldVerificationIsCurrent, BeginAnswer, Sound
<1>4. Decided'
  BY DEF DepositIInv, Decided, AttemptsLeft, BeginAnswer
<1> QED
  BY <1>2, <1>3, <1>4 DEF DepositIInv

LEMMA AbandonVerificationIInv ==
  ASSUME DepositIInv, NEW q \in Requests, AbandonVerification(q) PROVE DepositIInv'
<1>1. DepositTypeOK'
  BY DEF DepositIInv, DepositTypeOK, AbandonVerification, DepositRequest
<1>2. (HeldVerificationIsSound /\ HeldVerificationIsCurrent)'
  BY DEF DepositIInv, DepositTypeOK, HeldVerificationIsSound, HeldVerificationIsCurrent,
         AbandonVerification, Idle
<1>3. Decided'
  BY DEF DepositIInv, Decided, AttemptsLeft, AbandonVerification
<1> QED
  BY <1>1, <1>2, <1>3 DEF DepositIInv

\* A sound verification is saved for an account, and the account is out of the
\* race only if nothing in flight holds it.
LEMMA SavedIInv ==
  ASSUME DepositIInv, NEW q \in Requests, NEW a \in Accounts, NEW v \in Verification, Sound(v),
         verifications' = [verifications EXCEPT ![a] = v],
         requests' = [requests EXCEPT ![q] = Idle],
         raced' \subseteq Accounts,
         \A b \in Accounts \ {a} : b \in raced' <=> b \in raced,
         \A p \in ReadersOf(a) \ {q} : a \in raced'
  PROVE  /\ verifications' \in [Accounts -> Verification]
         /\ \A b \in Accounts : Sound(verifications'[b])
         /\ requests' \in [Requests -> DepositRequest]
         /\ (HeldVerificationIsSound /\ HeldVerificationIsCurrent)'
<1>1. /\ verifications' \in [Accounts -> Verification]
      /\ verifications'[a] = v
      /\ \A b \in Accounts \ {a} : verifications'[b] = verifications[b]
  BY DEF DepositIInv, DepositTypeOK
<1>2. \A b \in Accounts : Sound(verifications'[b])
  BY <1>1 DEF DepositIInv, DepositTypeOK, Sound
<1>3. /\ requests' \in [Requests -> DepositRequest]
      /\ \A p \in Requests : requests'[p].kind = "answer" =>
            p # q /\ requests'[p] = requests[p] /\ requests[p].account \in Accounts
  BY DEF DepositIInv, DepositTypeOK, DepositRequest, Idle
<1>4. HeldVerificationIsSound'
  BY <1>3 DEF DepositIInv, HeldVerificationIsSound, Sound
<1>5. HeldVerificationIsCurrent'
  BY <1>1, <1>3 DEF DepositIInv, HeldVerificationIsCurrent, ReadersOf
<1> QED
  BY <1>1, <1>2, <1>3, <1>4, <1>5

LEMMA FinishInitiateIInv ==
  ASSUME DepositIInv, NEW q \in Requests, NEW method \in {"prenote", "micro-deposit"},
         FinishInitiate(q, method)
  PROVE  DepositIInv'
<1> DEFINE a == requests[q].account
<1>1. a \in Accounts
  BY DEF DepositIInv, DepositTypeOK, FinishInitiate, DepositRequest, Idle
<1>2. Fresh(method) \in Verification /\ Sound(Fresh(method))
  BY DepositVerificationAssumption DEF Fresh, Verification, Sound
<1>3. /\ verifications' = [verifications EXCEPT ![a] = Fresh(method)]
      /\ guesses' = [guesses EXCEPT ![a] = <<>>]
      /\ raced' = IF ReadersOf(a) = {} THEN raced \ {a} ELSE raced \union {a}
      /\ requests' = [requests EXCEPT ![q] = Idle]
  BY DEF FinishInitiate
<1> HIDE DEF a
<1>4. /\ raced' \subseteq Accounts
      /\ \A b \in Accounts \ {a} : b \in raced' <=> b \in raced
      /\ \A p \in ReadersOf(a) \ {q} : a \in raced'
  BY <1>1, <1>3 DEF DepositIInv, DepositTypeOK
<1>5. /\ verifications' \in [Accounts -> Verification]
      /\ \A b \in Accounts : Sound(verifications'[b])
      /\ requests' \in [Requests -> DepositRequest]
      /\ (HeldVerificationIsSound /\ HeldVerificationIsCurrent)'
  BY <1>1, <1>2, <1>3, <1>4, SavedIInv
<1>6. guesses' \in [Accounts -> Seq(BOOLEAN)]
  <2>1. <<>> \in Seq(BOOLEAN)
    OBVIOUS
  <2> QED
    BY <2>1, <1>1, <1>3 DEF DepositIInv, DepositTypeOK
<1>7. DepositTypeOK'
  BY <1>4, <1>5, <1>6 DEF DepositTypeOK, Sound
<1>8. Decided'
  <2>1. \A b \in Accounts \ {a} : /\ verifications'[b] = verifications[b]
                                  /\ guesses'[b] = guesses[b]
    BY <1>3 DEF DepositIInv, DepositTypeOK
  <2>2. /\ verifications'[a].status = "pending" /\ guesses'[a] = <<>>
        /\ method = "micro-deposit" => verifications'[a].attempts = MaxAttempts
        /\ verifications'[a].method = method
    BY <1>1, <1>3 DEF DepositIInv, DepositTypeOK, Fresh
  <2>3. Verdict(<<>>) = "pending" /\ Len(<<>>) = 0
    BY DepositVerificationAssumption DEF Verdict
  <2>4. verifications'[a].method = "micro-deposit" =>
            /\ verifications'[a].status = Verdict(guesses'[a])
            /\ verifications'[a].attempts = MaxAttempts - Len(guesses'[a])
    BY <2>2, <2>3, DepositVerificationAssumption
  <2> QED
    BY <1>4, <2>1, <2>4 DEF DepositIInv, Decided, AttemptsLeft, Verdict
<1> QED
  BY <1>5, <1>7, <1>8 DEF DepositIInv

\* An answer to what was read.
LEMMA SaveAnswerIInv ==
  ASSUME DepositIInv, NEW q \in Requests, requests[q].kind = "answer",
         NEW v \in Verification, Sound(v), SaveAnswer(q, v)
  PROVE  /\ verifications' \in [Accounts -> Verification]
         /\ \A b \in Accounts : Sound(verifications'[b])
         /\ requests' \in [Requests -> DepositRequest]
         /\ raced' \subseteq Accounts
         /\ requests[q].account \in Accounts
         /\ verifications' = [verifications EXCEPT ![requests[q].account] = v]
         /\ raced \subseteq raced'
         /\ (HeldVerificationIsSound /\ HeldVerificationIsCurrent)'
<1> DEFINE a == requests[q].account
<1>1. a \in Accounts
  BY DEF DepositIInv, DepositTypeOK, DepositRequest, Idle
<1>2. /\ verifications' = [verifications EXCEPT ![a] = v]
      /\ raced' = IF ReadersOf(a) \ {q} # {} THEN raced \union {a} ELSE raced
      /\ requests' = [requests EXCEPT ![q] = Idle]
  BY DEF SaveAnswer
<1>3. /\ raced' \subseteq Accounts
      /\ \A b \in Accounts \ {a} : b \in raced' <=> b \in raced
      /\ \A p \in ReadersOf(a) \ {q} : a \in raced'
      /\ raced \subseteq raced'
  <2> HIDE DEF a
  <2> QED
    BY <1>1, <1>2 DEF DepositIInv, DepositTypeOK
<1> QED
  BY <1>1, <1>2, <1>3, SavedIInv

LEMMA ResolvePrenoteIInv ==
  ASSUME DepositIInv, NEW q \in Requests, NEW returned \in BOOLEAN, NEW waited \in BOOLEAN,
         ResolvePrenote(q, returned, waited)
  PROVE  DepositIInv'
<1> DEFINE v == Resolved(requests[q].read, returned, waited)
           a == requests[q].account
<1>1. requests[q].read \in Verification /\ Sound(requests[q].read)
  BY DEF DepositIInv, DepositTypeOK, ResolvePrenote, DepositRequest, Idle,
         HeldVerificationIsSound
<1>2. v \in Verification /\ Sound(v) /\ v.method = "prenote"
  BY <1>1 DEF Resolved, Verification, Sound, ResolvePrenote
<1>3. requests[q].kind = "answer" /\ SaveAnswer(q, v) /\ UNCHANGED guesses
  BY DEF ResolvePrenote
<1> HIDE DEF v
<1>4. /\ verifications' \in [Accounts -> Verification]
      /\ \A b \in Accounts : Sound(verifications'[b])
      /\ requests' \in [Requests -> DepositRequest]
      /\ raced' \subseteq Accounts
      /\ a \in Accounts
      /\ verifications' = [verifications EXCEPT ![a] = v]
      /\ raced \subseteq raced'
      /\ (HeldVerificationIsSound /\ HeldVerificationIsCurrent)'
  BY <1>2, <1>3, SaveAnswerIInv
<1>5. DepositTypeOK'
  BY <1>3, <1>4 DEF DepositIInv, DepositTypeOK, Sound
<1>6. Decided'
  BY <1>2, <1>3, <1>4 DEF DepositIInv, DepositTypeOK, Decided, AttemptsLeft
<1> QED
  BY <1>4, <1>5, <1>6 DEF DepositIInv

LEMMA VerifyMicroDepositsIInv ==
  ASSUME DepositIInv, NEW q \in Requests, NEW right \in BOOLEAN, VerifyMicroDeposits(q, right)
  PROVE  DepositIInv'
<1> DEFINE r == requests[q].read
           v == Checked(r, right)
           a == requests[q].account
<1>1. r \in Verification /\ Sound(r) /\ r.method = "micro-deposit"
  BY DEF DepositIInv, DepositTypeOK, VerifyMicroDeposits, DepositRequest, Idle,
         HeldVerificationIsSound
<1>2. /\ r.status # "pending" => v = r
      /\ r.status = "pending" /\ right =>
            v.status = "verified" /\ v.attempts = r.attempts
      /\ r.status = "pending" /\ ~right =>
            /\ v.attempts = r.attempts - 1
            /\ v.status = IF r.attempts - 1 <= 0 THEN "failed" ELSE "pending"
      /\ v.method = "micro-deposit"
      /\ v \in Verification
  <2>1. CASE r.status # "pending"
    BY <1>1, <2>1 DEF Checked
  <2>2. CASE r.status = "pending" /\ right
    BY <1>1, <2>2 DEF Checked, Verification
  <2>3. CASE r.status = "pending" /\ ~right
    <3> DEFINE left == r.attempts - 1
               status == IF left <= 0 THEN "failed" ELSE "pending"
    <3>1. v = [r EXCEPT !.attempts = left, !.status = status]
      BY <2>3 DEF Checked
    <3>2. left \in Int /\ status \in {"pending", "verified", "failed"}
      BY <1>1 DEF Verification
    <3> HIDE DEF left, status
    <3>3. /\ v.attempts = left /\ v.status = status /\ v.method = "micro-deposit"
          /\ v \in Verification
      BY <1>1, <3>1, <3>2 DEF Verification
    <3> QED
      BY <2>3, <3>3 DEF left, status
  <2> QED
    BY <2>1, <2>2, <2>3
<1>3. Sound(v)
  BY <1>1, <1>2, DepositVerificationAssumption DEF Sound, Verification
<1>4. /\ requests[q].kind = "answer" /\ SaveAnswer(q, v)
      /\ guesses' = [guesses EXCEPT ![a] = Append(@, right)]
  BY DEF VerifyMicroDeposits
<1> HIDE DEF v
<1>5. /\ verifications' \in [Accounts -> Verification]
      /\ \A b \in Accounts : Sound(verifications'[b])
      /\ requests' \in [Requests -> DepositRequest]
      /\ raced' \subseteq Accounts
      /\ a \in Accounts
      /\ verifications' = [verifications EXCEPT ![a] = v]
      /\ raced \subseteq raced'
      /\ (HeldVerificationIsSound /\ HeldVerificationIsCurrent)'
  BY <1>2, <1>3, <1>4, SaveAnswerIInv
<1>6. a \notin raced => r = verifications[a]
  BY <1>4 DEF DepositIInv, HeldVerificationIsCurrent
<1> HIDE DEF a, r
<1>7. /\ guesses[a] \in Seq(BOOLEAN)
      /\ guesses'[a] = Append(guesses[a], right)
      /\ guesses' \in [Accounts -> Seq(BOOLEAN)]
  BY <1>4, <1>5 DEF DepositIInv, DepositTypeOK
<1>8. DepositTypeOK'
  BY <1>5, <1>7 DEF DepositTypeOK, Sound
<1>9. a \notin raced =>
        /\ verifications'[a].status = Verdict(guesses'[a])
        /\ verifications'[a].status = "pending" =>
              verifications'[a].attempts = MaxAttempts - Len(guesses'[a])
  <2> SUFFICES ASSUME a \notin raced
               PROVE  /\ v.status = Verdict(guesses'[a])
                      /\ v.status = "pending" => v.attempts = MaxAttempts - Len(guesses'[a])
    BY <1>5 DEF DepositIInv, DepositTypeOK
  <2>1. /\ r.status = Verdict(guesses[a])
        /\ r.status = "pending" => r.attempts = MaxAttempts - Len(guesses[a])
    BY <1>1, <1>5, <1>6 DEF DepositIInv, Decided, AttemptsLeft
  <2>2. CASE r.status # "pending"
    BY <1>2, <1>7, <2>1, <2>2, VerdictStands
  <2>3. CASE r.status = "pending" /\ right
    BY <1>2, <1>7, <2>1, <2>3, VerdictOfOneMore
  <2>4. CASE r.status = "pending" /\ ~right
    <3>1. Len(guesses[a]) \in Nat /\ Len(guesses'[a]) = Len(guesses[a]) + 1
      BY <1>7
    <3>2. Len(guesses[a]) < MaxAttempts
      BY <1>7, <2>1, <2>4, VerdictOfOneMore
    <3>3. CASE Len(guesses[a]) + 1 < MaxAttempts
      <4>1. Verdict(guesses'[a]) = "pending"
        BY <1>7, <2>1, <2>4, <3>3, VerdictOfOneMore
      <4> QED
        BY <1>2, <2>1, <2>4, <3>1, <3>3, <4>1, DepositVerificationAssumption
    <3>4. CASE Len(guesses[a]) + 1 = MaxAttempts
      <4>1. Verdict(guesses'[a]) = "failed"
        BY <1>7, <2>1, <2>4, <3>4, VerdictOfOneMore
      <4> QED
        BY <1>2, <2>1, <2>4, <3>1, <3>4, <4>1, DepositVerificationAssumption
    <3> QED
      BY <3>1, <3>2, <3>3, <3>4, DepositVerificationAssumption
  <2> QED
    BY <2>2, <2>3, <2>4
<1>10. \A b \in Accounts \ {a} : /\ verifications'[b] = verifications[b]
                                 /\ guesses'[b] = guesses[b]
  BY <1>4, <1>5 DEF DepositIInv, DepositTypeOK
<1>11. Decided'
  BY <1>5, <1>9, <1>10 DEF DepositIInv, Decided, AttemptsLeft, Verdict
<1> QED
  BY <1>5, <1>8, <1>11 DEF DepositIInv

LEMMA DepositNextIInv == DepositIInv /\ [DepositNext]_depositVars => DepositIInv'
<1> SUFFICES ASSUME DepositIInv, [DepositNext]_depositVars PROVE DepositIInv'
  OBVIOUS
<1>1. CASE UNCHANGED depositVars
  BY <1>1 DEF depositVars, DepositIInv, DepositTypeOK, HeldVerificationIsSound,
              HeldVerificationIsCurrent, Decided, AttemptsLeft
<1> QED
  BY <1>1, BeginInitiateIInv, BeginAnswerIInv, FinishInitiateIInv, ResolvePrenoteIInv,
     VerifyMicroDepositsIInv, AbandonVerificationIInv DEF DepositNext

LEMMA DepositInvariance == DepositSpec => []DepositIInv
<1> QED
  BY DepositInitIInv, DepositNextIInv, PTL DEF DepositSpec

\* Whatever requests overlap, no verification is left without attempts and
\* pending, in the store or in a handler.
THEOREM DepositTyped == DepositSpec => []DepositTypeOK
<1>1. DepositIInv => DepositTypeOK
  BY DEF DepositIInv
<1> QED
  BY <1>1, DepositInvariance, PTL

\* A right guess among the first MaxAttempts verifies, MaxAttempts wrong ones lock,
\* and nothing after that counts.
THEOREM Decides == DepositSpec => []GuessesDecide
<1>1. DepositIInv => GuessesDecide
  BY DEF DepositIInv, Decided, GuessesDecide
<1> QED
  BY <1>1, DepositInvariance, PTL
=============================================================================
