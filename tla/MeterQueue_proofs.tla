------------------------- MODULE MeterQueue_proofs -------------------------
(***************************************************************************)
(* For any number of calls, flushes and aborts: the queue implements the   *)
(* ledger, a call is given up though billed only if an answer was lost,    *)
(* and what was given up is left to the operator.                          *)
(***************************************************************************)
EXTENDS MeterQueue, TLAPS

QueuedOrBilled == recorded \subseteq queue \union accepted

SendingIsOnTheList ==
    \A f \in Flushers : sending[f] # NoCall => sending[f] \in todo[f]

\* An event Stripe took is in the queue only while a flush waits for the answer
\* or after one lost it.
BilledAndQueued ==
    \A c \in queue \intersect accepted :
        c \in stray \/ \E f \in Flushers : sending[f] = c

IInv == TypeOK /\ QueuedOrBilled /\ SendingIsOnTheList /\ BilledAndQueued

-----------------------------------------------------------------------------

LEMMA InitIInv == Init => IInv
<1> QED
  BY MeterQueueAssumption DEF Init, IInv, TypeOK, QueuedOrBilled, SendingIsOnTheList,
     BilledAndQueued

LEMMA RecordIInv ==
  ASSUME IInv, NEW batch \in SUBSET Calls, Record(batch) PROVE IInv'
<1>1. TypeOK'
  BY MeterQueueAssumption DEF IInv, TypeOK, Record, flushes
<1>2. (QueuedOrBilled /\ SendingIsOnTheList)'
  BY DEF IInv, QueuedOrBilled, SendingIsOnTheList, Record, flushes
<1>3. BilledAndQueued'
  BY DEF IInv, TypeOK, BilledAndQueued, Record, flushes
<1> QED
  BY <1>1, <1>2, <1>3 DEF IInv

LEMMA BeginFlushIInv ==
  ASSUME IInv, NEW f \in Flushers, NEW events \in SUBSET Calls, BeginFlush(f, events)
  PROVE  IInv'
<1>1. events \subseteq recorded
  BY DEF IInv, TypeOK, BeginFlush, Due, Undead
<1>2. TypeOK'
  BY <1>1 DEF IInv, TypeOK, BeginFlush, store, history
<1>3. (QueuedOrBilled /\ BilledAndQueued)'
  BY DEF IInv, QueuedOrBilled, BilledAndQueued, BeginFlush, store, history
<1>4. SendingIsOnTheList'
  BY DEF IInv, TypeOK, SendingIsOnTheList, BeginFlush
<1> QED
  BY <1>2, <1>3, <1>4 DEF IInv

\* A flush is done with an event, delivered or not, and its marks change as
\* settleMeterEvent changes them.
LEMMA HandledIInv ==
  ASSUME IInv, NEW f \in Flushers, NEW c \in todo[f], Handled(f, c),
         sending[f] \in {c, NoCall},
         dead' \subseteq queue', resting' \subseteq queue',
         queue' \subseteq queue, queue \ queue' \subseteq accepted,
         stray \subseteq stray', stray' \subseteq stray \union {c},
         c \in queue' \intersect accepted =>
             c \in stray' \/ sending[f] = NoCall,
         UNCHANGED <<aged, accepted, recorded, aborts>>
  PROVE  IInv'
<1>1. /\ todo' = [todo EXCEPT ![f] = @ \ {c}]
      /\ sending' = [sending EXCEPT ![f] = NoCall]
      /\ late' = late
  BY DEF Handled
<1>2. TypeOK'
  BY <1>1 DEF IInv, TypeOK
<1>3. QueuedOrBilled'
  BY DEF IInv, QueuedOrBilled
<1>4. SendingIsOnTheList'
  BY <1>1 DEF IInv, TypeOK, SendingIsOnTheList
<1>5. BilledAndQueued'
  <2> SUFFICES ASSUME NEW d \in queue' \intersect accepted, d \notin stray'
               PROVE  \E g \in Flushers : sending'[g] = d
    BY DEF BilledAndQueued
  <2>1. PICK g \in Flushers : sending[g] = d
    BY DEF IInv, BilledAndQueued
  <2>2. d # NoCall
    BY MeterQueueAssumption DEF IInv, TypeOK
  <2>3. g # f
    BY <2>1, <2>2
  <2>4. sending'[g] = d
    BY <1>1, <2>1, <2>3 DEF IInv, TypeOK
  <2> QED
    BY <2>4
<1> QED
  BY <1>2, <1>3, <1>4, <1>5 DEF IInv

\* What settling a failure does to the marks.
LEMMA SettleFailedFacts ==
  ASSUME TypeOK, NEW c, NEW isDead \in BOOLEAN, SettleFailed(c, isDead)
  PROVE  queue' = queue /\ dead' \subseteq queue /\ resting' \subseteq queue
<1> QED
  BY DEF TypeOK, SettleFailed

LEMMA GiveUpIInv ==
  ASSUME IInv, NEW f \in Flushers, GiveUp(f) PROVE IInv'
<1>1. PICK c \in todo[f] \intersect late[f] : SettleFailed(c, TRUE) /\ Handled(f, c)
  BY DEF GiveUp
<1>2. queue' = queue /\ dead' \subseteq queue /\ resting' \subseteq queue
  BY <1>1, SettleFailedFacts DEF IInv
<1>3. UNCHANGED <<aged, accepted, stray, recorded, aborts>> /\ sending[f] = NoCall
  BY DEF GiveUp, history
<1> QED
  BY <1>1, <1>2, <1>3, HandledIInv

LEMMA SendIInv ==
  ASSUME IInv, NEW f \in Flushers, Send(f) PROVE IInv'
<1>1. PICK c \in todo[f] \ late[f] : sending' = [sending EXCEPT ![f] = c]
  BY DEF Send
<1>2. /\ sending[f] = NoCall
      /\ UNCHANGED <<queue, dead, resting, aged, todo, late, accepted, stray, recorded, aborts>>
  BY DEF Send, store, history
<1>3. TypeOK'
  BY <1>1, <1>2 DEF IInv, TypeOK
<1>4. (QueuedOrBilled /\ SendingIsOnTheList)'
  BY <1>1, <1>2 DEF IInv, TypeOK, QueuedOrBilled, SendingIsOnTheList
<1>5. BilledAndQueued'
  <2> SUFFICES ASSUME NEW d \in queue \intersect accepted, d \notin stray
               PROVE  \E g \in Flushers : sending'[g] = d
    BY <1>2 DEF BilledAndQueued
  <2>1. PICK g \in Flushers : sending[g] = d
    BY DEF IInv, BilledAndQueued
  <2>2. g # f
    BY <1>2, <2>1, MeterQueueAssumption DEF IInv, TypeOK
  <2> QED
    BY <1>1, <2>1, <2>2 DEF IInv, TypeOK
<1> QED
  BY <1>3, <1>4, <1>5 DEF IInv

LEMMA ArriveIInv ==
  ASSUME IInv, NEW c \in Calls, Arrive(c) PROVE IInv'
<1>1. c \in recorded
  BY MeterQueueAssumption DEF IInv, TypeOK, Arrive
<1>2. TypeOK'
  BY <1>1 DEF IInv, TypeOK, Arrive, store, flushes, history
<1>3. (QueuedOrBilled /\ SendingIsOnTheList)'
  BY DEF IInv, QueuedOrBilled, SendingIsOnTheList, Arrive, store, flushes, history
<1>4. BilledAndQueued'
  BY DEF IInv, BilledAndQueued, Arrive, store, flushes
<1> QED
  BY <1>2, <1>3, <1>4 DEF IInv

LEMMA ConfirmIInv ==
  ASSUME IInv, NEW f \in Flushers, Confirm(f) PROVE IInv'
<1>1. sending[f] \in accepted /\ sending[f] # NoCall
  BY MeterQueueAssumption DEF IInv, TypeOK, Confirm
<1>2. sending[f] \in todo[f] /\ Handled(f, sending[f])
  BY <1>1 DEF IInv, SendingIsOnTheList, Confirm
<1>3. /\ queue' = queue \ {sending[f]}
      /\ dead' \subseteq queue' /\ resting' \subseteq queue'
  BY DEF IInv, TypeOK, Confirm, SettleDelivered
<1>4. UNCHANGED <<aged, accepted, stray, recorded, aborts>>
  BY DEF Confirm, history
<1> QED
  BY <1>1, <1>2, <1>3, <1>4, HandledIInv

LEMMA RefuseIInv ==
  ASSUME IInv, NEW f \in Flushers, Refuse(f) PROVE IInv'
<1>1. sending[f] \in Calls /\ sending[f] # NoCall /\ sending[f] \notin accepted
  BY MeterQueueAssumption DEF Refuse
<1>2. sending[f] \in todo[f] /\ Handled(f, sending[f])
  BY <1>1 DEF IInv, SendingIsOnTheList, Refuse
<1>3. queue' = queue /\ dead' \subseteq queue /\ resting' \subseteq queue
  BY SettleFailedFacts DEF IInv, Refuse
<1>4. UNCHANGED <<aged, accepted, stray, recorded, aborts>>
  BY DEF Refuse, history
<1> QED
  BY <1>1, <1>2, <1>3, <1>4, HandledIInv

LEMMA LoseIInv ==
  ASSUME IInv, NEW f \in Flushers, Lose(f) PROVE IInv'
<1>1. sending[f] # NoCall
  BY DEF Lose
<1>2. sending[f] \in todo[f] /\ Handled(f, sending[f])
  BY <1>1 DEF IInv, SendingIsOnTheList, Lose
<1>3. queue' = queue /\ dead' \subseteq queue /\ resting' \subseteq queue
  BY SettleFailedFacts DEF IInv, Lose
<1>4. stray' = stray \union {sending[f]} /\ UNCHANGED <<aged, accepted, recorded, aborts>>
  BY DEF Lose, history
<1> QED
  BY <1>2, <1>3, <1>4, HandledIInv

LEMMA AbortIInv ==
  ASSUME IInv, NEW f \in Flushers, Abort(f) PROVE IInv'
<1>1. /\ todo' = [todo EXCEPT ![f] = {}]
      /\ late' = [late EXCEPT ![f] = {}]
      /\ sending' = [sending EXCEPT ![f] = NoCall]
      /\ stray' = stray \union ({sending[f]} \ {NoCall})
      /\ aborts < MaxAborts /\ aborts' = aborts + 1
      /\ UNCHANGED <<queue, dead, resting, aged, accepted, recorded>>
  BY DEF Abort, store
<1>2. TypeOK'
  <2>1. aborts' \in 0..MaxAborts
    BY <1>1, MeterQueueAssumption DEF IInv, TypeOK
  <2> QED
    BY <1>1, <2>1 DEF IInv, TypeOK
<1>3. (QueuedOrBilled /\ SendingIsOnTheList)'
  BY <1>1 DEF IInv, TypeOK, QueuedOrBilled, SendingIsOnTheList
<1>4. BilledAndQueued'
  <2> SUFFICES ASSUME NEW d \in queue \intersect accepted, d \notin stray'
               PROVE  \E g \in Flushers : sending'[g] = d
    BY <1>1 DEF BilledAndQueued
  <2>1. PICK g \in Flushers : sending[g] = d
    BY <1>1 DEF IInv, BilledAndQueued
  <2>2. g # f
    BY <1>1, <2>1, MeterQueueAssumption DEF IInv, TypeOK
  <2> QED
    BY <1>1, <2>1, <2>2 DEF IInv, TypeOK
<1> QED
  BY <1>2, <1>3, <1>4 DEF IInv

LEMMA TimeIInv ==
  ASSUME IInv, NEW c \in Calls, BackOffOver(c) \/ Expire(c) PROVE IInv'
<1>1. CASE BackOffOver(c)
  BY <1>1 DEF BackOffOver, IInv, TypeOK, QueuedOrBilled, SendingIsOnTheList,
     BilledAndQueued, flushes, history
<1>2. CASE Expire(c)
  BY <1>2 DEF Expire, IInv, TypeOK, QueuedOrBilled, SendingIsOnTheList,
     BilledAndQueued, store, flushes, history
<1> QED
  BY <1>1, <1>2

LEMMA StutterIInv ==
  ASSUME IInv, UNCHANGED vars PROVE IInv'
<1> QED
  BY DEF vars, IInv, TypeOK, QueuedOrBilled, SendingIsOnTheList, BilledAndQueued

LEMMA NextIInv == IInv /\ [Next]_vars => IInv'
<1> SUFFICES ASSUME IInv, [Next]_vars PROVE IInv'
  OBVIOUS
<1>1. ASSUME NEW batch \in SUBSET Calls, Record(batch) PROVE IInv'
  BY <1>1, RecordIInv
<1>2. ASSUME NEW f \in Flushers, NEW events \in SUBSET Calls, BeginFlush(f, events)
      PROVE  IInv'
  BY <1>2, BeginFlushIInv
<1>3. ASSUME NEW f \in Flushers, Proceed(f) PROVE IInv'
  BY <1>3, GiveUpIInv, SendIInv, ConfirmIInv, RefuseIInv, LoseIInv DEF Proceed
<1>4. ASSUME NEW f \in Flushers, Abort(f) PROVE IInv'
  BY <1>4, AbortIInv
<1>5. ASSUME NEW c \in Calls, Arrive(c) PROVE IInv'
  BY <1>5, ArriveIInv
<1>6. ASSUME NEW c \in Calls, BackOffOver(c) \/ Expire(c) PROVE IInv'
  BY <1>6, TimeIInv
<1>7. CASE UNCHANGED vars
  BY <1>7, StutterIInv
<1> QED
  BY <1>1, <1>2, <1>3, <1>4, <1>5, <1>6, <1>7 DEF Next

\* The strengthened invariant holds in every reachable state.
THEOREM InvariantHolds == Safety => []IInv
<1> QED
  BY InitIInv, NextIInv, PTL DEF Safety

\* Marks stay on events that are in the queue, whatever flushes overlap.
THEOREM TypeCorrect == Safety => []TypeOK
<1>1. IInv => TypeOK
  BY DEF IInv
<1> QED
  BY <1>1, InvariantHolds, PTL

\* deliverMeterEvent gives up a call that Stripe billed only if an answer was
\* lost or is on its way, for any number of flushes and aborts.
THEOREM GivenUpThoughBilled == Safety => []DeadAndBilledIfAnswerLost
<1>1. IInv => DeadAndBilledIfAnswerLost
  BY DEF IInv, TypeOK, BilledAndQueued, DeadAndBilledIfAnswerLost
<1> QED
  BY <1>1, InvariantHolds, PTL

-----------------------------------------------------------------------------

\* A step that changes none of these leaves the ledger alone.
LEMMA LedgerStutter ==
  ASSUME UNCHANGED <<queue, dead, accepted>> PROVE UNCHANGED LedgerStatus
<1> QED
  BY DEF LedgerStatus

LEMMA RecordRefines ==
  ASSUME IInv, NEW batch \in SUBSET Calls, Record(batch) PROVE Ledger!Record(batch)
<1>1. /\ queue' = queue \union batch /\ batch # {} /\ batch \intersect recorded = {}
      /\ UNCHANGED <<dead, accepted>>
  BY DEF Record
<1>2. \A c \in batch : c \notin accepted /\ c \notin dead /\ c \notin queue
  BY <1>1 DEF IInv, TypeOK
<1>3. \A c \in batch : LedgerStatus[c] = "unrecorded"
  BY <1>2 DEF LedgerStatus
<1>4. LedgerStatus' = [c \in Calls |-> IF c \in batch THEN "owed" ELSE LedgerStatus[c]]
  BY <1>1, <1>2 DEF LedgerStatus
<1> QED
  BY <1>1, <1>3, <1>4 DEF Ledger!Record

LEMMA GiveUpRefines ==
  ASSUME IInv, NEW f \in Flushers, GiveUp(f)
  PROVE  (\E c \in Calls : Ledger!GiveUp(c)) \/ UNCHANGED LedgerStatus
<1>1. PICK c \in todo[f] : SettleFailed(c, TRUE)
  BY DEF GiveUp
<1>2. /\ c \in Calls
      /\ dead' = dead \union (queue \intersect {c})
      /\ UNCHANGED <<queue, accepted>>
  BY <1>1 DEF GiveUp, SettleFailed, IInv, TypeOK
<1>3. CASE c \in queue \ (dead \union accepted)
  <2>1. LedgerStatus[c] = "owed"
    BY <1>2, <1>3 DEF LedgerStatus
  <2>2. LedgerStatus' = [LedgerStatus EXCEPT ![c] = "givenUp"]
    BY <1>2, <1>3 DEF LedgerStatus
  <2> QED
    BY <1>2, <2>1, <2>2 DEF Ledger!GiveUp
<1>4. CASE c \notin queue \ (dead \union accepted)
  <2>1. \A d \in Calls : d \in dead' \ accepted <=> d \in dead \ accepted
    BY <1>2, <1>4
  <2> QED
    BY <1>2, <2>1 DEF LedgerStatus
<1> QED
  BY <1>3, <1>4

LEMMA ArriveRefines ==
  ASSUME IInv, NEW c \in Calls, Arrive(c) PROVE Ledger!Bill(c)
<1>1. /\ accepted' = accepted \union {c} /\ c \notin accepted
      /\ UNCHANGED <<queue, dead>>
  BY DEF Arrive, store
<1>2. c \in recorded /\ c \in queue
  BY <1>1, MeterQueueAssumption DEF IInv, TypeOK, QueuedOrBilled, Arrive
<1>3. LedgerStatus[c] \in {"owed", "givenUp"}
  BY <1>1, <1>2 DEF LedgerStatus
<1>4. LedgerStatus' = [LedgerStatus EXCEPT ![c] = "billed"]
  BY <1>1 DEF LedgerStatus
<1> QED
  BY <1>3, <1>4 DEF Ledger!Bill, Ledger!Unsettled

LEMMA ConfirmRefines ==
  ASSUME NEW f \in Flushers, Confirm(f) PROVE UNCHANGED LedgerStatus
<1>1. /\ queue' = queue \ {sending[f]} /\ dead' = dead \ {sending[f]}
      /\ sending[f] \in accepted /\ accepted' = accepted
  BY DEF Confirm, SettleDelivered
<1> QED
  BY <1>1 DEF LedgerStatus

LEMMA FailureRefines ==
  ASSUME NEW f \in Flushers, Refuse(f) \/ Lose(f) PROVE UNCHANGED LedgerStatus
<1>1. UNCHANGED <<queue, dead, accepted>>
  BY DEF Refuse, Lose, SettleFailed
<1> QED
  BY <1>1, LedgerStutter

\* Every step of the queue is one of the ledger, or leaves it alone.
LEMMA StepRefines == IInv /\ [Next]_vars => [Ledger!Next]_LedgerStatus
<1> SUFFICES ASSUME IInv, [Next]_vars PROVE Ledger!Next \/ UNCHANGED LedgerStatus
  OBVIOUS
<1>1. ASSUME NEW batch \in SUBSET Calls, Record(batch)
      PROVE  Ledger!Next
  BY <1>1, RecordRefines DEF Ledger!Next
<1>2. ASSUME NEW f \in Flushers, NEW events \in SUBSET Calls, BeginFlush(f, events)
      PROVE  UNCHANGED LedgerStatus
  BY <1>2, LedgerStutter DEF BeginFlush, store
<1>3. ASSUME NEW f \in Flushers, GiveUp(f)
      PROVE  Ledger!Next \/ UNCHANGED LedgerStatus
  BY <1>3, GiveUpRefines DEF Ledger!Next
<1>4. ASSUME NEW f \in Flushers, Send(f) PROVE UNCHANGED LedgerStatus
  BY <1>4, LedgerStutter DEF Send, store
<1>5. ASSUME NEW f \in Flushers, Confirm(f) \/ Refuse(f) \/ Lose(f)
      PROVE  UNCHANGED LedgerStatus
  BY <1>5, ConfirmRefines, FailureRefines
<1>6. ASSUME NEW f \in Flushers, Abort(f) PROVE UNCHANGED LedgerStatus
  BY <1>6, LedgerStutter DEF Abort, store
<1>7. ASSUME NEW c \in Calls, Arrive(c) PROVE Ledger!Next
  BY <1>7, ArriveRefines DEF Ledger!Next
<1>8. ASSUME NEW c \in Calls, BackOffOver(c) \/ Expire(c) PROVE UNCHANGED LedgerStatus
  BY <1>8, LedgerStutter DEF BackOffOver, Expire, store
<1>9. CASE UNCHANGED vars
  BY <1>9, LedgerStutter DEF vars
<1> QED
  BY <1>1, <1>2, <1>3, <1>4, <1>5, <1>6, <1>7, <1>8, <1>9 DEF Next, Proceed

LEMMA InitRefines == Init => Ledger!Init
<1> QED
  BY DEF Init, Ledger!Init, LedgerStatus

\* The queue keeps the promises of MeterLedger: no call is forgotten, none once
\* billed is undone, none given up is owed again, whatever flushMeterQueue and
\* settleMeterEvent meet.  (That none stays owed for ever is left to TLC.)
THEOREM QueueRefinesLedger == Safety => Ledger!Safety
<1>1. Init => Ledger!Init
  BY InitRefines
<1>2. IInv /\ [Next]_vars => [Ledger!Next]_LedgerStatus
  BY StepRefines
<1> QED
  BY <1>1, <1>2, InvariantHolds, PTL DEF Safety, Ledger!Safety

-----------------------------------------------------------------------------

\* What a step at some other event leaves of one that was given up.
LEMMA OthersLeaveItAlone ==
  ASSUME IInv, NEW d \in dead \ accepted, AtRest(d), [Next]_vars
  PROVE  d \in dead' \ accepted' /\ AtRest(d)'
<1> USE DEF AtRest
<1>1. d \in Calls /\ d \in recorded /\ d # NoCall /\ d \notin Undead
      /\ \A f \in Flushers : d \notin todo[f] /\ sending[f] # d
  BY MeterQueueAssumption DEF IInv, TypeOK, SendingIsOnTheList, Undead
<1>2. ASSUME NEW batch \in SUBSET Calls, Record(batch)
      PROVE  d \in dead' \ accepted' /\ AtRest(d)'
  BY <1>1, <1>2 DEF Record, flushes
<1>3. ASSUME NEW f \in Flushers, NEW events \in SUBSET Calls, BeginFlush(f, events)
      PROVE  d \in dead' \ accepted' /\ AtRest(d)'
  <2>1. d \notin events
    BY <1>1, <1>3 DEF BeginFlush, Due
  <2> QED
    BY <1>1, <1>3, <2>1 DEF BeginFlush, store, IInv, TypeOK
<1>4. ASSUME NEW f \in Flushers, GiveUp(f)
      PROVE  d \in dead' \ accepted' /\ AtRest(d)'
  BY <1>1, <1>4 DEF GiveUp, SettleFailed, Handled, IInv, TypeOK
<1>5. ASSUME NEW f \in Flushers, Send(f)
      PROVE  d \in dead' \ accepted' /\ AtRest(d)'
  BY <1>1, <1>5 DEF Send, store
<1>6. ASSUME NEW f \in Flushers, Confirm(f)
      PROVE  d \in dead' \ accepted' /\ AtRest(d)'
  BY <1>1, <1>6 DEF Confirm, SettleDelivered, Handled, IInv, TypeOK
<1>7. ASSUME NEW f \in Flushers, Refuse(f)
      PROVE  d \in dead' \ accepted' /\ AtRest(d)'
  BY <1>1, <1>7 DEF Refuse, SettleFailed, Handled, IInv, TypeOK
<1>8. ASSUME NEW f \in Flushers, Lose(f)
      PROVE  d \in dead' \ accepted' /\ AtRest(d)'
  BY <1>1, <1>8 DEF Lose, SettleFailed, Handled, IInv, TypeOK
<1>9. ASSUME NEW f \in Flushers, Abort(f)
      PROVE  d \in dead' \ accepted' /\ AtRest(d)'
  BY <1>1, <1>9 DEF Abort, store, IInv, TypeOK
<1>10. ASSUME NEW c \in Calls, Arrive(c)
       PROVE  d \in dead' \ accepted' /\ AtRest(d)'
  BY <1>1, <1>10 DEF Arrive, store, flushes
<1>11. ASSUME NEW c \in Calls, BackOffOver(c) \/ Expire(c)
       PROVE  d \in dead' \ accepted' /\ AtRest(d)'
  BY <1>1, <1>11 DEF BackOffOver, Expire, store, flushes
<1>12. CASE UNCHANGED vars
  BY <1>1, <1>12 DEF vars
<1> QED
  BY <1>2, <1>3, <1>4, <1>5, <1>6, <1>7, <1>8, <1>9, <1>10, <1>11, <1>12
     DEF Next, Proceed

\* flushMeterQueue never takes up again what was given up and is at rest.
THEOREM NothingGivenUpIsSent == Safety => GivenUpForGood
<1>1. IInv /\ [Next]_vars =>
        [\A c \in dead \ accepted : AtRest(c) => c \in dead' \ accepted' /\ AtRest(c)']_vars
  BY OthersLeaveItAlone
<1> QED
  BY <1>1, InvariantHolds, PTL DEF Safety, GivenUpForGood

=============================================================================
