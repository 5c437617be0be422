----------------------------- MODULE MeterQueue -----------------------------
(***************************************************************************)
(* The queue of Stripe meter events of the self-hosted API: recordUsage,   *)
(* enqueueMeterEvent and settleMeterEvent (api/keys.ts), flushMeterQueue   *)
(* and reportCall (api/billing.ts) and the delivery rules of               *)
(* api/meter-queue.ts, with several flushes at once: one of a server's     *)
(* timer, those of reportCall, the operator's script.                      *)
(*                                                                         *)
(* A call stands for its event, whose identifier is made once and saved    *)
(* with it: Stripe takes an identifier once and calls it a duplicate after *)
(* that.  Time is two marks on an event: its back-off is over, and it is   *)
(* past the 35 days.  The order within a flush is left open.               *)
(***************************************************************************)
EXTENDS Integers

CONSTANTS
    Calls,
    Flushers,         \* each delivers one event after the other
    NoCall,
    MaxAborts         \* bound on flushes cut short

ASSUME MeterQueueAssumption ==
    /\ NoCall \notin Calls
    /\ MaxAborts \in Nat

VARIABLES
    queue,            \* calls whose event is in meterQueue
    dead,             \* those with a deadAt
    resting,          \* those that failed and whose back-off is not over
    aged,             \* recorded calls past METER_BACKDATE_LIMIT_MS
    todo,             \* flusher -> events of its snapshot it has not handled
    late,             \* flusher -> those that were aged when it started
    sending,          \* flusher -> the event it has asked Stripe to take
    accepted,         \* Stripe's: the events it took
    stray,            \* network: requests given up that may still arrive
    recorded,         \* history: calls that were recorded
    aborts            \* number of flushes cut short

vars == <<queue, dead, resting, aged, todo, late, sending, accepted, stray,
          recorded, aborts>>

store == <<queue, dead, resting>>

flushes == <<todo, late, sending>>

history == <<recorded, aborts>>

-----------------------------------------------------------------------------

Init ==
    /\ queue = {}
    /\ dead = {}
    /\ resting = {}
    /\ aged = {}
    /\ todo = [f \in Flushers |-> {}]
    /\ late = [f \in Flushers |-> {}]
    /\ sending = [f \in Flushers |-> NoCall]
    /\ accepted = {}
    /\ stray = {}
    /\ recorded = {}
    /\ aborts = 0

\* recordUsage() with meterUnits, enqueueMeterEvent(): one event per unit, all
\* in the write that records the call.
Record(batch) ==
    /\ batch # {} /\ batch \intersect recorded = {}
    /\ queue' = queue \union batch
    /\ recorded' = recorded \union batch
    /\ UNCHANGED <<dead, resting, aged, flushes, accepted, stray, aborts>>

\* Mutant: a flush does not skip what was given up.
EvenDead == queue

Undead == queue \ dead

\* isDue()
Due == Undead \ resting

\* flushMeterQueue() reads the queue and the clock once: the due events, or
\* with force all that are not dead, or with only one of those.
BeginFlush(f, events) ==
    /\ todo[f] = {}
    /\ events # {}
    /\ events \in {Due, Undead} \/ \E c \in Undead : events = {c}
    /\ todo' = [todo EXCEPT ![f] = events]
    /\ late' = [late EXCEPT ![f] = events \intersect aged]
    /\ UNCHANGED <<store, aged, sending, accepted, stray, history>>

\* Mutant: the event goes and its mark stays.
RemoveDelivered(c) ==
    /\ queue' = queue \ {c}
    /\ resting' = resting \ {c}
    /\ UNCHANGED dead

\* Mutant: what is dead is left alone.
RemoveUndead(c) ==
    /\ queue' = queue \ ({c} \ dead)
    /\ resting' = resting \ {c}
    /\ UNCHANGED dead

\* settleMeterEvent() of a delivered event.
SettleDelivered(c) ==
    /\ queue' = queue \ {c}
    /\ dead' = dead \ {c}
    /\ resting' = resting \ {c}

\* Mutant: the event goes, delivered or not.
SettleAndDrop(c, isDead) == SettleDelivered(c)

\* settleMeterEvent() of one that failed, unless it left the queue meanwhile.
SettleFailed(c, isDead) ==
    /\ resting' = resting \union (queue \intersect {c})
    /\ dead' = IF isDead THEN dead \union (queue \intersect {c}) ELSE dead
    /\ UNCHANGED queue

Handled(f, c) ==
    /\ todo' = [todo EXCEPT ![f] = @ \ {c}]
    /\ sending' = [sending EXCEPT ![f] = NoCall]
    /\ UNCHANGED late

\* deliverMeterEvent() of an event too old by the clock of the flush.
GiveUp(f) ==
    /\ sending[f] = NoCall
    /\ \E c \in todo[f] \intersect late[f] : SettleFailed(c, TRUE) /\ Handled(f, c)
    /\ UNCHANGED <<aged, accepted, stray, history>>

\* deliverMeterEvent() up to the request.
Send(f) ==
    /\ sending[f] = NoCall
    /\ \E c \in todo[f] \ late[f] : sending' = [sending EXCEPT ![f] = c]
    /\ UNCHANGED <<store, aged, todo, late, accepted, stray, history>>

\* The request reaches Stripe, in time or late.
Arrive(c) ==
    /\ c \in stray \/ \E f \in Flushers : sending[f] = c
    /\ c \notin accepted
    /\ accepted' = accepted \union {c}
    /\ UNCHANGED <<store, aged, flushes, stray, history>>

\* Stripe took it, now or before (isDuplicateMeterEvent).
Confirm(f) ==
    /\ sending[f] \in accepted
    /\ SettleDelivered(sending[f])
    /\ Handled(f, sending[f])
    /\ UNCHANGED <<aged, accepted, stray, history>>

\* Stripe refuses it.
Refuse(f) ==
    /\ sending[f] \in Calls \ accepted
    /\ SettleFailed(sending[f], FALSE)
    /\ Handled(f, sending[f])
    /\ UNCHANGED <<aged, accepted, stray, history>>

\* The request or its answer is lost.
Lose(f) ==
    /\ sending[f] # NoCall
    /\ SettleFailed(sending[f], FALSE)
    /\ Handled(f, sending[f])
    /\ stray' = stray \union {sending[f]}
    /\ UNCHANGED <<aged, accepted, history>>

\* The process is killed, or settleMeterEvent() throws and ends the flush.
Abort(f) ==
    /\ todo[f] # {}
    /\ aborts < MaxAborts
    /\ aborts' = aborts + 1
    /\ todo' = [todo EXCEPT ![f] = {}]
    /\ late' = [late EXCEPT ![f] = {}]
    /\ sending' = [sending EXCEPT ![f] = NoCall]
    /\ stray' = stray \union ({sending[f]} \ {NoCall})
    /\ UNCHANGED <<store, aged, accepted, recorded>>

\* retryDelayMs() has passed, at most an hour.
BackOffOver(c) ==
    /\ c \in resting
    /\ resting' = resting \ {c}
    /\ UNCHANGED <<queue, dead, aged, flushes, accepted, stray, history>>

\* METER_BACKDATE_LIMIT_MS has passed.
Expire(c) ==
    /\ c \in recorded \ aged
    /\ aged' = aged \union {c}
    /\ UNCHANGED <<store, flushes, accepted, stray, history>>

\* What a flush does to the event it is at.
Proceed(f) == GiveUp(f) \/ Send(f) \/ Confirm(f) \/ Refuse(f) \/ Lose(f)

Next ==
    \/ \E batch \in SUBSET Calls : Record(batch)
    \/ \E f \in Flushers, events \in SUBSET Calls : BeginFlush(f, events)
    \/ \E f \in Flushers : Proceed(f) \/ Abort(f)
    \/ \E c \in Calls : Arrive(c) \/ BackOffOver(c) \/ Expire(c)

Safety == Init /\ [][Next]_vars

\* The timer's flush of a running server.
TimerFlush == \E f \in Flushers : BeginFlush(f, Due)

Fairness ==
    /\ WF_vars(TimerFlush)
    /\ \A f \in Flushers : WF_vars(Proceed(f))
    /\ \A c \in Calls : WF_vars(BackOffOver(c)) /\ WF_vars(Expire(c))

Spec == Safety /\ Fairness

-----------------------------------------------------------------------------

\* Sets of calls, and marks only on events that are there to bear them.
TypeOK ==
    /\ recorded \subseteq Calls
    /\ queue \subseteq recorded /\ aged \subseteq recorded
    /\ dead \subseteq queue /\ resting \subseteq queue
    /\ todo \in [Flushers -> SUBSET recorded]
    /\ late \in [Flushers -> SUBSET aged]
    /\ sending \in [Flushers -> recorded \union {NoCall}]
    /\ accepted \subseteq recorded /\ stray \subseteq recorded
    /\ aborts \in 0..MaxAborts

\* The calls as the customer's bill sees them.
LedgerStatus ==
    [c \in Calls |-> IF c \in accepted THEN "billed"
                     ELSE IF c \in dead THEN "givenUp"
                     ELSE IF c \in queue THEN "owed"
                     ELSE "unrecorded"]

Ledger == INSTANCE MeterLedger WITH status <- LedgerStatus

\* Whatever fails, is cut short, arrives late or is sent by two flushes: a
\* recorded call is in the queue until Stripe has it, none stays there undecided
\* for ever, and a call given up is never owed again (flushMeterQueue,
\* settleMeterEvent).
ImplementsLedger == Ledger!Spec

\* A call to be invoiced by hand was also billed by Stripe only if an answer was
\* lost, or is still on its way (deliverMeterEvent, scripts/meter-queue.ts).
DeadAndBilledIfAnswerLost ==
    \A c \in dead \intersect accepted :
        c \in stray \/ \E f \in Flushers : sending[f] = c

\* No flush has the event on its list, no request for it is under way.
AtRest(c) == c \notin stray /\ \A f \in Flushers : c \notin todo[f]

\* Once a call was given up and is at rest, no flush takes it up again: what an
\* operator invoices by hand is not billed later (flushMeterQueue).
GivenUpForGood ==
    [][\A c \in dead \ accepted : AtRest(c) =>
           c \in dead' \ accepted' /\ AtRest(c)']_vars

=============================================================================
