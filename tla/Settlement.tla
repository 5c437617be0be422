----------------------------- MODULE Settlement -----------------------------
(***************************************************************************)
(* One API key's balance and the charges that settle it: recordUsage and   *)
(* settleBalance (api/keys.ts), chargeOutstanding (api/billing.ts), called *)
(* by several processes, with the payment processor at the other end of a  *)
(* network that loses requests and answers.                                *)
(*                                                                         *)
(* A payment is known by the idempotency key it was asked for with, which  *)
(* names all the key was ever billed and the balance.  A write of the      *)
(* ledger is one step: FileLock has its parts.                             *)
(***************************************************************************)
EXTENDS Integers, Sequences

CONSTANTS
    Processes,        \* each charges the key at most once at a time
    NoCharge,
    Prices,           \* what a billable call costs, in cents
    PaymentMemory,    \* payments settledPaymentIntents holds, 50 in the code
    MaxBilled         \* bound on what the key is billed in all

Payments == [billed : 1..MaxBilled, amount : 1..MaxBilled]

ASSUME SettlementAssumption ==
    /\ NoCharge \notin Payments
    /\ Prices \subseteq Nat \ {0}
    /\ PaymentMemory \in Nat \ {0}
    /\ MaxBilled \in Nat

VARIABLES
    balanceDue,
    lifetimeBilled,
    settled,          \* settledPaymentIntents, the oldest first
    charging,         \* process -> the payment it waits for (chargesInFlight)
    asked,            \* the processor's: payments it was sent
    paid,             \* the processor's: payments it collected
    refused,          \* the processor's: payments it will not make
    collected,        \* the processor's: cents it collected
    invoiced,         \* history: cents taken off to be invoiced by hand
    counted,          \* history: payment -> how often it came off the balance
    forgot,           \* history: a payment still waited for left the memory
    disorderly        \* history: asked for one payment with another undecided

vars == <<balanceDue, lifetimeBilled, settled, charging, asked, paid, refused,
          collected, invoiced, counted, forgot, disorderly>>

ledger == <<balanceDue, lifetimeBilled, settled>>

processor == <<asked, paid, refused, collected>>

history == <<invoiced, counted, forgot, disorderly>>

Settled(payment) == \E i \in 1..Len(settled) : settled[i] = payment

\* Payments that were asked for and may be, or were, made, but not taken off.
Undecided == {p \in asked \ refused : counted[p] = 0}

-----------------------------------------------------------------------------

\* The idempotency key.
Outstanding == [billed |-> lifetimeBilled, amount |-> balanceDue]

\* Mutant: what was paid comes off whatever is owed by now.
TakenOffInFull(payment) == payment.amount

\* Mutant: any payment clears the balance.
TakenOffAll(payment) == balanceDue

\* Mutant: a payment for a balance that has moved is ignored.
TakenOffUnlessMoved(payment) ==
    IF payment.billed = lifetimeBilled THEN balanceDue ELSE 0

TakenOff(payment) ==
    IF balanceDue < payment.amount THEN balanceDue ELSE payment.amount

\* The memory, and whether a process still waits for what falls out of it.
Remember(payment) ==
    /\ settled' = Append(IF Len(settled) < PaymentMemory THEN settled
                                                         ELSE Tail(settled),
                         payment)
    /\ forgot' = (forgot \/ /\ Len(settled) >= PaymentMemory
                            /\ \E q \in Processes : charging[q] = Head(settled))

Init ==
    /\ balanceDue = 0
    /\ lifetimeBilled = 0
    /\ settled = << >>
    /\ charging = [p \in Processes |-> NoCharge]
    /\ asked = {}
    /\ paid = {}
    /\ refused = {}
    /\ collected = 0
    /\ invoiced = 0
    /\ counted = [p \in Payments |-> 0]
    /\ forgot = FALSE
    /\ disorderly = FALSE

\* recordUsage() of a billable call.
RecordUsage(price) ==
    /\ lifetimeBilled + price <= MaxBilled
    /\ balanceDue' = balanceDue + price
    /\ lifetimeBilled' = lifetimeBilled + price
    /\ UNCHANGED <<settled, charging, processor, history>>

\* chargeOutstanding() up to the request: nothing else happens when the key is
\* being charged already or owes nothing.
BeginCharge(p) ==
    /\ charging[p] = NoCharge
    /\ balanceDue > 0
    /\ charging' = [charging EXCEPT ![p] = Outstanding]
    /\ asked' = asked \union {Outstanding}
    /\ disorderly' = (disorderly \/ Undecided \ {Outstanding} # {})
    /\ UNCHANGED <<ledger, paid, refused, collected, invoiced, counted, forgot>>

\* Mutant: a payment is taken off whenever it is confirmed.
SettleEveryAnswer(p) ==
    /\ charging[p] \in paid
    /\ balanceDue' = balanceDue - TakenOff(charging[p])
    /\ counted' = [counted EXCEPT ![charging[p]] = @ + 1]
    /\ Remember(charging[p])
    /\ charging' = [charging EXCEPT ![p] = NoCharge]
    /\ UNCHANGED <<lifetimeBilled, processor, invoiced, disorderly>>

\* The processor confirms: settleBalance(), unless that payment was settled.
Settle(p) ==
    /\ charging[p] \in paid
    /\ IF Settled(charging[p])
       THEN UNCHANGED <<balanceDue, settled, counted, forgot>>
       ELSE /\ balanceDue' = balanceDue - TakenOff(charging[p])
            /\ counted' = [counted EXCEPT ![charging[p]] = @ + 1]
            /\ Remember(charging[p])
    /\ charging' = [charging EXCEPT ![p] = NoCharge]
    /\ UNCHANGED <<lifetimeBilled, processor, invoiced, disorderly>>

\* The charge ends with the ledger as it is: refused, request or answer lost,
\* settleBalance() thrown, process killed.
Abandon(p) ==
    /\ charging[p] # NoCharge
    /\ charging' = [charging EXCEPT ![p] = NoCharge]
    /\ UNCHANGED <<ledger, processor, history>>

\* settleBalance() without an amount: clear the balance, to be invoiced.
SettleByHand ==
    /\ balanceDue > 0
    /\ invoiced' = invoiced + balanceDue
    /\ balanceDue' = 0
    /\ disorderly' = (disorderly \/ Undecided # {})
    /\ UNCHANGED <<lifetimeBilled, settled, charging, processor, counted, forgot>>

\* The processor decides each idempotency key once, however often and however
\* late it is asked, and answers the same ever after.
Collect(payment) ==
    /\ payment \in asked \ (paid \union refused)
    /\ paid' = paid \union {payment}
    /\ collected' = collected + payment.amount
    /\ UNCHANGED <<ledger, charging, asked, refused, history>>

Refuse(payment) ==
    /\ payment \in asked \ (paid \union refused)
    /\ refused' = refused \union {payment}
    /\ UNCHANGED <<ledger, charging, asked, paid, collected, history>>

Next ==
    \/ \E price \in Prices : RecordUsage(price)
    \/ \E p \in Processes : BeginCharge(p) \/ Settle(p) \/ Abandon(p)
    \/ SettleByHand
    \/ \E payment \in Payments : Collect(payment) \/ Refuse(payment)

Spec == Init /\ [][Next]_vars

-----------------------------------------------------------------------------

\* The ledger, the memory and the processor are of their types, the balance
\* never exceeds what was billed nor goes below zero (RecordUsage, TakenOff).
TypeOK ==
    /\ lifetimeBilled \in 0..MaxBilled
    /\ balanceDue \in 0..lifetimeBilled
    /\ settled \in Seq(Payments) /\ Len(settled) <= PaymentMemory
    /\ charging \in [Processes -> Payments \union {NoCharge}]
    /\ asked \subseteq Payments
    /\ paid \subseteq asked /\ refused \subseteq asked
    /\ collected \in Nat /\ invoiced \in Nat
    /\ counted \in [Payments -> Nat]
    /\ forgot \in BOOLEAN /\ disorderly \in BOOLEAN

\* A payment comes off the balance once at most, however many processes wait
\* for it and however often they retry, and only when it was collected.  The
\* memory must not have dropped one still waited for (keys.ts 546-550).
EachPaymentCountsOnce ==
    ~forgot => \A p \in Payments : counted[p] <= IF p \in paid THEN 1 ELSE 0

\* What was billed is still owed unless it was collected or invoiced: usage
\* recorded while a charge is under way, or by another process, is not wiped
\* out by it (settleBalance, keys.ts 551).
NothingForgiven ==
    ~forgot => lifetimeBilled <= balanceDue + collected + invoiced

\* No more is collected than was billed, whatever requests and answers are
\* lost and whoever retries, as long as no payment is asked for, and nothing
\* invoiced by hand, while another payment is undecided (chargeOutstandingOnce).
CollectedOnceInOrder ==
    ~forgot /\ ~disorderly => collected + invoiced <= lifetimeBilled

\* billing.ts 341: "Stable per outstanding-balance state, so a retry can't
\* double-charge."  A retry after a lost answer and one more call, or from
\* another process, does.
CollectedAtMostBilled == invoiced = 0 => collected <= lifetimeBilled

=============================================================================
