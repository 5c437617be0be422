---------------------------- MODULE MeterLedger ----------------------------
(***************************************************************************)
(* What usage metering promises (api/meter-queue.ts): a billable call that *)
(* was recorded is owed until Stripe has it or it is given up, to be       *)
(* invoiced by hand.  A call once billed stays billed; none is forgotten.  *)
(***************************************************************************)
CONSTANT Calls

VARIABLE status       \* call -> what became of it

Unsettled == {"owed", "givenUp"}

Init == status = [c \in Calls |-> "unrecorded"]

\* A request records several calls at once.
Record(batch) ==
    /\ batch # {}
    /\ \A c \in batch : status[c] = "unrecorded"
    /\ status' = [c \in Calls |-> IF c \in batch THEN "owed" ELSE status[c]]

\* A request on its way when the call was given up may still arrive.
Bill(c) ==
    /\ status[c] \in Unsettled
    /\ status' = [status EXCEPT ![c] = "billed"]

GiveUp(c) ==
    /\ status[c] = "owed"
    /\ status' = [status EXCEPT ![c] = "givenUp"]

Next ==
    \/ \E batch \in SUBSET Calls : Record(batch)
    \/ \E c \in Calls : Bill(c) \/ GiveUp(c)

Safety == Init /\ [][Next]_status

\* No call stays owed for ever.
Spec == Safety /\ \A c \in Calls : []<>(status[c] # "owed")

=============================================================================
