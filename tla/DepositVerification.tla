-------------------------- MODULE DepositVerification --------------------------
(***************************************************************************)
(* The verification of deposit accounts by a prenote or by micro-deposits  *)
(* (payroll/directDepositVerification.ts), behind the payroll server's     *)
(* routes (examples/payroll-server.ts).                                    *)
(*                                                                         *)
(* The store keeps one verification per account.  A route reads it, awaits *)
(* the body and saves what it makes of what it read, so another request    *)
(* may come between.  A guess is right or wrong; the dates of a prenote    *)
(* are the caller's, so a wait is over or not.                             *)
(*                                                                         *)
(* Its names are its own, for HrWorkflows_proofs extends PtoRequests too.  *)
(***************************************************************************)
EXTENDS Integers, Sequences, RequestsInFlight

CONSTANTS
    Accounts,         \* deposit accounts
    MaxAttempts,      \* MICRO_DEPOSIT_MAX_ATTEMPTS
    MaxGuesses        \* bound on guesses for one verification

ASSUME DepositVerificationAssumption ==
    /\ MaxAttempts \in Nat \ {0}
    /\ MaxGuesses \in Nat

VARIABLES
    verifications,    \* store: account -> its current verification
    guesses,          \* history: guesses for the current verification
    raced             \* history: accounts saved while another request held
                      \* what it had read

depositVars == <<verifications, requests, guesses, raced>>

Verification ==
    [method : {"none", "prenote", "micro-deposit"},
     status : {"pending", "verified", "failed"},
     attempts : Int]

NoVerification == [method |-> "none", status |-> "pending", attempts |-> 0]

Initiating(a) == [kind |-> "initiate", account |-> a]

Answering(a) == [kind |-> "answer", account |-> a, read |-> verifications[a]]

DepositInit ==
    /\ verifications = [a \in Accounts |-> NoVerification]
    /\ requests = [q \in Requests |-> Idle]
    /\ guesses = [a \in Accounts |-> <<>>]
    /\ raced = {}

-----------------------------------------------------------------------------

\* Requests in flight that hold the verification of an account.
ReadersOf(a) == {q \in Requests : requests[q].kind = "answer" /\ requests[q].account = a}

\* The route looks for the account before it awaits the body, and reads nothing
\* else.
BeginInitiate(q, a) ==
    /\ requests[q] = Idle
    /\ requests' = [requests EXCEPT ![q] = Initiating(a)]
    /\ UNCHANGED <<verifications, guesses, raced>>

\* initiatePrenoteVerification(), initiateMicroDepositVerification()
Fresh(method) ==
    [method |-> method, status |-> "pending",
     attempts |-> IF method = "prenote" THEN 0 ELSE MaxAttempts]

\* The new verification takes the place of the current one.
FinishInitiate(q, method) ==
    /\ requests[q].kind = "initiate"
    /\ LET a == requests[q].account
       IN  /\ verifications' = [verifications EXCEPT ![a] = Fresh(method)]
           /\ guesses' = [guesses EXCEPT ![a] = <<>>]
           /\ raced' = IF ReadersOf(a) = {} THEN raced \ {a} ELSE raced \union {a}
    /\ requests' = [requests EXCEPT ![q] = Idle]

BeginAnswer(q, a) ==
    /\ requests[q] = Idle
    /\ verifications[a] # NoVerification
    /\ requests' = [requests EXCEPT ![q] = Answering(a)]
    /\ UNCHANGED <<verifications, guesses, raced>>

\* What the handler makes of the verification it read takes the place of the
\* current one.
SaveAnswer(q, verification) ==
    LET a == requests[q].account
    IN  /\ verifications' = [verifications EXCEPT ![a] = verification]
        /\ raced' = IF ReadersOf(a) \ {q} # {} THEN raced \union {a} ELSE raced
        /\ requests' = [requests EXCEPT ![q] = Idle]

\* resolvePrenoteVerification(), whatever the status it read.
Resolved(verification, returned, waited) ==
    IF returned THEN [verification EXCEPT !.status = "failed"]
    ELSE IF waited THEN [verification EXCEPT !.status = "verified"]
    ELSE verification

ResolvePrenote(q, returned, waited) ==
    /\ requests[q].kind = "answer"
    /\ requests[q].read.method = "prenote"
    /\ SaveAnswer(q, Resolved(requests[q].read, returned, waited))
    /\ UNCHANGED guesses

\* Mutant: the last attempt does not lock the verification.
CheckedOneMore(verification, right) ==
    IF verification.status # "pending" THEN verification
    ELSE IF right THEN [verification EXCEPT !.status = "verified"]
    ELSE [verification EXCEPT !.attempts = @ - 1,
                              !.status = IF verification.attempts - 1 < 0
                                         THEN "failed" ELSE "pending"]

\* verifyMicroDeposits()
Checked(verification, right) ==
    IF verification.status # "pending" THEN verification
    ELSE IF right THEN [verification EXCEPT !.status = "verified"]
    ELSE [verification EXCEPT !.attempts = @ - 1,
                              !.status = IF verification.attempts - 1 <= 0
                                         THEN "failed" ELSE "pending"]

VerifyMicroDeposits(q, right) ==
    /\ requests[q].kind = "answer"
    /\ requests[q].read.method = "micro-deposit"
    /\ LET a == requests[q].account
       IN  /\ Len(guesses[a]) < MaxGuesses
           /\ guesses' = [guesses EXCEPT ![a] = Append(@, right)]
    /\ SaveAnswer(q, Checked(requests[q].read, right))

-----------------------------------------------------------------------------

\* The body is refused, never ends, or is for another kind of verification; or
\* the process stops, which loses every request in flight.
AbandonVerification(q) ==
    /\ requests[q] # Idle
    /\ requests' = [requests EXCEPT ![q] = Idle]
    /\ UNCHANGED <<verifications, guesses, raced>>

DepositNext ==
    \E q \in Requests :
        \/ \E a \in Accounts : BeginInitiate(q, a) \/ BeginAnswer(q, a)
        \/ \E method \in {"prenote", "micro-deposit"} : FinishInitiate(q, method)
        \/ \E returned, waited \in BOOLEAN : ResolvePrenote(q, returned, waited)
        \/ \E right \in BOOLEAN : VerifyMicroDeposits(q, right)
        \/ AbandonVerification(q)

DepositSpec == DepositInit /\ [][DepositNext]_depositVars

-----------------------------------------------------------------------------
(* Properties                                                              *)

DepositRequest ==
    {Idle}
      \union [kind : {"initiate"}, account : Accounts]
      \union [kind : {"answer"}, account : Accounts, read : Verification]

\* The records' fields and what the handlers hold of them; only micro-deposits
\* have attempts left, and only as long as they are pending.
DepositTypeOK ==
    /\ verifications \in [Accounts -> Verification]
    /\ \A a \in Accounts :
          LET v == verifications[a]
          IN  /\ v.attempts \in 0 .. MaxAttempts
              /\ v.method = "micro-deposit" => (v.status = "failed" <=> v.attempts = 0)
    /\ requests \in [Requests -> DepositRequest]
    /\ guesses \in [Accounts -> Seq(BOOLEAN)]
    /\ raced \subseteq Accounts

\* What the guesses so far should have made of a verification.
Verdict(guessed) ==
    IF \E i \in 1 .. Len(guessed) : i <= MaxAttempts /\ guessed[i] THEN "verified"
    ELSE IF Len(guessed) >= MaxAttempts THEN "failed"
    ELSE "pending"

\* A micro-deposit verification is verified by a right guess among the first
\* three, locked by three wrong ones and final after either, unless two requests
\* held it at once (verifyMicroDeposits, verify-micro-deposits route).
GuessesDecide ==
    \A a \in Accounts \ raced :
        verifications[a].method = "micro-deposit" =>
            verifications[a].status = Verdict(guesses[a])
=============================================================================
