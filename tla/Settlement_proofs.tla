------------------------- MODULE Settlement_proofs -------------------------
(***************************************************************************)
(* For any number of processes, any prices and any length of memory: types *)
(* hold, a payment is taken off once, nothing that was billed is forgiven, *)
(* and charges in order collect exactly what was billed.                   *)
(***************************************************************************)
EXTENDS Settlement, TLAPS

\* A payment was asked for a balance of the past, or for one at least as large
\* as today's.
AskedForThePast ==
    \A k \in asked : /\ k.billed <= lifetimeBilled
                     /\ k.billed = lifetimeBilled => balanceDue <= k.amount

WaitedForWasAsked ==
    \A p \in Processes : charging[p] # NoCharge => charging[p] \in asked

\* What was taken off was collected, and its balance is not owed again: so the
\* next charge cannot have its idempotency key.
CountedIsPast ==
    \A k \in Payments : counted[k] > 0 =>
        /\ k \in paid
        /\ k.billed < lifetimeBilled \/ balanceDue = 0

CountedIsRemembered ==
    ~forgot => \A p \in Processes :
        charging[p] # NoCharge /\ counted[charging[p]] > 0 => Settled(charging[p])

DecidedOnce == paid \intersect refused = {}

OneUndecided ==
    ~forgot /\ ~disorderly =>
        \A j, k \in Undecided : j = k /\ k.amount <= balanceDue

\* Cents collected and invoiced, and cents owed, against cents billed.
Balanced ==
    ~forgot /\ ~disorderly =>
        /\ Undecided \intersect paid = {} =>
               collected + invoiced + balanceDue = lifetimeBilled
        /\ \A k \in Undecided \intersect paid :
               collected + invoiced + balanceDue = lifetimeBilled + k.amount

IInv ==
    /\ TypeOK
    /\ AskedForThePast
    /\ WaitedForWasAsked
    /\ CountedIsPast
    /\ CountedIsRemembered
    /\ DecidedOnce
    /\ EachPaymentCountsOnce
    /\ OneUndecided
    /\ Balanced

-----------------------------------------------------------------------------

LEMMA InitIInv == Init => IInv
<1> SUFFICES ASSUME Init PROVE IInv
  OBVIOUS
<1>1. TypeOK
  <2>1. settled \in Seq(Payments) /\ Len(settled) = 0
    BY DEF Init
  <2>2. Len(settled) <= PaymentMemory
    BY <2>1, SettlementAssumption
  <2>3. counted \in [Payments -> Nat] /\ charging \in [Processes -> Payments \union {NoCharge}]
    BY DEF Init
  <2>4. lifetimeBilled \in 0..MaxBilled /\ balanceDue \in 0..lifetimeBilled
    BY SettlementAssumption DEF Init
  <2> QED
    BY <2>1, <2>2, <2>3, <2>4 DEF Init, TypeOK
<1>2. AskedForThePast /\ WaitedForWasAsked /\ CountedIsPast
  BY DEF Init, AskedForThePast, WaitedForWasAsked, CountedIsPast
<1>3. CountedIsRemembered /\ DecidedOnce /\ EachPaymentCountsOnce
  BY DEF Init, CountedIsRemembered, DecidedOnce, EachPaymentCountsOnce
<1>4. OneUndecided /\ Balanced
  BY DEF Init, OneUndecided, Balanced, Undecided
<1> QED
  BY <1>1, <1>2, <1>3, <1>4 DEF IInv

LEMMA RecordUsageIInv ==
  ASSUME IInv, NEW price \in Prices, RecordUsage(price) PROVE IInv'
<1>1. /\ price \in Nat \ {0} /\ TypeOK
      /\ lifetimeBilled' = lifetimeBilled + price
      /\ balanceDue' = balanceDue + price
      /\ lifetimeBilled + price <= MaxBilled
      /\ UNCHANGED <<settled, charging, asked, paid, refused, collected>>
      /\ UNCHANGED <<invoiced, counted, forgot, disorderly>>
  BY SettlementAssumption DEF IInv, RecordUsage, processor, history
<1>2. TypeOK'
  BY <1>1, SettlementAssumption DEF TypeOK
<1>3. AskedForThePast'
  BY <1>1, SettlementAssumption DEF IInv, AskedForThePast, TypeOK, Payments
<1>4. CountedIsPast'
  <2> SUFFICES ASSUME NEW k \in Payments, counted[k] > 0
               PROVE  k \in paid /\ k.billed < lifetimeBilled'
    BY <1>1 DEF CountedIsPast
  <2>1. k \in paid /\ k \in asked
    BY <1>1 DEF IInv, CountedIsPast, TypeOK
  <2>2. k.billed \in Int /\ k.billed <= lifetimeBilled
    BY <2>1 DEF IInv, AskedForThePast, Payments
  <2> QED
    BY <1>1, <2>1, <2>2 DEF TypeOK
<1>5. (WaitedForWasAsked /\ CountedIsRemembered /\ DecidedOnce)'
  BY <1>1 DEF IInv, WaitedForWasAsked, CountedIsRemembered, DecidedOnce, Settled
<1>6. EachPaymentCountsOnce'
  BY <1>1 DEF IInv, EachPaymentCountsOnce
<1>7. Undecided' = Undecided /\ Undecided \subseteq Payments
  BY <1>1 DEF Undecided, TypeOK
<1>8. OneUndecided'
  BY <1>1, <1>7 DEF IInv, OneUndecided, TypeOK, Payments
<1>9. Balanced'
  <2> SUFFICES ASSUME ~forgot, ~disorderly
               PROVE  /\ Undecided \intersect paid = {} =>
                             collected + invoiced + balanceDue' = lifetimeBilled'
                      /\ \A k \in Undecided \intersect paid :
                             collected + invoiced + balanceDue' = lifetimeBilled' + k.amount
    BY <1>1, <1>7 DEF Balanced
  <2>1. \A k \in Undecided : k.amount \in Int
    BY <1>7 DEF Payments
  <2>2. balanceDue \in Int /\ lifetimeBilled \in Int /\ collected \in Int /\ invoiced \in Int
    BY <1>1 DEF TypeOK
  <2> QED
    BY <1>1, <2>1, <2>2 DEF IInv, Balanced
<1> QED
  BY <1>2, <1>3, <1>4, <1>5, <1>6, <1>8, <1>9 DEF IInv

\* The key the balance is charged under is that of no payment taken off.
LEMMA OutstandingIsNew ==
  ASSUME IInv, balanceDue > 0
  PROVE  Outstanding \in Payments /\ counted[Outstanding] = 0
<1>1. Outstanding \in Payments
  BY SettlementAssumption DEF IInv, TypeOK, Outstanding, Payments
<1>2. ~(counted[Outstanding] > 0)
  BY <1>1 DEF IInv, TypeOK, CountedIsPast, Outstanding
<1>3. counted[Outstanding] \in Nat
  BY <1>1 DEF IInv, TypeOK
<1> QED
  BY <1>1, <1>2, <1>3

LEMMA BeginChargeIInv ==
  ASSUME IInv, NEW p \in Processes, BeginCharge(p) PROVE IInv'
<1> DEFINE k == Outstanding
<1>1. /\ TypeOK
      /\ k \in Payments /\ counted[k] = 0
      /\ k.billed = lifetimeBilled /\ k.amount = balanceDue
      /\ charging' = [charging EXCEPT ![p] = k]
      /\ asked' = asked \union {k}
      /\ disorderly' = (disorderly \/ Undecided \ {k} # {})
      /\ UNCHANGED <<balanceDue, lifetimeBilled, settled, paid, refused, collected>>
      /\ UNCHANGED <<invoiced, counted, forgot>>
  BY OutstandingIsNew DEF IInv, BeginCharge, ledger, Outstanding
<1> HIDE DEF k
<1>2. TypeOK'
  BY <1>1 DEF TypeOK
<1>3. AskedForThePast'
  BY <1>1 DEF IInv, AskedForThePast, TypeOK
<1>4. WaitedForWasAsked'
  BY <1>1 DEF IInv, WaitedForWasAsked, TypeOK
<1>5. CountedIsPast' /\ EachPaymentCountsOnce' /\ DecidedOnce'
  BY <1>1 DEF IInv, CountedIsPast, EachPaymentCountsOnce, DecidedOnce
<1>6. CountedIsRemembered'
  <2> SUFFICES ASSUME ~forgot, NEW q \in Processes,
                      charging'[q] # NoCharge, counted[charging'[q]] > 0
               PROVE  Settled(charging'[q])
    BY <1>1 DEF CountedIsRemembered, Settled
  <2>1. q # p
    BY <1>1 DEF TypeOK
  <2>2. charging'[q] = charging[q]
    BY <1>1, <2>1 DEF TypeOK
  <2> QED
    BY <2>2 DEF IInv, CountedIsRemembered
<1>7. k \in Undecided \/ Undecided' = Undecided \/ Undecided' = Undecided \union {k}
  BY <1>1 DEF Undecided
<1>8. Undecided' \subseteq Undecided \union {k}
  BY <1>1 DEF Undecided
<1>9. Undecided \subseteq Undecided' /\ (k \in Undecided' => k \notin refused)
  BY <1>1 DEF Undecided
<1>10. OneUndecided'
  <2> SUFFICES ASSUME ~forgot, ~disorderly', NEW i \in Undecided', NEW j \in Undecided'
               PROVE  i = j /\ i.amount <= balanceDue
    BY <1>1 DEF OneUndecided
  <2>1. i = k /\ j = k
    BY <1>1, <1>8
  <2> QED
    BY <1>1, <2>1 DEF TypeOK
<1>11. Balanced'
  <2> SUFFICES ASSUME ~forgot, ~disorderly'
               PROVE  /\ Undecided' \intersect paid = {} =>
                             collected + invoiced + balanceDue = lifetimeBilled
                      /\ \A i \in Undecided' \intersect paid :
                             collected + invoiced + balanceDue = lifetimeBilled + i.amount
    BY <1>1 DEF Balanced
  <2>1. ~disorderly /\ Undecided \subseteq {k}
    BY <1>1
  <2>2. Undecided' \intersect paid = Undecided \intersect paid
    <3>1. CASE k \in asked
      BY <3>1, <1>1 DEF Undecided
    <3>2. CASE k \notin asked
      BY <3>2, <1>1, <1>8, <1>9 DEF TypeOK
    <3> QED
      BY <3>1, <3>2
  <2> QED
    BY <2>1, <2>2 DEF IInv, Balanced
<1> QED
  BY <1>2, <1>3, <1>4, <1>5, <1>6, <1>10, <1>11 DEF IInv

\* Memory loses its oldest payment only, and says so if it is waited for.
LEMMA RememberForgetsTheOldest ==
  ASSUME TypeOK, NEW k \in Payments, Remember(k)
  PROVE  /\ settled' \in Seq(Payments) /\ Len(settled') <= PaymentMemory
         /\ \E i \in 1..Len(settled') : settled'[i] = k
         /\ forgot' \in BOOLEAN
         /\ forgot => forgot'
         /\ ~forgot' => \A q \in Processes : Settled(charging[q]) =>
                            \E i \in 1..Len(settled') : settled'[i] = charging[q]
<1>1. settled \in Seq(Payments) /\ Len(settled) \in Nat
      /\ Len(settled) <= PaymentMemory /\ PaymentMemory \in Nat \ {0}
  BY SettlementAssumption DEF TypeOK
<1>2. forgot \in BOOLEAN /\ forgot' \in BOOLEAN /\ (forgot => forgot')
  BY DEF TypeOK, Remember
<1>3. CASE Len(settled) < PaymentMemory
  <2>1. settled' = Append(settled, k)
    BY <1>3 DEF Remember
  <2>2. settled' \in Seq(Payments) /\ Len(settled') = Len(settled) + 1
    BY <1>1, <2>1
  <2>3. \A i \in 1..Len(settled) : i \in 1..Len(settled') /\ settled'[i] = settled[i]
    BY <1>1, <2>1, <2>2
  <2>4. Len(settled') \in 1..Len(settled') /\ settled'[Len(settled')] = k
    BY <1>1, <2>1, <2>2
  <2>5. \E i \in 1..Len(settled') : settled'[i] = k
    BY <2>4
  <2>6. \A q \in Processes : Settled(charging[q]) =>
            \E i \in 1..Len(settled') : settled'[i] = charging[q]
    BY <2>3 DEF Settled
  <2> QED
    BY <1>1, <1>2, <1>3, <2>2, <2>5, <2>6
<1>4. CASE ~(Len(settled) < PaymentMemory)
  <2> DEFINE rest == Tail(settled)
  <2>1. settled' = Append(rest, k)
    BY <1>4 DEF Remember
  <2>2. rest \in Seq(Payments) /\ Len(rest) = Len(settled) - 1
        /\ \A i \in 1..Len(rest) : rest[i] = settled[i + 1]
    BY <1>1, <1>4
  <2> HIDE DEF rest
  <2>3. settled' \in Seq(Payments) /\ Len(settled') = Len(settled)
    BY <1>1, <1>4, <2>1, <2>2
  <2>4. \A i \in 1..Len(rest) : settled'[i] = settled[i + 1]
    <3>1. \A i \in 1..Len(rest) : settled'[i] = rest[i]
      BY <1>1, <2>1, <2>2
    <3> QED
      BY <2>2, <3>1
  <2>5. Len(settled') \in 1..Len(settled') /\ settled'[Len(settled')] = k
    BY <1>1, <1>4, <2>1, <2>2, <2>3
  <2>6. \E i \in 1..Len(settled') : settled'[i] = k
    BY <2>5
  <2>7. ASSUME ~forgot', NEW q \in Processes, Settled(charging[q])
        PROVE  \E i \in 1..Len(settled') : settled'[i] = charging[q]
    <3>1. PICK i \in 1..Len(settled) : settled[i] = charging[q]
      BY <2>7 DEF Settled
    <3>2. Head(settled) = settled[1]
      BY <1>1, <1>4
    <3>3. i # 1
      <4>1. Len(settled) >= PaymentMemory
        BY <1>1, <1>4
      <4>2. charging[q] # Head(settled)
        BY <2>7, <4>1, Zenon DEF Remember
      <4> QED
        BY <3>1, <3>2, <4>2
    <3>4. i - 1 \in 1..Len(rest) /\ i - 1 \in 1..Len(settled')
      BY <1>1, <2>2, <2>3, <3>1, <3>3
    <3>5. settled'[i - 1] = charging[q]
      BY <2>4, <3>1, <3>4
    <3> QED
      BY <3>4, <3>5
  <2> QED
    BY <1>1, <1>2, <2>3, <2>6, <2>7
<1> QED
  BY <1>3, <1>4

\* An answer to a payment that was settled changes nothing but the wait.
LEMMA StillWaiting ==
  ASSUME IInv, NEW p \in Processes,
         charging' = [charging EXCEPT ![p] = NoCharge],
         UNCHANGED <<ledger, processor, history>>
  PROVE  IInv'
<1>1. /\ TypeOK
      /\ UNCHANGED <<balanceDue, lifetimeBilled, settled, asked, paid, refused, collected>>
      /\ UNCHANGED <<invoiced, counted, forgot, disorderly>>
  BY DEF IInv, ledger, processor, history
<1>2. \A q \in Processes : charging'[q] # NoCharge => charging'[q] = charging[q]
  BY <1>1 DEF TypeOK
<1>3. TypeOK'
  BY <1>1 DEF TypeOK
<1>4. (AskedForThePast /\ CountedIsPast /\ DecidedOnce /\ EachPaymentCountsOnce)'
  BY <1>1 DEF IInv, AskedForThePast, CountedIsPast, DecidedOnce, EachPaymentCountsOnce
<1>5. WaitedForWasAsked'
  BY <1>1, <1>2 DEF IInv, WaitedForWasAsked
<1>6. CountedIsRemembered'
  BY <1>1, <1>2 DEF IInv, CountedIsRemembered, Settled
<1>7. (OneUndecided /\ Balanced)'
  BY <1>1 DEF IInv, OneUndecided, Balanced, Undecided
<1> QED
  BY <1>3, <1>4, <1>5, <1>6, <1>7 DEF IInv

LEMMA SettleIInv ==
  ASSUME IInv, NEW p \in Processes, Settle(p) PROVE IInv'
<1>1. CASE Settled(charging[p])
  BY <1>1, StillWaiting DEF Settle, ledger, processor, history
<1>2. CASE ~Settled(charging[p])
  <2> DEFINE k == charging[p]
  <2>1. /\ TypeOK
        /\ k \in Payments /\ k \in paid /\ k \in asked
        /\ Remember(k)
        /\ balanceDue' = balanceDue - TakenOff(k)
        /\ counted' = [counted EXCEPT ![k] = @ + 1]
        /\ charging' = [charging EXCEPT ![p] = NoCharge]
        /\ UNCHANGED <<lifetimeBilled, asked, paid, refused, collected, invoiced, disorderly>>
    BY <1>2 DEF IInv, TypeOK, Settle, processor
  <2>2. \A q \in Processes : charging'[q] # NoCharge => charging'[q] = charging[q]
    BY <2>1 DEF TypeOK
  <2>3. ~forgot => counted[k] = 0
    <3>1. SUFFICES ASSUME ~forgot, counted[k] # 0 PROVE FALSE
      OBVIOUS
    <3>2. counted[k] > 0
      BY <2>1, <3>1 DEF TypeOK
    <3>3. k # NoCharge
      BY <2>1, SettlementAssumption
    <3> QED
      BY <1>2, <3>1, <3>2, <3>3 DEF IInv, CountedIsRemembered
  <2>4. /\ settled' \in Seq(Payments) /\ Len(settled') <= PaymentMemory
        /\ \E i \in 1..Len(settled') : settled'[i] = k
        /\ forgot' \in BOOLEAN
        /\ forgot => forgot'
        /\ ~forgot' => \A q \in Processes : Settled(charging[q]) =>
                           \E i \in 1..Len(settled') : settled'[i] = charging[q]
    BY <2>1, RememberForgetsTheOldest
  <2> HIDE DEF k
  <2>5. /\ k.amount \in Nat /\ k.billed \in Nat
        /\ balanceDue \in Nat /\ lifetimeBilled \in Nat /\ balanceDue <= lifetimeBilled
    BY <2>1, SettlementAssumption DEF TypeOK, Payments
  <2>6. /\ TakenOff(k) <= k.amount /\ TakenOff(k) \in 0..balanceDue
        /\ balanceDue <= k.amount => TakenOff(k) = balanceDue
        /\ k.amount <= balanceDue => TakenOff(k) = k.amount
    BY <2>5 DEF TakenOff
  <2>7. balanceDue' \in 0..balanceDue
    BY <2>1, <2>5, <2>6
  <2>8. TypeOK'
    <3>1. balanceDue' \in 0..lifetimeBilled'
      BY <2>1, <2>5, <2>7
    <3>2. counted' \in [Payments -> Nat]
      BY <2>1 DEF TypeOK
    <3> QED
      BY <2>1, <2>4, <3>1, <3>2 DEF TypeOK
  <2>9. AskedForThePast'
    <3>1. \A j \in asked : j.amount \in Nat
      BY <2>1, SettlementAssumption DEF TypeOK, Payments
    <3> QED
      BY <2>1, <2>5, <2>7, <3>1 DEF IInv, AskedForThePast
  <2>10. CountedIsPast'
    <3> SUFFICES ASSUME NEW j \in Payments, counted'[j] > 0
                 PROVE  j \in paid /\ (j.billed < lifetimeBilled \/ balanceDue' = 0)
      BY <2>1 DEF CountedIsPast
    <3>1. CASE j = k
      <4>1. k.billed <= lifetimeBilled /\ (k.billed = lifetimeBilled => balanceDue <= k.amount)
        BY <2>1 DEF IInv, AskedForThePast
      <4>2. k.billed = lifetimeBilled => balanceDue' = 0
        BY <4>1, <2>1, <2>5, <2>6
      <4> QED
        BY <2>1, <2>5, <3>1, <4>1, <4>2
    <3>2. CASE j # k
      <4>1. counted'[j] = counted[j]
        BY <2>1, <3>2 DEF TypeOK
      <4> QED
        BY <2>5, <2>7, <4>1 DEF IInv, CountedIsPast
    <3> QED
      BY <3>1, <3>2
  <2>11. (WaitedForWasAsked /\ DecidedOnce)'
    BY <2>1, <2>2 DEF IInv, WaitedForWasAsked, DecidedOnce
  <2>12. CountedIsRemembered'
    <3> SUFFICES ASSUME ~forgot', NEW q \in Processes,
                        charging'[q] # NoCharge, counted'[charging'[q]] > 0
                 PROVE  \E i \in 1..Len(settled') : settled'[i] = charging'[q]
      BY DEF CountedIsRemembered, Settled
    <3>1. charging'[q] = charging[q] /\ charging[q] \in Payments
      BY <2>1, <2>2 DEF TypeOK
    <3>2. CASE charging[q] = k
      BY <2>4, <3>1, <3>2
    <3>3. CASE charging[q] # k
      <4>1. counted[charging[q]] > 0
        BY <2>1, <3>1, <3>3 DEF TypeOK
      <4>2. Settled(charging[q])
        BY <2>4, <3>1, <4>1 DEF IInv, CountedIsRemembered
      <4> QED
        BY <2>4, <3>1, <4>2
    <3> QED
      BY <3>2, <3>3
  <2>13. EachPaymentCountsOnce'
    <3> SUFFICES ASSUME ~forgot', NEW j \in Payments
                 PROVE  counted'[j] <= IF j \in paid THEN 1 ELSE 0
      BY <2>1 DEF EachPaymentCountsOnce
    <3>1. CASE j = k
      BY <2>1, <2>3, <2>4, <3>1 DEF TypeOK
    <3>2. CASE j # k
      BY <2>1, <2>4, <3>2 DEF IInv, EachPaymentCountsOnce, TypeOK
    <3> QED
      BY <3>1, <3>2
  <2>14. ~forgot' => k \in Undecided /\ Undecided' = Undecided \ {k}
    <3>1. SUFFICES ASSUME ~forgot' PROVE k \in Undecided /\ Undecided' = Undecided \ {k}
      OBVIOUS
    <3>2. k \notin refused
      BY <2>1 DEF IInv, DecidedOnce
    <3>3. counted[k] = 0 /\ counted'[k] = 1
      BY <2>1, <2>3, <2>4, <3>1 DEF TypeOK
    <3>4. \A j \in asked : j # k => counted'[j] = counted[j]
      BY <2>1 DEF TypeOK
    <3> QED
      BY <2>1, <3>2, <3>3, <3>4 DEF Undecided
  <2>15. OneUndecided'
    BY <2>1, <2>4, <2>14 DEF IInv, OneUndecided
  <2>16. Balanced'
    <3> SUFFICES ASSUME ~forgot', ~disorderly
                 PROVE  /\ Undecided' \intersect paid = {} =>
                               collected + invoiced + balanceDue' = lifetimeBilled
                        /\ \A j \in Undecided' \intersect paid :
                               collected + invoiced + balanceDue' = lifetimeBilled + j.amount
      BY <2>1 DEF Balanced
    <3>1. Undecided' = {} /\ k.amount <= balanceDue
      BY <2>4, <2>14 DEF IInv, OneUndecided
    <3>2. balanceDue' = balanceDue - k.amount
      BY <2>1, <2>6, <3>1
    <3>3. collected + invoiced + balanceDue = lifetimeBilled + k.amount
      BY <2>1, <2>4, <2>14 DEF IInv, Balanced
    <3>4. collected \in Nat /\ invoiced \in Nat
      BY <2>1 DEF TypeOK
    <3>5. collected + invoiced + balanceDue' = lifetimeBilled
      BY <2>5, <3>2, <3>3, <3>4
    <3> QED
      BY <3>1, <3>5
  <2> QED
    BY <2>8, <2>9, <2>10, <2>11, <2>12, <2>13, <2>15, <2>16 DEF IInv
<1> QED
  BY <1>1, <1>2

LEMMA AbandonIInv ==
  ASSUME IInv, NEW p \in Processes, Abandon(p) PROVE IInv'
<1> QED
  BY StillWaiting DEF Abandon

LEMMA SettleByHandIInv ==
  ASSUME IInv, SettleByHand PROVE IInv'
<1>1. /\ TypeOK
      /\ balanceDue' = 0 /\ invoiced' = invoiced + balanceDue
      /\ disorderly' = (disorderly \/ Undecided # {})
      /\ UNCHANGED <<lifetimeBilled, settled, charging, asked, paid, refused>>
      /\ UNCHANGED <<collected, counted, forgot>>
  BY DEF IInv, SettleByHand, processor
<1>2. TypeOK'
  BY <1>1 DEF TypeOK
<1>3. AskedForThePast'
  <2>1. \A k \in asked : k.amount >= 0
    BY <1>1, SettlementAssumption DEF TypeOK, Payments
  <2> QED
    BY <1>1, <2>1 DEF IInv, AskedForThePast
<1>4. (WaitedForWasAsked /\ CountedIsPast /\ CountedIsRemembered)'
  BY <1>1 DEF IInv, WaitedForWasAsked, CountedIsPast, CountedIsRemembered, Settled
<1>5. (DecidedOnce /\ EachPaymentCountsOnce)'
  BY <1>1 DEF IInv, DecidedOnce, EachPaymentCountsOnce
<1>6. Undecided' = Undecided
  BY <1>1 DEF Undecided
<1>7. OneUndecided'
  BY <1>1, <1>6 DEF OneUndecided
<1>8. Balanced'
  <2> SUFFICES ASSUME ~forgot, ~disorderly, Undecided = {}
               PROVE  collected + invoiced' + balanceDue' = lifetimeBilled
    BY <1>1, <1>6 DEF Balanced
  <2>1. collected + invoiced + balanceDue = lifetimeBilled
    BY DEF IInv, Balanced
  <2>2. collected \in Nat /\ invoiced \in Nat /\ balanceDue \in Nat
    BY <1>1 DEF TypeOK
  <2> QED
    BY <1>1, <2>1, <2>2
<1> QED
  BY <1>2, <1>3, <1>4, <1>5, <1>7, <1>8 DEF IInv

LEMMA CollectIInv ==
  ASSUME IInv, NEW k \in Payments, Collect(k) PROVE IInv'
<1>1. /\ TypeOK
      /\ k \in asked /\ k \notin paid /\ k \notin refused
      /\ paid' = paid \union {k} /\ collected' = collected + k.amount
      /\ UNCHANGED <<balanceDue, lifetimeBilled, settled, charging, asked, refused>>
      /\ UNCHANGED <<invoiced, counted, forgot, disorderly>>
  BY DEF IInv, Collect, ledger, history
<1>2. k.amount \in Nat
  BY SettlementAssumption DEF Payments
<1>3. TypeOK'
  <2>1. collected' \in Nat
    BY <1>1, <1>2 DEF TypeOK
  <2> QED
    BY <1>1, <2>1 DEF TypeOK
<1>4. (AskedForThePast /\ WaitedForWasAsked /\ CountedIsRemembered /\ DecidedOnce)'
  BY <1>1 DEF IInv, AskedForThePast, WaitedForWasAsked, CountedIsRemembered,
              DecidedOnce, Settled
<1>5. (CountedIsPast /\ EachPaymentCountsOnce)'
  BY <1>1 DEF IInv, CountedIsPast, EachPaymentCountsOnce, TypeOK
<1>6. k \in Undecided /\ Undecided' = Undecided
  <2>1. ~(counted[k] > 0)
    BY <1>1 DEF IInv, CountedIsPast
  <2>2. counted[k] = 0
    BY <1>1, <2>1 DEF TypeOK
  <2> QED
    BY <1>1, <2>2 DEF Undecided
<1>7. OneUndecided'
  BY <1>1, <1>6 DEF IInv, OneUndecided
<1>8. Balanced'
  <2> SUFFICES ASSUME ~forgot, ~disorderly
               PROVE  /\ Undecided \intersect paid' # {}
                      /\ \A j \in Undecided \intersect paid' :
                             collected' + invoiced + balanceDue = lifetimeBilled + j.amount
    BY <1>1, <1>6 DEF Balanced
  <2>1. Undecided = {k}
    BY <1>6 DEF IInv, OneUndecided
  <2>2. collected + invoiced + balanceDue = lifetimeBilled
    BY <1>1, <2>1 DEF IInv, Balanced
  <2>3. /\ collected \in Nat /\ invoiced \in Nat
        /\ balanceDue \in Nat /\ lifetimeBilled \in Nat
    BY <1>1 DEF TypeOK
  <2>4. collected' + invoiced + balanceDue = lifetimeBilled + k.amount
    <3>1. collected' = collected + k.amount
      BY <1>1
    <3> QED
      BY <1>2, <2>2, <2>3, <3>1
  <2> QED
    BY <1>1, <2>1, <2>4
<1> QED
  BY <1>3, <1>4, <1>5, <1>7, <1>8 DEF IInv

LEMMA RefuseIInv ==
  ASSUME IInv, NEW k \in Payments, Refuse(k) PROVE IInv'
<1>1. /\ TypeOK
      /\ k \in asked /\ k \notin paid
      /\ refused' = refused \union {k}
      /\ UNCHANGED <<balanceDue, lifetimeBilled, settled, charging, asked, paid>>
      /\ UNCHANGED <<collected, invoiced, counted, forgot, disorderly>>
  BY DEF IInv, Refuse, ledger, history
<1>2. TypeOK'
  BY <1>1 DEF TypeOK
<1>3. (AskedForThePast /\ WaitedForWasAsked /\ CountedIsPast)'
  BY <1>1 DEF IInv, AskedForThePast, WaitedForWasAsked, CountedIsPast
<1>4. (CountedIsRemembered /\ DecidedOnce /\ EachPaymentCountsOnce)'
  BY <1>1 DEF IInv, CountedIsRemembered, DecidedOnce, EachPaymentCountsOnce, Settled
<1>5. Undecided' \subseteq Undecided /\ Undecided' \intersect paid = Undecided \intersect paid
  BY <1>1 DEF Undecided
<1>6. OneUndecided'
  BY <1>1, <1>5 DEF IInv, OneUndecided
<1>7. Balanced'
  BY <1>1, <1>5 DEF IInv, Balanced
<1> QED
  BY <1>2, <1>3, <1>4, <1>6, <1>7 DEF IInv

LEMMA StutterIInv ==
  ASSUME IInv, UNCHANGED vars PROVE IInv'
<1> QED
  BY DEF vars, IInv, TypeOK, AskedForThePast, WaitedForWasAsked, CountedIsPast,
         CountedIsRemembered, DecidedOnce, EachPaymentCountsOnce, OneUndecided,
         Balanced, Undecided, Settled

LEMMA NextIInv == IInv /\ [Next]_vars => IInv'
<1> SUFFICES ASSUME IInv, [Next]_vars PROVE IInv'
  OBVIOUS
<1>1. ASSUME NEW price \in Prices, RecordUsage(price) PROVE IInv'
  BY <1>1, RecordUsageIInv
<1>2. ASSUME NEW p \in Processes, BeginCharge(p) PROVE IInv'
  BY <1>2, BeginChargeIInv
<1>3. ASSUME NEW p \in Processes, Settle(p) PROVE IInv'
  BY <1>3, SettleIInv
<1>4. ASSUME NEW p \in Processes, Abandon(p) PROVE IInv'
  BY <1>4, AbandonIInv
<1>5. CASE SettleByHand
  BY <1>5, SettleByHandIInv
<1>6. ASSUME NEW k \in Payments, Collect(k) PROVE IInv'
  BY <1>6, CollectIInv
<1>7. ASSUME NEW k \in Payments, Refuse(k) PROVE IInv'
  BY <1>7, RefuseIInv
<1>8. CASE UNCHANGED vars
  BY <1>8, StutterIInv
<1> QED
  BY <1>1, <1>2, <1>3, <1>4, <1>5, <1>6, <1>7, <1>8 DEF Next

\* The strengthened invariant holds in every reachable state.
THEOREM InvariantHolds == Spec => []IInv
<1> QED
  BY InitIInv, NextIInv, PTL DEF Spec

\* Balances stay between nothing and what was billed, whatever overlaps.
THEOREM TypeCorrect == Spec => []TypeOK
<1>1. IInv => TypeOK
  BY DEF IInv
<1> QED
  BY <1>1, InvariantHolds, PTL

\* settleBalance takes a payment off once, and only one that was collected, for
\* any number of processes and retries.
THEOREM PaymentsCountOnce == Spec => []EachPaymentCountsOnce
<1>1. IInv => EachPaymentCountsOnce
  BY DEF IInv
<1> QED
  BY <1>1, InvariantHolds, PTL

\* chargeOutstanding collects no more than was billed while payments are asked
\* for one after the other, however often each is retried.
THEOREM OrderlyChargesCollectOnce == Spec => []CollectedOnceInOrder
<1>1. IInv => CollectedOnceInOrder
  <2> SUFFICES ASSUME IInv, ~forgot, ~disorderly
               PROVE  collected + invoiced <= lifetimeBilled
    BY DEF CollectedOnceInOrder
  <2>1. /\ collected \in Nat /\ invoiced \in Nat
        /\ balanceDue \in Nat /\ lifetimeBilled \in Nat
    BY SettlementAssumption DEF IInv, TypeOK
  <2>2. CASE Undecided \intersect paid = {}
    BY <2>1, <2>2 DEF IInv, Balanced
  <2>3. CASE Undecided \intersect paid # {}
    <3>1. PICK k \in Undecided \intersect paid : TRUE
      BY <2>3
    <3>2. k.amount <= balanceDue /\ k.amount \in Nat
      BY <3>1, SettlementAssumption DEF IInv, OneUndecided, Undecided, TypeOK, Payments
    <3>3. collected + invoiced + balanceDue = lifetimeBilled + k.amount
      BY <3>1 DEF IInv, Balanced
    <3> QED
      BY <2>1, <3>2, <3>3
  <2> QED
    BY <2>2, <2>3
<1> QED
  BY <1>1, InvariantHolds, PTL

-----------------------------------------------------------------------------
(* Nothing is forgiven.  What is still owed falls short of what was billed *)
(* by no more than what was invoiced and what was collected and taken off: *)
(* the sum of the payments collected and not taken off stays in hand.      *)

\* n is what the payments of the set come to, as a measure of its subsets shows.
AmountTo(set, n) ==
    \E sum \in [SUBSET set -> Nat] :
        /\ sum[{}] = 0
        /\ \A part \in SUBSET set : \A k \in set \ part :
              sum[part \union {k}] = sum[part] + k.amount
        /\ n = sum[set]

LEMMA NothingAmountsToNothing == AmountTo({}, 0)
<1> DEFINE sum == [part \in SUBSET {} |-> 0]
<1>1. sum \in [SUBSET {} -> Nat] /\ sum[{}] = 0
  OBVIOUS
<1> QED
  BY <1>1 DEF AmountTo

LEMMA OneMore ==
  ASSUME NEW set \in SUBSET Payments, NEW n, AmountTo(set, n),
         NEW k \in Payments, k \notin set
  PROVE  n \in Nat /\ AmountTo(set \union {k}, n + k.amount)
<1> DEFINE more == set \union {k}
<1>1. PICK sum \in [SUBSET set -> Nat] :
          /\ sum[{}] = 0
          /\ \A part \in SUBSET set : \A j \in set \ part :
                sum[part \union {j}] = sum[part] + j.amount
          /\ n = sum[set]
  BY DEF AmountTo
<1>2. \A j \in Payments : j.amount \in Nat
  BY SettlementAssumption DEF Payments
<1> DEFINE all == [part \in SUBSET more |->
                      IF k \in part THEN sum[part \ {k}] + k.amount ELSE sum[part]]
<1>3. \A part \in SUBSET more :
          /\ part \ {k} \in SUBSET set
          /\ k \notin part => part \in SUBSET set
  OBVIOUS
<1>4. all \in [SUBSET more -> Nat]
  BY <1>1, <1>2, <1>3
<1>5. all[{}] = 0
  BY <1>1
<1>6. ASSUME NEW part \in SUBSET more, NEW j \in more \ part
      PROVE  all[part \union {j}] = all[part] + j.amount
  <2>1. part \union {j} \in SUBSET more
    OBVIOUS
  <2>2. CASE j = k
    <3>1. (part \union {j}) \ {k} = part /\ part \in SUBSET set
      BY <2>2
    <3> QED
      BY <2>1, <2>2, <3>1
  <2>3. CASE j # k /\ k \in part
    <3>1. /\ (part \union {j}) \ {k} = (part \ {k}) \union {j}
          /\ part \ {k} \in SUBSET set /\ j \in set \ (part \ {k})
      BY <2>3
    <3>2. sum[(part \ {k}) \union {j}] = sum[part \ {k}] + j.amount
      BY <1>1, <3>1
    <3>3. sum[part \ {k}] \in Nat /\ j.amount \in Nat /\ k.amount \in Nat
      BY <1>1, <1>2, <3>1
    <3>4. all[part \union {j}] = sum[(part \ {k}) \union {j}] + k.amount
      BY <2>1, <2>3, <3>1
    <3>5. all[part] = sum[part \ {k}] + k.amount
      BY <2>3
    <3> QED
      BY <3>2, <3>3, <3>4, <3>5
  <2>4. CASE j # k /\ k \notin part
    <3>1. part \in SUBSET set /\ j \in set \ part
      BY <2>4
    <3> QED
      BY <1>1, <2>1, <2>4, <3>1
  <2> QED
    BY <2>2, <2>3, <2>4
<1>7. all[more] = n + k.amount
  <2>1. more \ {k} = set /\ k \in more /\ more \in SUBSET more
    OBVIOUS
  <2> QED
    BY <1>1, <2>1
<1>8. n \in Nat
  BY <1>1
<1> HIDE DEF all, more
<1>9. AmountTo(more, n + k.amount)
  BY <1>4, <1>5, <1>6, <1>7 DEF AmountTo
<1> QED
  BY <1>8, <1>9 DEF more

LEMMA OneLess ==
  ASSUME NEW set \in SUBSET Payments, NEW n, AmountTo(set, n), NEW k \in set
  PROVE  n - k.amount \in Nat /\ AmountTo(set \ {k}, n - k.amount)
<1> DEFINE rest == set \ {k}
<1>1. PICK sum \in [SUBSET set -> Nat] :
          /\ sum[{}] = 0
          /\ \A part \in SUBSET set : \A j \in set \ part :
                sum[part \union {j}] = sum[part] + j.amount
          /\ n = sum[set]
  BY DEF AmountTo
<1> DEFINE some == [part \in SUBSET rest |-> sum[part]]
<1>2. /\ some \in [SUBSET rest -> Nat] /\ some[{}] = 0
      /\ \A part \in SUBSET rest : \A j \in rest \ part :
            some[part \union {j}] = some[part] + j.amount
  BY <1>1
<1>3. rest \in SUBSET set /\ k \in set \ rest /\ rest \union {k} = set
  OBVIOUS
<1>4. sum[set] = sum[rest] + k.amount
  BY <1>1, <1>3
<1>5. some[rest] = sum[rest] /\ sum[rest] \in Nat
  BY <1>1, <1>3
<1> HIDE DEF some, rest
<1>6. AmountTo(rest, sum[rest])
  BY <1>2, <1>5 DEF AmountTo
<1>7. k.amount \in Nat
  BY SettlementAssumption DEF Payments
<1>8. sum[rest] = n - k.amount
  BY <1>1, <1>4, <1>5, <1>7
<1>9. AmountTo(rest, n - k.amount)
  BY <1>6, <1>8
<1> QED
  BY <1>5, <1>8, <1>9 DEF rest

\* Payments that were collected and not taken off.
InHand == {k \in paid : counted[k] = 0}

Covered ==
    ~forgot => \E n \in Nat :
        AmountTo(InHand, n) /\ lifetimeBilled + n <= balanceDue + collected + invoiced

LEMMA InitCovered == Init => Covered
<1> SUFFICES ASSUME Init PROVE Covered
  OBVIOUS
<1>1. /\ lifetimeBilled = 0 /\ balanceDue = 0 /\ collected = 0 /\ invoiced = 0
      /\ InHand = {}
  BY DEF Init, InHand
<1> QED
  BY <1>1, NothingAmountsToNothing DEF Covered

LEMMA Cents ==
  IInv => /\ lifetimeBilled \in Int /\ balanceDue \in Int
          /\ collected \in Int /\ invoiced \in Int
BY DEF IInv, TypeOK

LEMMA CentsNext ==
  IInv' => /\ lifetimeBilled' \in Int /\ balanceDue' \in Int
           /\ collected' \in Int /\ invoiced' \in Int
BY DEF IInv, TypeOK

\* A step that leaves what is in hand as it is.
LEMMA StaysCovered ==
  ASSUME IInv, IInv', Covered, InHand' = InHand, forgot' = forgot,
         lifetimeBilled' = lifetimeBilled,
         balanceDue' + collected' + invoiced' = balanceDue + collected + invoiced
  PROVE  Covered'
<1> SUFFICES ASSUME ~forgot
             PROVE  \E n \in Nat : /\ AmountTo(InHand, n)
                                   /\ lifetimeBilled' + n <= balanceDue' + collected' + invoiced'
  BY DEF Covered, AmountTo
<1>1. PICK n \in Nat :
          AmountTo(InHand, n) /\ lifetimeBilled + n <= balanceDue + collected + invoiced
  BY DEF Covered
<1>2. lifetimeBilled + n <= balanceDue + collected + invoiced
  BY <1>1
<1>3. lifetimeBilled' + n <= balanceDue' + collected' + invoiced'
  BY <1>2, Cents, CentsNext
<1> QED
  BY <1>1, <1>3

LEMMA RecordCovered ==
  ASSUME IInv, Covered, NEW price \in Prices, RecordUsage(price) PROVE Covered'
<1>1. /\ lifetimeBilled' = lifetimeBilled + price /\ balanceDue' = balanceDue + price
      /\ UNCHANGED <<paid, counted, collected, invoiced, forgot>>
  BY DEF RecordUsage, processor, history
<1>2. InHand' = InHand
  BY <1>1 DEF InHand
<1> SUFFICES ASSUME ~forgot
             PROVE  \E n \in Nat : /\ AmountTo(InHand, n)
                                   /\ lifetimeBilled' + n <= balanceDue' + collected + invoiced
  BY <1>1, <1>2 DEF Covered, AmountTo
<1>3. PICK n \in Nat :
          AmountTo(InHand, n) /\ lifetimeBilled + n <= balanceDue + collected + invoiced
  BY DEF Covered
<1>4. price \in Int
  BY SettlementAssumption
<1>5. lifetimeBilled + n <= balanceDue + collected + invoiced
  BY <1>3
<1>6. lifetimeBilled' + n <= balanceDue' + collected + invoiced
  BY <1>1, <1>4, <1>5, Cents
<1> QED
  BY <1>3, <1>6

LEMMA CollectCovered ==
  ASSUME IInv, Covered, NEW k \in Payments, Collect(k) PROVE Covered'
<1>1. /\ TypeOK /\ k \in asked /\ k \notin paid
      /\ paid' = paid \union {k} /\ collected' = collected + k.amount
      /\ UNCHANGED <<balanceDue, lifetimeBilled, counted, forgot, invoiced>>
  BY DEF Collect, ledger, history, IInv
<1>2. counted[k] = 0
  BY <1>1 DEF IInv, CountedIsPast, TypeOK
<1>3. InHand' = InHand \union {k} /\ k \notin InHand /\ InHand \in SUBSET Payments
  BY <1>1, <1>2 DEF InHand, TypeOK
<1> SUFFICES ASSUME ~forgot
             PROVE  \E n \in Nat : /\ AmountTo(InHand', n)
                                   /\ lifetimeBilled + n <= balanceDue + collected' + invoiced
  BY <1>1 DEF Covered, AmountTo
<1>4. PICK n \in Nat :
          AmountTo(InHand, n) /\ lifetimeBilled + n <= balanceDue + collected + invoiced
  BY DEF Covered
<1>5. AmountTo(InHand \union {k}, n + k.amount)
  BY <1>3, <1>4, OneMore
<1>6. k.amount \in Nat
  BY SettlementAssumption DEF Payments
<1>7. lifetimeBilled + (n + k.amount) <= balanceDue + collected' + invoiced
  <2>1. lifetimeBilled + n <= balanceDue + collected + invoiced
    BY <1>4
  <2>2. collected' = collected + k.amount
    BY <1>1
  <2> QED
    BY <1>6, <2>1, <2>2, Cents
<1> QED
  BY <1>3, <1>5, <1>6, <1>7

LEMMA SettleCovered ==
  ASSUME IInv, IInv', Covered, NEW p \in Processes, Settle(p) PROVE Covered'
<1>1. CASE Settled(charging[p])
  <2>1. UNCHANGED <<balanceDue, lifetimeBilled, collected, invoiced, paid, counted, forgot>>
    BY <1>1 DEF Settle, processor
  <2> QED
    BY <2>1, StaysCovered DEF InHand
<1>2. CASE ~Settled(charging[p])
  <2> PICK k : k = charging[p]
    OBVIOUS
  <2>1. /\ TypeOK
        /\ k \in Payments /\ k \in paid /\ Remember(k)
        /\ balanceDue' = balanceDue - TakenOff(k)
        /\ counted' = [counted EXCEPT ![k] = @ + 1]
        /\ UNCHANGED <<lifetimeBilled, paid, collected, invoiced>>
    BY <1>2 DEF IInv, TypeOK, Settle, processor
  <2> SUFFICES ASSUME ~forgot'
               PROVE  \E n \in Nat : /\ AmountTo(InHand', n)
                                     /\ lifetimeBilled + n <= balanceDue' + collected + invoiced
    BY <2>1 DEF Covered, AmountTo
  <2>2. ~forgot
    BY <2>1 DEF Remember
  <2>3. counted[k] = 0
    <3>1. k # NoCharge
      BY <2>1, SettlementAssumption
    <3> QED
      BY <1>2, <2>1, <2>2, <3>1 DEF IInv, CountedIsRemembered, TypeOK
  <2>4. InHand' = InHand \ {k} /\ k \in InHand /\ InHand \in SUBSET Payments
    <3>1. \A j \in Payments : counted'[j] = IF j = k THEN 1 ELSE counted[j]
      BY <2>1, <2>3 DEF TypeOK
    <3>2. paid \subseteq Payments
      BY <2>1 DEF TypeOK
    <3> QED
      BY <2>1, <2>3, <3>1, <3>2 DEF InHand
  <2>5. PICK n \in Nat :
            AmountTo(InHand, n) /\ lifetimeBilled + n <= balanceDue + collected + invoiced
    BY <2>2 DEF Covered
  <2> PICK m : m = n - k.amount
    OBVIOUS
  <2>6. m \in Nat /\ AmountTo(InHand \ {k}, m)
    <3> PICK set : set = InHand
      OBVIOUS
    <3>1. set \in SUBSET Payments /\ k \in set
      BY <2>4
    <3>2. AmountTo(set, n)
      BY <2>5
    <3>3. n - k.amount \in Nat /\ AmountTo(set \ {k}, n - k.amount)
      BY <3>1, <3>2, OneLess
    <3> QED
      BY <3>3
  <2>7. k.amount \in Nat
    BY <2>1, SettlementAssumption DEF Payments
  <2>8. TakenOff(k) \in Int /\ TakenOff(k) <= k.amount
    BY <2>1, <2>7 DEF TakenOff, TypeOK
  <2>9. lifetimeBilled + m <= balanceDue' + collected + invoiced
    <3> PICK off : off = TakenOff(k)
      OBVIOUS
    <3> PICK amount : amount = k.amount
      OBVIOUS
    <3>1. off \in Int /\ amount \in Int /\ off <= amount
      BY <2>7, <2>8
    <3>2. balanceDue' = balanceDue - off /\ m = n - amount
      BY <2>1, <2>6
    <3>3. lifetimeBilled + n <= balanceDue + collected + invoiced
      BY <2>5
    <3> QED
      BY <3>1, <3>2, <3>3, Cents
  <2> QED
    BY <2>4, <2>6, <2>9
<1> QED
  BY <1>1, <1>2

LEMMA NextCovered == IInv /\ IInv' /\ Covered /\ [Next]_vars => Covered'
<1> SUFFICES ASSUME IInv, IInv', Covered, [Next]_vars PROVE Covered'
  OBVIOUS
<1>1. UNCHANGED <<lifetimeBilled, balanceDue, collected, invoiced, paid, counted, forgot>>
      => Covered'
  BY StaysCovered DEF InHand
<1>2. ASSUME NEW price \in Prices, RecordUsage(price) PROVE Covered'
  BY <1>2, RecordCovered
<1>3. ASSUME NEW p \in Processes, BeginCharge(p) \/ Abandon(p) PROVE Covered'
  BY <1>1, <1>3 DEF BeginCharge, Abandon, ledger, processor, history
<1>4. ASSUME NEW p \in Processes, Settle(p) PROVE Covered'
  BY <1>4, SettleCovered
<1>5. CASE SettleByHand
  <2>1. InHand' = InHand
    BY <1>5 DEF SettleByHand, InHand, processor
  <2>2. /\ balanceDue' = 0 /\ invoiced' = invoiced + balanceDue
        /\ UNCHANGED <<lifetimeBilled, collected, forgot>>
    BY <1>5 DEF SettleByHand, processor
  <2>3. balanceDue' + collected' + invoiced' = balanceDue + collected + invoiced
    BY <2>2, Cents
  <2> QED
    BY <2>1, <2>2, <2>3, StaysCovered
<1>6. ASSUME NEW k \in Payments, Collect(k) PROVE Covered'
  BY <1>6, CollectCovered
<1>7. ASSUME NEW k \in Payments, Refuse(k) PROVE Covered'
  BY <1>1, <1>7 DEF Refuse, ledger, history
<1>8. CASE UNCHANGED vars
  BY <1>1, <1>8 DEF vars
<1> QED
  BY <1>2, <1>3, <1>4, <1>5, <1>6, <1>7, <1>8 DEF Next

\* What was billed is owed, collected or invoiced: no charge wipes out usage that
\* is recorded beside it (settleBalance).
THEOREM BilledIsOwedOrPaid == Spec => []NothingForgiven
<1>1. IInv /\ Covered => NothingForgiven
  <2> SUFFICES ASSUME IInv, Covered, ~forgot
               PROVE  lifetimeBilled <= balanceDue + collected + invoiced
    BY DEF NothingForgiven
  <2> QED
    BY DEF Covered, IInv, TypeOK
<1>2. Init => Covered
  BY InitCovered
<1>3. IInv /\ IInv' /\ Covered /\ [Next]_vars => Covered'
  BY NextCovered
<1> QED
  BY <1>1, <1>2, <1>3, InvariantHolds, PTL DEF Spec

=============================================================================
