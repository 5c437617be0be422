------------------------ MODULE StripeWebhook_proofs ------------------------
(***************************************************************************)
(* For any number of subscriptions, customers, events and stops inside a   *)
(* delivery: a key that was told of the end of its subscription stays      *)
(* cancelled, no webhook puts an older Checkout in place of a newer, and a *)
(* key whose events came in turn, and that no unnamed invoice of another   *)
(* subscription changed, stands as Stripe has its subscription.            *)
(***************************************************************************)
EXTENDS StripeWebhook, SequenceTheorems, TLAPS

EventRecord == [kind : Kinds, sub : Subscriptions]

\* A subscription that started has the event of its one Checkout; an end that was
\* published is final.
OneCheckoutEach ==
    /\ \A s \in Subscriptions : standing[s] # "none" => CheckoutOf(s) # {}
    /\ \A s \in Subscriptions : \A i, j \in CheckoutOf(s) : i = j
    /\ \A i \in Events :
          published[i].kind = "ended" => standing[published[i].sub] = "canceled"

\* What the key holds and what a return read has started.
HeldHasStarted ==
    /\ \A s \in Subscriptions : reading[s] # "nothing" => standing[s] # "none"
    /\ key.held # NoSub => standing[key.held] # "none"

\* The stamp is no older than the Checkout of what the key holds.
StampedSinceCheckout == \A i \in CheckoutOf(key.held) : i <= key.setAt

\* A key that was told of a Checkout holds something; one that was told of an end
\* was told of the Checkout before.
ToldInTurn ==
    /\ \A i \in seen : published[i].kind = "checkout" => key.held # NoSub
    /\ \A s \in notified : standing[s] = "canceled" /\ CheckoutOf(s) \subseteq seen

IInv ==
    /\ TypeOK
    /\ OneCheckoutEach
    /\ HeldHasStarted
    /\ StampedSinceCheckout
    /\ ToldInTurn
    /\ DeadStaysDead

-----------------------------------------------------------------------------
(* Stripe *)

\* What is published is what was published before and the new events after it.
LEMMA Published ==
  ASSUME published \in Seq(EventRecord), NEW events \in Seq(EventRecord),
         Publish(events)
  PROVE  /\ published' \in Seq(EventRecord)
         /\ Len(published') <= MaxEvents
         /\ Events \subseteq Events'
         /\ \A i \in Events : published'[i] = published[i]
         /\ \A i \in Events' \ Events :
               /\ i - Len(published) \in 1 .. Len(events)
               /\ published'[i] = events[i - Len(published)]
         /\ \A j \in 1 .. Len(events) :
               /\ Len(published) + j \in Events' \ Events
               /\ published'[Len(published) + j] = events[j]
<1> DEFINE n == Len(published)
           m == Len(events)
           joined == published \o events
<1>1. published' = joined /\ n + m <= MaxEvents
  BY DEF Publish
<1>2. n \in Nat /\ m \in Nat
  OBVIOUS
<1>3. /\ joined \in Seq(EventRecord) /\ Len(joined) = n + m
      /\ \A i \in 1 .. n + m :
            joined[i] = IF i <= n THEN published[i] ELSE events[i - n]
  BY ConcatProperties
<1>4. Events = 1 .. n /\ Events' = 1 .. n + m
  BY <1>1, <1>3 DEF Events
<1> HIDE DEF n, m, joined
<1>5. Events \subseteq Events'
  BY <1>2, <1>4
<1>6. \A i \in Events : joined[i] = published[i]
  BY <1>2, <1>3, <1>4
<1>7. \A i \in Events' \ Events : i - n \in 1 .. m /\ joined[i] = events[i - n]
  BY <1>2, <1>3, <1>4
<1>8. \A j \in 1 .. m : n + j \in Events' \ Events /\ joined[n + j] = events[j]
  BY <1>2, <1>3, <1>4
<1>9. published' \in Seq(EventRecord) /\ Len(published') <= MaxEvents
  BY <1>1, <1>3
<1> QED
  BY <1>1, <1>5, <1>6, <1>7, <1>8, <1>9 DEF n, m

LEMMA EventFields ==
  ASSUME StripeTypeOK
  PROVE  /\ published \in Seq(EventRecord)
         /\ \A i \in Events : /\ published[i].sub \in Subscriptions
                              /\ published[i].kind \in Kinds
                              /\ standing[published[i].sub] # "none"
<1>1. published \in Seq(EventRecord)
  BY DEF StripeTypeOK, EventRecord
<1>2. \A i \in Events : published[i] \in EventRecord
  BY <1>1, ElementOfSeq DEF Events
<1> QED
  BY <1>1, <1>2 DEF StripeTypeOK, EventRecord

\* How Stripe's state moves: nothing that was published or that ended changes,
\* and a Checkout is published for a subscription that had not started.
Moved ==
    /\ \A s \in Subscriptions :
          /\ standing[s] = "canceled" => standing'[s] = "canceled"
          /\ standing[s] # "none" => standing'[s] # "none"
    /\ Events \subseteq Events'
    /\ \A i \in Events : published'[i] = published[i]
    /\ \A s \in Subscriptions : standing[s] # "none" => CheckoutOf(s)' = CheckoutOf(s)

LEMMA StripeMoves ==
  ASSUME StripeTypeOK, OneCheckoutEach,
         NEW events \in Seq(EventRecord), Publish(events),
         NEW s \in Subscriptions, NEW now \in Standings \ {"none"},
         standing' = [standing EXCEPT ![s] = now],
         standing[s] = "canceled" => now = "canceled",
         customerOf' \in [Subscriptions -> Customers \union {NoCustomer}],
         \A j \in 1 .. Len(events) :
            /\ events[j].sub = s
            /\ events[j].kind = "ended" => now = "canceled"
            /\ events[j].kind = "checkout" => standing[s] = "none",
         \A j, k \in 1 .. Len(events) :
            events[j].kind = "checkout" /\ events[k].kind = "checkout" => j = k,
         standing[s] = "none" =>
            \E j \in 1 .. Len(events) : events[j].kind = "checkout"
  PROVE  StripeTypeOK' /\ OneCheckoutEach' /\ Moved
<1> DEFINE n == Len(published)
<1>1. /\ published \in Seq(EventRecord)
      /\ \A i \in Events : /\ published[i].sub \in Subscriptions
                           /\ standing[published[i].sub] # "none"
      /\ standing \in [Subscriptions -> Standings]
  BY EventFields DEF StripeTypeOK
<1>2. /\ published' \in Seq(EventRecord) /\ Len(published') <= MaxEvents
      /\ Events \subseteq Events'
      /\ \A i \in Events : published'[i] = published[i]
      /\ \A i \in Events' \ Events :
            i - n \in 1 .. Len(events) /\ published'[i] = events[i - n]
      /\ \A j \in 1 .. Len(events) :
            n + j \in Events' \ Events /\ published'[n + j] = events[j]
  BY <1>1, Published
<1>3. n \in Nat /\ Events' \subseteq Nat
  BY <1>1 DEF Events
<1>4. /\ standing' \in [Subscriptions -> Standings] /\ standing'[s] = now
      /\ \A t \in Subscriptions : t # s => standing'[t] = standing[t]
  BY <1>1
<1> HIDE DEF n
<1>5. \A i \in Events' \ Events :
          /\ published'[i].sub = s
          /\ published'[i].kind = "ended" => now = "canceled"
          /\ published'[i].kind = "checkout" => standing[s] = "none"
  BY <1>2
<1>6. \A i \in Events' : standing'[published'[i].sub] # "none"
  BY <1>1, <1>2, <1>4, <1>5
<1>7. StripeTypeOK'
  BY <1>2, <1>4, <1>6 DEF StripeTypeOK, EventRecord
<1>8. ASSUME NEW t \in Subscriptions, standing[t] # "none"
      PROVE  CheckoutOf(t)' = CheckoutOf(t)
  BY <1>2, <1>5, <1>8 DEF CheckoutOf, About
<1>9. Moved
  BY <1>2, <1>4, <1>8 DEF Moved
<1>10. ASSUME NEW t \in Subscriptions, standing'[t] # "none"
       PROVE  CheckoutOf(t)' # {}
  <2>1. CASE standing[t] # "none"
    BY <1>8, <2>1 DEF OneCheckoutEach
  <2>2. CASE standing[t] = "none"
    <3>1. t = s
      BY <1>4, <1>10, <2>2
    <3>2. PICK j \in 1 .. Len(events) : events[j].kind = "checkout"
      BY <2>2, <3>1
    <3>3. n + j \in CheckoutOf(t)'
      BY <1>2, <1>5, <3>1, <3>2 DEF CheckoutOf, About
    <3> QED
      BY <3>3
  <2> QED
    BY <2>1, <2>2
<1>11. ASSUME NEW t \in Subscriptions, NEW i \in CheckoutOf(t)', NEW k \in CheckoutOf(t)'
       PROVE  i = k
  <2>1. CASE standing[t] # "none"
    BY <1>8, <2>1 DEF OneCheckoutEach
  <2>2. CASE standing[t] = "none"
    <3>1. \A x \in CheckoutOf(t)' : /\ x \in Events' \ Events
                                    /\ published'[x].kind = "checkout"
      <4>1. \A x \in CheckoutOf(t)' : /\ x \in Events' /\ published'[x].sub = t
                                      /\ published'[x].kind = "checkout"
        BY DEF CheckoutOf, About
      <4> QED
        BY <1>1, <1>2, <2>2, <4>1
    <3>2. i - n = k - n
      BY <1>2, <3>1
    <3>3. i \in Nat /\ k \in Nat
      BY <1>3, <3>1
    <3> HIDE DEF n
    <3> QED
      BY <1>3, <3>2, <3>3
  <2> QED
    BY <2>1, <2>2
<1>12. \A i \in Events' :
          published'[i].kind = "ended" => standing'[published'[i].sub] = "canceled"
  BY <1>1, <1>2, <1>4, <1>5 DEF OneCheckoutEach
<1>13. OneCheckoutEach'
  BY <1>10, <1>11, <1>12 DEF OneCheckoutEach
<1> QED
  BY <1>7, <1>9, <1>13

LEMMA CheckoutAtStripe ==
  ASSUME StripeTypeOK, OneCheckoutEach, NEW c \in Customers,
         NEW s \in Subscriptions, CompleteCheckout(c, s)
  PROVE  StripeTypeOK' /\ OneCheckoutEach' /\ Moved
<1> DEFINE done == Event("checkout", s)
           paid == Event("paid", s)
<1>1. /\ done \in EventRecord /\ done.sub = s /\ done.kind = "checkout"
      /\ paid \in EventRecord /\ paid.sub = s /\ paid.kind = "paid"
  BY DEF Event, EventRecord, Kinds
<1>2. Publish(<<done, paid>>)
  BY <1>1 DEF CompleteCheckout
<1>3. /\ standing' = [standing EXCEPT ![s] = "active"]
      /\ standing[s] = "none"
      /\ customerOf' = [customerOf EXCEPT ![s] = c]
  BY DEF CompleteCheckout
<1>4. customerOf' \in [Subscriptions -> Customers \union {NoCustomer}]
  BY <1>3 DEF StripeTypeOK
<1> HIDE DEF done, paid
<1> DEFINE both == <<done, paid>>
<1>5. /\ both \in Seq(EventRecord) /\ Len(both) = 2
      /\ both[1] = done /\ both[2] = paid /\ Publish(both)
  BY <1>1, <1>2
<1> HIDE DEF both
<1>6. \A j \in 1 .. Len(both) : j = 1 \/ j = 2
  BY <1>5
<1>7. \A j, k \in 1 .. Len(both) :
          both[j].kind = "checkout" /\ both[k].kind = "checkout" => j = k
  BY <1>1, <1>2, <1>5, <1>6
<1>8. \E j \in 1 .. Len(both) : both[j].kind = "checkout"
  BY <1>1, <1>2, <1>5
<1>9. \A j \in 1 .. Len(both) : /\ both[j].sub = s
                                /\ both[j].kind # "ended"
  <2>1. \A e \in {done, paid} : e.sub = s /\ e.kind # "ended"
    BY <1>1
  <2> QED
    BY <1>5, <1>6, <2>1
<1> QED
  BY <1>3, <1>4, <1>5, <1>7, <1>8, <1>9, StripeMoves DEF Standings

LEMMA StepAtStripe ==
  ASSUME StripeTypeOK, OneCheckoutEach, NEW s \in Subscriptions,
         StripeStep(s, {"paid", "active"})
  PROVE  StripeTypeOK' /\ OneCheckoutEach' /\ Moved
<1>1. ASSUME NEW kind \in Kinds \ {"checkout"}, NEW now \in Standings \ {"none"},
             Publish(<<Event(kind, s)>>), UNCHANGED customerOf,
             standing' = [standing EXCEPT ![s] = now],
             standing[s] # "none",
             standing[s] = "canceled" => now = "canceled",
             kind = "ended" => now = "canceled"
      PROVE  StripeTypeOK' /\ OneCheckoutEach' /\ Moved
  <2> DEFINE events == <<Event(kind, s)>>
  <2>1. customerOf' \in [Subscriptions -> Customers \union {NoCustomer}]
    BY <1>1 DEF StripeTypeOK
  <2>2. /\ Event(kind, s) \in EventRecord
        /\ Event(kind, s).sub = s /\ Event(kind, s).kind = kind
    BY DEF Event, EventRecord
  <2>3. /\ events \in Seq(EventRecord)
        /\ Len(events) = 1 /\ events[1] = Event(kind, s)
    BY <2>2
  <2>4. Publish(events)
    BY <1>1
  <2> HIDE DEF events
  <2>5. \A j \in 1 .. Len(events) :
            /\ j = 1 /\ events[j].sub = s /\ events[j].kind # "checkout"
            /\ events[j].kind = "ended" => now = "canceled"
    BY <1>1, <2>2, <2>3
  <2> QED
    BY <1>1, <2>1, <2>3, <2>4, <2>5, StripeMoves
<1>2. CASE FailInvoice(s)
  BY <1>1, <1>2 DEF FailInvoice, Standings, Kinds
<1>3. CASE \E kind \in {"paid", "active"} : PayInvoice(s, kind)
  <2>1. PICK kind \in {"paid", "active"} : PayInvoice(s, kind)
    BY <1>3
  <2>2. kind \in Kinds \ {"checkout"} /\ kind # "ended"
    BY DEF Kinds
  <2> QED
    BY <1>1, <2>1, <2>2 DEF PayInvoice, Standings
<1>4. CASE EndSubscription(s)
  BY <1>1, <1>4 DEF EndSubscription, Standings, Kinds
<1>5. CASE PayFinalInvoice(s)
  <2>1. standing' = [standing EXCEPT ![s] = "canceled"]
    BY <1>5 DEF PayFinalInvoice, StripeTypeOK
  <2> QED
    BY <1>1, <1>5, <2>1 DEF PayFinalInvoice, Standings, Kinds
<1> QED
  BY <1>2, <1>3, <1>4, <1>5 DEF StripeStep

LEMMA StripeStays ==
  ASSUME StripeTypeOK, OneCheckoutEach, UNCHANGED stripe
  PROVE  /\ StripeTypeOK' /\ OneCheckoutEach' /\ Moved
         /\ Events' = Events
         /\ \A s : CheckoutOf(s)' = CheckoutOf(s)
<1>1. UNCHANGED <<standing, customerOf, published>>
  BY DEF stripe
<1>2. StripeTypeOK' /\ Events' = Events
  BY <1>1 DEF StripeTypeOK, Events
<1>3. \A s : CheckoutOf(s)' = CheckoutOf(s)
  BY <1>1, <1>2 DEF CheckoutOf, About
<1>4. OneCheckoutEach'
  BY <1>1, <1>2, <1>3 DEF OneCheckoutEach
<1>5. Moved
  BY <1>1, <1>2, <1>3 DEF Moved
<1> QED
  BY <1>2, <1>3, <1>4, <1>5

-----------------------------------------------------------------------------
(* The key *)

THEOREM InitIInv == Init => IInv
<1> SUFFICES ASSUME Init PROVE IInv
  OBVIOUS
<1>1. /\ published = <<>> /\ Events = {}
      /\ <<>> \in Seq(EventRecord)
      /\ Now = 1
  BY DEF Init, StripeInit, Events, Now
<1>2. StripeTypeOK
  BY <1>1, StripeAssumption DEF Init, StripeInit, StripeTypeOK, EventRecord, Standings
<1>3. key \in Key
  BY StripeAssumption DEF Init, Key
<1>4. TypeOK
  BY <1>1, <1>2, <1>3, StripeWebhookAssumption DEF Init, TypeOK
<1>5. \A s : CheckoutOf(s) = {}
  BY <1>1 DEF CheckoutOf, About
<1> QED
  BY <1>1, <1>4, <1>5 DEF Init, StripeInit, IInv, OneCheckoutEach, HeldHasStarted,
     StampedSinceCheckout, ToldInTurn, DeadStaysDead

LEMMA NoCheckoutOfNothing ==
  ASSUME StripeTypeOK' PROVE CheckoutOf(NoSub)' = {}
<1>1. published' \in Seq(EventRecord)
  BY DEF StripeTypeOK, EventRecord
<1>2. \A i \in Events' : published'[i] \in EventRecord
  BY <1>1, ElementOfSeq DEF Events
<1> QED
  BY <1>2, StripeWebhookAssumption DEF CheckoutOf, About, EventRecord

\* A step that leaves the key and what it was told as they are.
LEMMA KeyStays ==
  ASSUME IInv, StripeTypeOK', OneCheckoutEach', Moved,
         key' \in Key,
         key'.held = key.held, key'.setAt = key.setAt,
         key'.suspended = key.suspended, key'.cancelled = key.cancelled,
         UNCHANGED <<seen, notified, revived, off, crashes>>,
         creating' \subseteq Customers, pages' \subseteq Customers,
         reading' \in [Subscriptions -> {"nothing", "unknown", "alive"}],
         \A s \in Subscriptions : reading'[s] # "nothing" =>
             reading[s] # "nothing" \/ standing[s] # "none"
  PROVE  IInv'
<1>1. TypeOK'
  BY DEF IInv, TypeOK, Moved
<1>2. key.held \in Subscriptions \union {NoSub}
  BY DEF IInv, TypeOK, Key
<1>3. HeldHasStarted'
  BY <1>2 DEF IInv, HeldHasStarted, Moved
<1>4. StampedSinceCheckout'
  <2>1. CASE key.held = NoSub
    <3>1. CheckoutOf(NoSub)' = {}
      BY NoCheckoutOfNothing
    <3> QED
      BY <2>1, <3>1 DEF StampedSinceCheckout
  <2>2. CASE key.held \in Subscriptions
    BY <2>2, StripeWebhookAssumption
       DEF IInv, HeldHasStarted, StampedSinceCheckout, Moved
  <2> QED
    BY <1>2, <2>1, <2>2
<1>5. ToldInTurn'
  BY DEF IInv, TypeOK, ToldInTurn, Moved
<1>6. DeadStaysDead'
  BY DEF IInv, DeadStaysDead
<1> QED
  BY <1>1, <1>3, <1>4, <1>5, <1>6 DEF IInv

LEMMA SetupIInv ==
  ASSUME IInv, OpenPage \/ \E c \in Customers : StartSetup(c)
  PROVE  IInv'
<1>1. /\ UNCHANGED <<stripe, key, seen, reading, history>>
      /\ creating' \subseteq Customers /\ pages' \subseteq Customers
  <2>1. CASE OpenPage
    BY <2>1 DEF OpenPage, IInv, TypeOK, Key
  <2>2. CASE \E c \in Customers : StartSetup(c)
    BY <2>2 DEF StartSetup, IInv, TypeOK
  <2> QED
    BY <2>1, <2>2
<1>2. StripeTypeOK' /\ OneCheckoutEach' /\ Moved
  BY <1>1, StripeStays DEF IInv, TypeOK
<1> QED
  BY <1>1, <1>2, KeyStays DEF IInv, TypeOK, history

LEMMA FinishSetupIInv ==
  ASSUME IInv, NEW c \in Customers, FinishSetup(c) PROVE IInv'
<1>1. StripeTypeOK' /\ OneCheckoutEach' /\ Moved
  BY StripeStays DEF IInv, TypeOK, FinishSetup
<1>2. /\ key' \in Key
      /\ key'.held = key.held /\ key'.setAt = key.setAt
      /\ key'.suspended = key.suspended /\ key'.cancelled = key.cancelled
  BY DEF FinishSetup, IInv, TypeOK, Key
<1>3. creating' \subseteq Customers /\ pages' \subseteq Customers
  BY DEF FinishSetup, IInv, TypeOK
<1> QED
  BY <1>1, <1>2, <1>3, KeyStays DEF FinishSetup, IInv, TypeOK, history

LEMMA StripeIInv ==
  ASSUME IInv, NEW s \in Subscriptions,
         UNCHANGED <<key, creating, pages, seen, reading, history>>,
         \/ \E c \in Customers : CompleteCheckout(c, s)
         \/ StripeStep(s, {"paid", "active"})
  PROVE  IInv'
<1>1. StripeTypeOK' /\ OneCheckoutEach' /\ Moved
  BY CheckoutAtStripe, StepAtStripe DEF IInv, TypeOK
<1> QED
  BY <1>1, KeyStays DEF IInv, TypeOK, history

LEMMA ReadSubscriptionIInv ==
  ASSUME IInv, NEW s \in Subscriptions, ReadSubscription(s) PROVE IInv'
<1>1. StripeTypeOK' /\ OneCheckoutEach' /\ Moved
  BY StripeStays DEF IInv, TypeOK, ReadSubscription
<1>2. /\ standing[s] # "none"
      /\ \E r \in {"unknown", "alive"} : reading' = [reading EXCEPT ![s] = r]
  BY DEF ReadSubscription
<1>3. /\ reading' \in [Subscriptions -> {"nothing", "unknown", "alive"}]
      /\ \A t \in Subscriptions : t # s => reading'[t] = reading[t]
  BY <1>2 DEF IInv, TypeOK
<1> QED
  BY <1>1, <1>2, <1>3, KeyStays DEF ReadSubscription, IInv, TypeOK, history

-----------------------------------------------------------------------------
(* Writes of the key *)

\* What a write of the key keeps of the invariant.
Keeps ==
    /\ key' \in Key
    /\ key.held # NoSub => key'.held # NoSub
    /\ key'.held # NoSub => standing[key'.held] # "none"
    /\ \A i \in CheckoutOf(key'.held) : i <= key'.setAt
    /\ notified' \subseteq Subscriptions
    /\ \A s \in notified' : standing[s] = "canceled" /\ CheckoutOf(s) \subseteq seen
    /\ key'.held \in notified' \ revived' => key'.suspended /\ key'.cancelled

\* The key goes from an older Checkout to a newer one, or stays.
Onwards ==
    \A i \in CheckoutOf(key.held), j \in CheckoutOf(key'.held) : i <= j

LEMMA CheckoutsAreEvents ==
  ASSUME IInv
  PROVE  /\ CheckoutOf(NoSub) = {}
         /\ \A s \in Subscriptions : \A i \in CheckoutOf(s) :
               i \in Events /\ i \in Nat /\ i < Now /\ published[i].kind = "checkout"
         /\ \A i \in Events : i \in 0 .. (MaxEvents + 1)
         /\ Now \in 0 .. (MaxEvents + 1)
<1>1. /\ published \in Seq(EventRecord) /\ Len(published) <= MaxEvents
      /\ \A i \in Events : published[i].sub \in Subscriptions
  BY EventFields DEF IInv, TypeOK, StripeTypeOK
<1>2. CheckoutOf(NoSub) = {}
  BY <1>1, StripeWebhookAssumption DEF CheckoutOf, About
<1>3. Len(published) \in Nat
  BY <1>1
<1>4. /\ \A i \in Events : i \in Nat /\ i < Now /\ i \in 0 .. (MaxEvents + 1)
      /\ Now \in 0 .. (MaxEvents + 1)
  BY <1>1, <1>3, StripeAssumption DEF Events, Now
<1> QED
  BY <1>2, <1>4 DEF CheckoutOf, About

\* The key holds what it was told of, so a subscription whose end it was told of
\* is one that it knows is dead or one that another took the place of.
LEMMA ToldOfHeld ==
  ASSUME IInv, NEW s \in Subscriptions, key.held \in {NoSub, s}, s \in notified
  PROVE  key.held = s
<1>1. CheckoutOf(s) # {} /\ CheckoutOf(s) \subseteq seen
  BY DEF IInv, ToldInTurn, OneCheckoutEach
<1>2. \A i \in CheckoutOf(s) : published[i].kind = "checkout"
  BY CheckoutsAreEvents
<1> QED
  BY <1>1, <1>2 DEF IInv, ToldInTurn

\* A write that leaves held and setAt alone and no dead key alive.
LEMMA SameHeldKeeps ==
  ASSUME IInv, key' \in Key, key'.held = key.held, key'.setAt = key.setAt,
         key.suspended /\ key.cancelled => key'.suspended /\ key'.cancelled,
         notified' = notified, revived' = revived
  PROVE  Keeps /\ Onwards
<1>1. Keeps
  BY DEF Keeps, IInv, TypeOK, HeldHasStarted, StampedSinceCheckout, ToldInTurn,
     DeadStaysDead
<1>2. key.held \in Subscriptions \union {NoSub}
  BY DEF IInv, TypeOK, Key
<1>3. \A i, j \in CheckoutOf(key.held) : i = j /\ i \in Nat
  BY <1>2, CheckoutsAreEvents DEF IInv, OneCheckoutEach
<1> QED
  BY <1>1, <1>3 DEF Onwards

LEMMA HoldsFields ==
  ASSUME NEW k \in Key, NEW s \in Subscriptions, NEW at \in 0 .. (MaxEvents + 1)
  PROVE  /\ Holds(k, s, at) \in Key
         /\ Holds(k, s, at).held = s /\ Holds(k, s, at).setAt = at
         /\ k.held = s => /\ Holds(k, s, at).suspended = k.suspended
                          /\ Holds(k, s, at).cancelled = k.cancelled
BY DEF Holds, Key

LEMMA LiftFields ==
  ASSUME NEW k \in Key
  PROVE  /\ Lift(k) \in Key
         /\ Lift(k).held = k.held /\ Lift(k).setAt = k.setAt
         /\ Lift(k).cancelled = k.cancelled
         /\ k.suspended /\ k.cancelled => Lift(k).suspended
BY DEF Lift, Key

\* An event that takes its subscription's place in the key, from a Checkout that
\* is no older.
LEMMA HoldingKeeps ==
  ASSUME IInv, NEW s \in Subscriptions, standing[s] # "none",
         key' \in Key, key'.held = s,
         \A i \in CheckoutOf(s) : i <= key'.setAt,
         s \notin notified, notified' = notified, revived' = revived,
         \A i \in CheckoutOf(key.held), j \in CheckoutOf(s) : i <= j
  PROVE  Keeps /\ Onwards
<1>1. Keeps
  BY StripeWebhookAssumption DEF Keeps, IInv, TypeOK, ToldInTurn
<1> QED
  BY <1>1 DEF Onwards

LEMMA CheckoutKeeps ==
  ASSUME IInv, NEW i \in Events, i \notin seen, ApplyCheckout(i), revived' = revived
  PROVE  Keeps /\ Onwards /\ key'.held # NoSub
<1> DEFINE s == published[i].sub
           k == [key EXCEPT !.customer = customerOf[s]]
<1>1. s \in Subscriptions /\ standing[s] # "none" /\ i \in CheckoutOf(s)
  BY EventFields DEF IInv, TypeOK, ApplyCheckout, CheckoutOf, About
<1>2. k \in Key /\ k.held = key.held
  BY <1>1 DEF IInv, TypeOK, StripeTypeOK, Key
<1>3. notified' = notified
  BY DEF ApplyCheckout
<1>4. CASE StaleCheckout(i)
  <2>1. key' = key
    BY <1>4 DEF ApplyCheckout
  <2> QED
    BY <1>3, <1>4, <2>1, SameHeldKeeps DEF StaleCheckout, IInv, TypeOK
<1>5. CASE ~StaleCheckout(i)
  <2>1. key' = Holds(k, s, i)
    BY <1>5 DEF ApplyCheckout
  <2>2. i \in 0 .. (MaxEvents + 1)
    BY CheckoutsAreEvents
  <2> HIDE DEF k, s
  <2>3. key' \in Key /\ key'.held = s /\ key'.setAt = i
    BY <1>1, <1>2, <2>1, <2>2, HoldsFields
  <2>4. \A j \in CheckoutOf(s) : j = i
    BY <1>1 DEF IInv, OneCheckoutEach
  <2>5. s \notin notified
    BY <1>1 DEF IInv, ToldInTurn
  <2>6. ASSUME NEW j \in CheckoutOf(key.held) PROVE j <= i
    <3>1. CASE key.held = NoSub
      BY <2>6, <3>1, CheckoutsAreEvents
    <3>2. CASE key.held = s
      BY <2>2, <2>4, <2>6, <3>2
    <3>3. CASE key.held \in Subscriptions \ {s}
      <4>1. ~(i < key.setAt)
        BY <1>5, <3>3, StripeWebhookAssumption DEF StaleCheckout, s
      <4>2. j <= key.setAt /\ j \in Nat
        BY <2>6, <3>3, CheckoutsAreEvents DEF IInv, StampedSinceCheckout
      <4>3. key.setAt \in Nat /\ i \in Nat
        BY <2>2, StripeAssumption DEF IInv, TypeOK, Key
      <4> QED
        BY <4>1, <4>2, <4>3
    <3> QED
      BY <3>1, <3>2, <3>3 DEF IInv, TypeOK, Key
  <2>7. Keeps /\ Onwards
    BY <1>1, <1>3, <2>2, <2>3, <2>4, <2>5, <2>6, HoldingKeeps
  <2> QED
    BY <1>1, <2>3, <2>7, StripeWebhookAssumption
<1> QED
  BY <1>4, <1>5

LEMMA ActiveKeeps ==
  ASSUME IInv, NEW i \in Events, NEW named \in BOOLEAN, MayBe(named, i),
         ApplyActive(i, named), revived' = revived
  PROVE  Keeps /\ Onwards
<1> DEFINE s == published[i].sub
<1>1. s \in Subscriptions /\ standing[s] # "none" /\ key \in Key /\ notified' = notified
  BY EventFields DEF IInv, TypeOK, ApplyActive
<1>2. CASE ~Concerns(i, named)
  <2>1. key' = key
    BY <1>2 DEF ApplyActive
  <2> QED
    BY <1>1, <2>1, SameHeldKeeps
<1>3. CASE Concerns(i, named) /\ key.cancelled
  <2>1. key' = Lift(key)
    BY <1>3 DEF ApplyActive
  <2> QED
    BY <1>1, <2>1, LiftFields, SameHeldKeeps
<1>4. CASE Concerns(i, named) /\ ~key.cancelled
  <2>1. key' = Holds(Lift(key), s, Now) /\ key.held \in {NoSub, s}
    BY <1>4 DEF ApplyActive, Concerns, MayBe
  <2> HIDE DEF s
  <2>2. key' \in Key /\ key'.held = s /\ key'.setAt = Now
    BY <1>1, <2>1, LiftFields, HoldsFields, CheckoutsAreEvents
  <2>3. \A j \in CheckoutOf(s) : j <= key'.setAt
    <3>1. \A j \in CheckoutOf(s) : j \in Nat /\ j < Now
      BY <1>1, CheckoutsAreEvents
    <3>2. Now \in Int
      BY CheckoutsAreEvents
    <3> QED
      BY <2>2, <3>1, <3>2
  <2>4. CASE s \in notified
    <3>1. key.held = s
      BY <1>1, <2>1, <2>4, ToldOfHeld
    <3>2. key'.suspended = Lift(key).suspended /\ key'.cancelled = key.cancelled
      BY <1>1, <2>1, <3>1, LiftFields, HoldsFields, CheckoutsAreEvents
    <3>3. s \notin notified \ revived
      BY <1>4, <3>1 DEF IInv, DeadStaysDead
    <3>4. \A j, l \in CheckoutOf(s) : j = l /\ j \in Nat
      BY <1>1, CheckoutsAreEvents DEF IInv, OneCheckoutEach
    <3>5. Onwards
      BY <2>2, <3>1, <3>4 DEF Onwards
    <3>6. Keeps
      BY <1>1, <2>2, <2>3, <3>3, StripeWebhookAssumption DEF Keeps, IInv, TypeOK, ToldInTurn
    <3> QED
      BY <3>5, <3>6
  <2>5. CASE s \notin notified
    <3>1. \A j \in CheckoutOf(key.held), l \in CheckoutOf(s) : j <= l
      <4>1. CASE key.held = NoSub
        BY <4>1, CheckoutsAreEvents
      <4>2. CASE key.held = s
        <5>1. \A j, l \in CheckoutOf(s) : j = l /\ j \in Nat
          BY <1>1, CheckoutsAreEvents DEF IInv, OneCheckoutEach
        <5> QED
          BY <4>2, <5>1
      <4> QED
        BY <2>1, <4>1, <4>2
    <3> QED
      BY <1>1, <2>2, <2>3, <2>5, <3>1, HoldingKeeps
  <2> QED
    BY <2>4, <2>5
<1> QED
  BY <1>2, <1>3, <1>4

LEMMA PaidKeeps ==
  ASSUME IInv, NEW i \in Events, NEW named \in BOOLEAN, MayBe(named, i),
         ApplyPaid(i, named), revived' = revived
  PROVE  Keeps /\ Onwards
<1>1. key \in Key /\ notified' = notified
  BY DEF IInv, TypeOK, ApplyPaid
<1>2. key' = Lift(key) \/ key' = key
  BY DEF ApplyPaid
<1> QED
  BY <1>1, <1>2, LiftFields, SameHeldKeeps

LEMMA FailedKeeps ==
  ASSUME IInv, NEW i \in Events, NEW named \in BOOLEAN, MayBe(named, i),
         ApplyFailed(i, named), revived' = revived
  PROVE  Keeps /\ Onwards
<1>1. key \in Key /\ notified' = notified
  BY DEF IInv, TypeOK, ApplyFailed
<1>2. key' = [key EXCEPT !.suspended = TRUE] \/ key' = key
  BY DEF ApplyFailed
<1>3. /\ key' \in Key /\ key'.held = key.held /\ key'.setAt = key.setAt
      /\ key.suspended /\ key.cancelled => key'.suspended /\ key'.cancelled
  BY <1>1, <1>2 DEF Key
<1> QED
  BY <1>1, <1>3, SameHeldKeeps

LEMMA EndedKeeps ==
  ASSUME IInv, NEW i \in Events, NEW named \in BOOLEAN, MayBe(named, i),
         ApplyEnded(i, named), revived' = revived
  PROVE  Keeps /\ Onwards
<1> DEFINE s == published[i].sub
<1>1. s \in Subscriptions /\ standing[s] = "canceled" /\ key \in Key
  BY EventFields DEF IInv, TypeOK, ApplyEnded, OneCheckoutEach
<1>2. CASE ~Concerns(i, named)
  <2>1. key' = key /\ notified' = notified
    BY <1>2 DEF ApplyEnded
  <2> QED
    BY <1>1, <2>1, SameHeldKeeps
<1>3. CASE Concerns(i, named)
  <2>1. /\ key' = [key EXCEPT !.suspended = TRUE, !.cancelled = TRUE]
        /\ notified' \in {notified, notified \union {s}}
        /\ notified' = notified \/ CheckoutOf(s) \subseteq seen
    BY <1>3 DEF ApplyEnded
  <2>2. /\ key' \in Key /\ key'.held = key.held /\ key'.setAt = key.setAt
        /\ key'.suspended /\ key'.cancelled
    BY <1>1, <2>1 DEF Key
  <2> HIDE DEF s
  <2>3. \A t \in notified' : standing[t] = "canceled" /\ CheckoutOf(t) \subseteq seen
    BY <1>1, <2>1 DEF IInv, ToldInTurn
  <2>4. Keeps
    BY <1>1, <2>1, <2>2, <2>3 DEF Keeps, IInv, TypeOK, HeldHasStarted, StampedSinceCheckout
  <2>5. key.held \in Subscriptions \union {NoSub}
    BY DEF IInv, TypeOK, Key
  <2>6. \A j, l \in CheckoutOf(key.held) : j = l /\ j \in Nat
    BY <2>5, CheckoutsAreEvents DEF IInv, OneCheckoutEach
  <2> QED
    BY <2>2, <2>4, <2>6 DEF Onwards
<1> QED
  BY <1>2, <1>3

LEMMA HalfKeeps ==
  ASSUME IInv, NEW i \in Events, NEW named \in BOOLEAN, MayBe(named, i),
         ApplyHalf(i, named), revived' = revived
  PROVE  Keeps /\ Onwards
<1> DEFINE c == customerOf[published[i].sub]
<1>1. key \in Key /\ notified' = notified /\ c \in Customers \union {NoCustomer}
  BY EventFields DEF IInv, TypeOK, StripeTypeOK, ApplyHalf
<1>2. key' = [key EXCEPT !.customer = c] \/ key' = Lift(key)
  BY DEF ApplyHalf
<1> HIDE DEF c
<1>3. CASE key' = Lift(key)
  BY <1>1, <1>3, LiftFields, SameHeldKeeps
<1>4. CASE key' = [key EXCEPT !.customer = c]
  <2>1. /\ key' \in Key /\ key'.held = key.held /\ key'.setAt = key.setAt
        /\ key'.suspended = key.suspended /\ key'.cancelled = key.cancelled
    BY <1>1, <1>4 DEF Key
  <2> QED
    BY <1>1, <2>1, SameHeldKeeps
<1> QED
  BY <1>2, <1>3, <1>4

\* A step that writes the key, with Stripe as it is.
LEMMA KeepsIInv ==
  ASSUME IInv, Keeps, UNCHANGED stripe,
         seen' \subseteq Events, seen \subseteq seen',
         \A i \in seen' \ seen : published[i].kind = "checkout" => key'.held # NoSub,
         creating' = creating, pages' = pages,
         reading' \in [Subscriptions -> {"nothing", "unknown", "alive"}],
         \A s \in Subscriptions : reading'[s] # "nothing" => reading[s] # "nothing",
         revived' \subseteq Subscriptions, off' \subseteq Subscriptions,
         crashes' \in 0 .. MaxCrashes
  PROVE  IInv'
<1>1. /\ StripeTypeOK' /\ OneCheckoutEach' /\ Events' = Events
      /\ \A s : CheckoutOf(s)' = CheckoutOf(s)
      /\ UNCHANGED <<standing, published>>
  BY StripeStays DEF IInv, TypeOK, stripe
<1>2. TypeOK'
  BY <1>1 DEF IInv, TypeOK, Keeps
<1>3. HeldHasStarted'
  BY <1>1 DEF IInv, HeldHasStarted, Keeps
<1>4. StampedSinceCheckout'
  <2>1. CheckoutOf(key.held)' = CheckoutOf(key'.held)
    BY <1>1 DEF CheckoutOf, About
  <2> QED
    BY <2>1 DEF StampedSinceCheckout, Keeps
<1>5. ToldInTurn'
  BY <1>1 DEF IInv, ToldInTurn, Keeps
<1>6. DeadStaysDead'
  BY DEF DeadStaysDead, Keeps
<1> QED
  BY <1>1, <1>2, <1>3, <1>4, <1>5, <1>6 DEF IInv

LEMMA EventKeeps ==
  ASSUME IInv, NEW i \in Events, NEW named \in BOOLEAN, MayBe(named, i),
         i \notin seen, ApplyEvent(i, named), revived' = revived
  PROVE  /\ Keeps /\ Onwards
         /\ published[i].kind = "checkout" => key'.held # NoSub
<1>1. CASE ApplyCheckout(i)
  BY <1>1, CheckoutKeeps
<1>2. CASE ApplyPaid(i, named)
  BY <1>2, PaidKeeps DEF ApplyPaid
<1>3. CASE ApplyActive(i, named)
  BY <1>3, ActiveKeeps DEF ApplyActive
<1>4. CASE ApplyFailed(i, named)
  BY <1>4, FailedKeeps DEF ApplyFailed
<1>5. CASE ApplyEnded(i, named)
  BY <1>5, EndedKeeps DEF ApplyEnded
<1> QED
  BY <1>1, <1>2, <1>3, <1>4, <1>5 DEF ApplyEvent

LEMMA NoteTurnType ==
  ASSUME IInv, NEW i \in Events, NEW named \in BOOLEAN, MayBe(named, i),
         ApplyEvent(i, named) \/ ApplyHalf(i, named), NoteTurn(i, named)
  PROVE  off' \subseteq Subscriptions
<1>1. published[i].sub \in Subscriptions
  BY EventFields DEF IInv, TypeOK
<1>2. Mistaken(i, named) \subseteq Subscriptions
  <2>1. ASSUME ~named, ~ItsOwn(i), key' # key PROVE key.held \in Subscriptions
    <3>1. key.customer = customerOf[published[i].sub]
      BY <2>1 DEF ApplyEvent, ApplyHalf, ApplyCheckout, ApplyPaid, ApplyActive,
         ApplyFailed, ApplyEnded, MayBe, Concerns
    <3> QED
      BY <2>1, <3>1 DEF ItsOwn, IInv, TypeOK, Key
  <2> QED
    BY <2>1 DEF Mistaken
<1>3. off' \subseteq off \union Mistaken(i, named) \union {published[i].sub}
  BY DEF NoteTurn
<1> QED
  BY <1>1, <1>2, <1>3 DEF IInv, TypeOK

LEMMA DeliverIInv ==
  ASSUME IInv, NEW i \in Events, NEW named \in BOOLEAN, Deliver(i, named) PROVE IInv' /\ Onwards
<1>1. /\ i \notin seen /\ ApplyEvent(i, named) /\ seen' = seen \union {i}
      /\ MayBe(named, i) /\ NoteTurn(i, named)
      /\ UNCHANGED <<stripe, creating, pages, reading, revived, crashes>>
  BY DEF Deliver
<1>2. /\ Keeps /\ Onwards
      /\ published[i].kind = "checkout" => key'.held # NoSub
  BY <1>1, EventKeeps
<1>3. off' \subseteq Subscriptions
  BY <1>1, NoteTurnType
<1>4. /\ seen' \subseteq Events /\ seen \subseteq seen'
      /\ \A j \in seen' \ seen : published[j].kind = "checkout" => key'.held # NoSub
  BY <1>1, <1>2 DEF IInv, TypeOK
<1> QED
  BY <1>1, <1>2, <1>3, <1>4, KeepsIInv DEF IInv, TypeOK

LEMMA DeliverAndCrashIInv ==
  ASSUME IInv, NEW i \in Events, NEW named \in BOOLEAN, DeliverAndCrash(i, named)
  PROVE  IInv' /\ Onwards
<1>1. /\ i \notin seen /\ (ApplyEvent(i, named) \/ ApplyHalf(i, named))
      /\ MayBe(named, i) /\ NoteTurn(i, named)
      /\ crashes < MaxCrashes /\ crashes' = crashes + 1
      /\ UNCHANGED <<stripe, creating, pages, seen, reading, revived>>
  BY DEF DeliverAndCrash
<1>2. Keeps /\ Onwards
  BY <1>1, EventKeeps, HalfKeeps
<1>3. off' \subseteq Subscriptions
  BY <1>1, NoteTurnType
<1>4. crashes' \in 0 .. MaxCrashes
  BY <1>1, StripeWebhookAssumption DEF IInv, TypeOK
<1> QED
  BY <1>1, <1>2, <1>3, <1>4, KeepsIInv DEF IInv, TypeOK

LEMMA StoreSubscriptionIInv ==
  ASSUME IInv, NEW s \in Subscriptions, StoreSubscription(s) PROVE IInv'
<1> DEFINE k == [key EXCEPT !.customer = customerOf[s]]
<1>1. /\ MayStore(s) /\ key' = Holds(k, s, Now)
      /\ UNCHANGED <<stripe, seen, creating, pages, notified, crashes>>
      /\ reading' = [reading EXCEPT ![s] = "nothing"]
      /\ revived' = IF reading[s] = "alive" /\ standing[s] = "canceled"
                    THEN revived \union {s} ELSE revived
      /\ off' \in {off, off \union {s}}
  BY DEF StoreSubscription
<1>2. /\ k \in Key /\ k.held = key.held
      /\ k.suspended = key.suspended /\ k.cancelled = key.cancelled
  BY DEF IInv, TypeOK, StripeTypeOK, Key
<1> HIDE DEF k
<1>3. /\ key' \in Key /\ key'.held = s /\ key'.setAt = Now
      /\ key.held = s => key'.suspended = key.suspended /\ key'.cancelled = key.cancelled
  BY <1>1, <1>2, HoldsFields, CheckoutsAreEvents
<1>4. standing[s] # "none"
  BY <1>1 DEF MayStore, IInv, HeldHasStarted
<1>5. \A i \in CheckoutOf(s) : i <= key'.setAt
  <2>1. \A j \in CheckoutOf(s) : j \in Nat /\ j < Now
    BY CheckoutsAreEvents
  <2>2. Now \in Int
    BY CheckoutsAreEvents
  <2> QED
    BY <1>3, <2>1, <2>2
<1>6. ASSUME s \in notified \ revived' PROVE key'.suspended /\ key'.cancelled
  <2>1. standing[s] = "canceled" /\ s \notin revived
    BY <1>1, <1>6 DEF IInv, ToldInTurn
  <2>2. key.held \in {NoSub, s}
    BY <1>1, <1>6, <2>1 DEF MayStore
  <2>3. key.held = s
    BY <1>6, <2>2, ToldOfHeld
  <2> QED
    BY <1>3, <1>6, <2>1, <2>3 DEF IInv, DeadStaysDead
<1>7. Keeps
  BY <1>1, <1>3, <1>4, <1>5, <1>6, StripeWebhookAssumption
     DEF Keeps, IInv, TypeOK, ToldInTurn
<1>8. /\ reading' \in [Subscriptions -> {"nothing", "unknown", "alive"}]
      /\ \A t \in Subscriptions : reading'[t] # "nothing" => reading[t] # "nothing"
      /\ revived' \subseteq Subscriptions /\ off' \subseteq Subscriptions
  BY <1>1 DEF IInv, TypeOK
<1> QED
  BY <1>1, <1>7, <1>8, KeepsIInv DEF IInv, TypeOK

-----------------------------------------------------------------------------
(* The key and Stripe.  For a subscription whose events came in turn, the  *)
(* key says what Stripe said when it published one of them: the last that  *)
(* the key was told of, or the next one, when the process stopped in the   *)
(* middle of its delivery.                                                 *)

\* The events about s other than that of its Checkout.
ChargesOf(s) == About(s) \ CheckoutOf(s)

\* What Stripe said of the subscription when it published i.
EndedBy(s, i) == \E j \in About(s) : j <= i /\ published[j].kind = "ended"

StandingAt(i) ==
    IF EndedBy(published[i].sub, i) THEN "canceled"
    ELSE IF published[i].kind = "failed" THEN "past_due" ELSE "active"

Reflects(i) ==
    /\ key.suspended <=> StandingAt(i) # "active"
    /\ key.cancelled <=> StandingAt(i) = "canceled"

\* What Stripe says is what it said with its last event, and a subscription does
\* not end with its first one.
StandingIsLatest ==
    \A s \in Subscriptions :
        /\ standing[s] # "none" => ChargesOf(s) # {}
        /\ standing[s] = "canceled" =>
              \E i \in ChargesOf(s) : published[i].kind = "ended"
        /\ \A i \in ChargesOf(s) :
              /\ (\A j \in ChargesOf(s) : j <= i) => standing[s] = StandingAt(i)
              /\ published[i].kind = "ended" => \E j \in ChargesOf(s) : j < i

\* i is the last charge of s that the key was told of, or the one after it.
IsNextOrLast(s, i) == \A j \in ChargesOf(s) \ {i} : j < i <=> j \in seen

KeyFollows ==
    \A s \in Subscriptions \ off :
        /\ ChargesOf(s) \intersect seen # {} => CheckoutOf(s) \subseteq seen
        /\ key.held = s =>
              IF ChargesOf(s) \intersect seen = {}
              THEN ~key.cancelled
              ELSE \E i \in ChargesOf(s) : Reflects(i) /\ IsNextOrLast(s, i)

InTurn == StandingIsLatest /\ KeyFollows

\* What publishing leaves of the charges and of what was said with them.
ChargesGrow ==
    /\ \A s : ChargesOf(s)' \intersect Events = ChargesOf(s)
    /\ \A i \in Events : StandingAt(i)' = StandingAt(i)
    /\ \A i \in Events : \A j \in Events' \ Events : i < j

LEMMA ChargesAreEvents ==
  ASSUME StripeTypeOK
  PROVE  /\ Events \subseteq Nat
         /\ \A s : /\ ChargesOf(s) \subseteq Events
                   /\ \A i \in ChargesOf(s) : /\ published[i].sub = s
                                              /\ published[i].kind # "checkout"
<1>1. published \in Seq(EventRecord)
  BY DEF StripeTypeOK, EventRecord
<1> QED
  BY <1>1 DEF ChargesOf, CheckoutOf, About, Events

\* Stripe publishes events about s, the last of them a charge, and then says of s
\* what that charge says.
LEMMA StandingFollows ==
  ASSUME StripeTypeOK, OneCheckoutEach, StandingIsLatest,
         NEW events \in Seq(EventRecord), Publish(events),
         NEW s \in Subscriptions, NEW now,
         standing' = [standing EXCEPT ![s] = now],
         Len(events) # 0,
         \A j \in 1 .. Len(events) :
            /\ events[j].sub = s
            /\ events[j].kind # "checkout" <=> j = Len(events),
         events[Len(events)].kind = "ended" => standing[s] # "none",
         now = IF standing[s] = "canceled" \/ events[Len(events)].kind = "ended"
               THEN "canceled"
               ELSE IF events[Len(events)].kind = "failed" THEN "past_due" ELSE "active"
  PROVE  StandingIsLatest' /\ ChargesGrow
<1> DEFINE n == Len(published)
           m == Len(events)
<1>1. /\ published \in Seq(EventRecord)
      /\ standing \in [Subscriptions -> Standings]
      /\ n \in Nat /\ m \in Nat \ {0}
  BY EventFields DEF StripeTypeOK
<1>2. /\ published' \in Seq(EventRecord)
      /\ Events \subseteq Events'
      /\ \A i \in Events : published'[i] = published[i]
      /\ \A i \in Events' \ Events :
            i - n \in 1 .. m /\ published'[i] = events[i - n]
      /\ \A j \in 1 .. m : n + j \in Events' \ Events /\ published'[n + j] = events[j]
  BY <1>1, Published
<1>3. Events = 1 .. n /\ Events' = 1 .. Len(published') /\ Len(published') \in Nat
  BY <1>2 DEF Events
<1>4. /\ standing'[s] = now
      /\ \A t \in Subscriptions \ {s} : standing'[t] = standing[t]
  BY <1>1
<1> HIDE DEF n, m
<1> PICK last : last = n + m
  OBVIOUS
<1>5. /\ last \in Events' \ Events /\ published'[last] = events[m]
      /\ \A i \in Events' \ Events :
            /\ published'[i].sub = s
            /\ published'[i].kind # "checkout" <=> i = last
            /\ i \in Nat /\ i <= last
      /\ \A i \in Events : i \in Nat /\ \A j \in Events' \ Events : i < j
  <2>1. m \in 1 .. m
    BY <1>1
  <2>2. ASSUME NEW i \in Events' \ Events
        PROVE  /\ published'[i].sub = s
               /\ published'[i].kind # "checkout" <=> i = last
               /\ i \in Nat /\ i <= last /\ n < i
    <3>1. /\ i - n \in 1 .. m /\ published'[i] = events[i - n]
          /\ i \in Nat
      BY <1>2, <1>3, <2>2
    <3>2. /\ published'[i].sub = s
          /\ published'[i].kind # "checkout" <=> i - n = m
      BY <3>1 DEF m
    <3> QED
      BY <1>1, <3>1, <3>2
  <2>3. \A i \in Events : i \in Nat /\ i <= n
    BY <1>1, <1>3
  <2>4. \A i \in Events : \A j \in Events' \ Events : i < j
    BY <1>1, <2>2, <2>3
  <2> QED
    BY <1>2, <2>1, <2>2, <2>3, <2>4
<1>6. /\ \A t : About(t) \subseteq About(t)'
      /\ \A t : \A i \in About(t)' : i \notin About(t) => t = s /\ i \in Events' \ Events
      /\ \A t : About(t)' \intersect Events = About(t)
  BY <1>2, <1>5 DEF About
<1>7. \A t : ChargesOf(t)' = IF t = s THEN ChargesOf(s) \union {last} ELSE ChargesOf(t)
  <2> SUFFICES ASSUME NEW t
               PROVE  ChargesOf(t)' = IF t = s THEN ChargesOf(s) \union {last}
                                      ELSE ChargesOf(t)
    OBVIOUS
  <2>1. \A i : i \in ChargesOf(t)' <=>
            i \in Events' /\ published'[i].sub = t /\ published'[i].kind # "checkout"
    BY DEF ChargesOf, CheckoutOf, About
  <2>2. \A i : i \in ChargesOf(t) <=>
            i \in Events /\ published[i].sub = t /\ published[i].kind # "checkout"
    BY DEF ChargesOf, CheckoutOf, About
  <2>3. \A i \in Events : i \in ChargesOf(t)' <=> i \in ChargesOf(t)
    BY <1>2, <2>1, <2>2
  <2>4. \A i \in Events' \ Events : i \in ChargesOf(t)' <=> t = s /\ i = last
    BY <1>5, <2>1
  <2>5. \A i : i \in ChargesOf(t)' <=> i \in ChargesOf(t) \/ (t = s /\ i = last)
    BY <1>2, <1>5, <2>1, <2>2, <2>3, <2>4
  <2> QED
    BY <2>5
<1>8. \A i \in Events : StandingAt(i)' = StandingAt(i)
  <2> SUFFICES ASSUME NEW i \in Events PROVE StandingAt(i)' = StandingAt(i)
    OBVIOUS
  <2>1. published'[i] = published[i]
    BY <1>2
  <2> DEFINE sub == published[i].sub
  <2>2. EndedBy(sub, i) => EndedBy(sub, i)'
    <3>1. SUFFICES ASSUME NEW j \in About(sub), j <= i, published[j].kind = "ended"
                   PROVE  EndedBy(sub, i)'
      BY DEF EndedBy
    <3>2. j \in About(sub)' /\ published'[j].kind = "ended"
      BY <1>2, <1>6, <2>1, <3>1 DEF About
    <3> QED
      BY <3>1, <3>2 DEF EndedBy
  <2>3. EndedBy(sub, i)' => EndedBy(sub, i)
    <3>1. SUFFICES ASSUME NEW j \in About(sub)', j <= i, published'[j].kind = "ended"
                   PROVE  EndedBy(sub, i)
      BY DEF EndedBy
    <3>2. j \in Events
      BY <1>5, <3>1 DEF About
    <3>3. j \in About(sub) /\ published[j].kind = "ended"
      BY <1>2, <2>1, <3>1, <3>2 DEF About
    <3> QED
      BY <3>1, <3>3 DEF EndedBy
  <2> QED
    BY <2>1, <2>2, <2>3 DEF StandingAt
<1>9. \A t : ChargesOf(t) \subseteq Events
  BY ChargesAreEvents
<1>10. ChargesGrow
  <2>1. \A t : ChargesOf(t)' \intersect Events = ChargesOf(t)
    BY <1>5, <1>7, <1>9
  <2> QED
    BY <1>5, <1>8, <2>1 DEF ChargesGrow
<1>11. ASSUME NEW t \in Subscriptions \ {s}
       PROVE  /\ standing'[t] # "none" => ChargesOf(t)' # {}
              /\ standing'[t] = "canceled" =>
                    \E i \in ChargesOf(t)' : published'[i].kind = "ended"
              /\ \A i \in ChargesOf(t)' :
                    /\ (\A j \in ChargesOf(t)' : j <= i) => standing'[t] = StandingAt(i)'
                    /\ published'[i].kind = "ended" => \E j \in ChargesOf(t)' : j < i
  <2>1. ChargesOf(t)' = ChargesOf(t) /\ standing'[t] = standing[t]
    BY <1>4, <1>7, <1>11
  <2>2. \A i \in ChargesOf(t) : published'[i] = published[i] /\ StandingAt(i)' = StandingAt(i)
    BY <1>2, <1>8, <1>9
  <2> QED
    BY <2>1, <2>2 DEF StandingIsLatest
<1>12. standing'[s] = StandingAt(last)'
  <2>1. published'[last].sub = s /\ last \in About(s)'
    BY <1>5 DEF About
  <2>2. EndedBy(s, last)' => standing[s] = "canceled" \/ events[m].kind = "ended"
    <3>1. SUFFICES ASSUME NEW j \in About(s)', published'[j].kind = "ended"
                   PROVE  standing[s] = "canceled" \/ events[m].kind = "ended"
      BY DEF EndedBy
    <3>2. CASE j \in Events
      <4>1. published[j].sub = s /\ published[j].kind = "ended"
        BY <1>2, <3>1, <3>2 DEF About
      <4> QED
        BY <3>2, <4>1 DEF OneCheckoutEach
    <3>3. CASE j \notin Events
      <4>1. j = last
        BY <1>5, <3>1, <3>3 DEF About
      <4> QED
        BY <1>5, <3>1, <4>1
    <3> QED
      BY <3>2, <3>3
  <2>3. standing[s] = "canceled" => EndedBy(s, last)'
    <3>1. SUFFICES ASSUME standing[s] = "canceled" PROVE EndedBy(s, last)'
      OBVIOUS
    <3>2. PICK j \in ChargesOf(s) : published[j].kind = "ended"
      BY <3>1 DEF StandingIsLatest
    <3>3. j \in Events /\ j \in About(s)
      BY <1>9 DEF ChargesOf
    <3>4. j \in About(s)' /\ published'[j].kind = "ended" /\ j <= last
      BY <1>2, <1>5, <1>6, <3>2, <3>3
    <3> QED
      BY <3>4 DEF EndedBy
  <2>4. events[m].kind = "ended" => EndedBy(s, last)'
    <3>1. last <= last
      BY <1>5
    <3> QED
      BY <1>5, <2>1, <3>1 DEF EndedBy
  <2>5. published'[last].kind = events[m].kind
    BY <1>5
  <2> QED
    BY <1>4, <2>1, <2>2, <2>3, <2>4, <2>5 DEF StandingAt, m
<1>13. /\ standing'[s] # "none" => ChargesOf(s)' # {}
       /\ standing'[s] = "canceled" =>
             \E i \in ChargesOf(s)' : published'[i].kind = "ended"
       /\ \A i \in ChargesOf(s)' :
             /\ (\A j \in ChargesOf(s)' : j <= i) => standing'[s] = StandingAt(i)'
             /\ published'[i].kind = "ended" => \E j \in ChargesOf(s)' : j < i
  <2>1. ChargesOf(s)' = ChargesOf(s) \union {last}
    BY <1>7
  <2>2. \A i \in ChargesOf(s) : published'[i] = published[i] /\ i < last /\ ~(last <= i)
    <3>1. last \in Nat
      BY <1>5
    <3>2. \A i \in Events : published'[i] = published[i] /\ i \in Nat /\ i < last
      BY <1>2, <1>5
    <3> QED
      BY <1>9, <3>1, <3>2
  <2>6. standing'[s] # "none" => ChargesOf(s)' # {}
    BY <2>1
  <2>7. \A i \in ChargesOf(s)' :
            (\A j \in ChargesOf(s)' : j <= i) => standing'[s] = StandingAt(i)'
    <3>1. \A i \in ChargesOf(s) : ~(\A j \in ChargesOf(s)' : j <= i)
      BY <2>1, <2>2
    <3> QED
      BY <1>12, <2>1, <3>1
  <2>3. standing'[s] = "canceled" =>
             \E i \in ChargesOf(s)' : published'[i].kind = "ended"
    <3>1. CASE standing[s] = "canceled"
      BY <2>1, <2>2, <3>1 DEF StandingIsLatest
    <3>2. CASE standing[s] # "canceled"
      BY <1>4, <1>5, <2>1, <3>2 DEF m
    <3> QED
      BY <3>1, <3>2
  <2>4. published'[last].kind = "ended" => \E j \in ChargesOf(s)' : j < last
    <3>1. published'[last].kind = "ended" => ChargesOf(s) # {}
      BY <1>5 DEF StandingIsLatest, m
    <3> QED
      BY <2>1, <2>2, <3>1
  <2>5. \A i \in ChargesOf(s) : published'[i].kind = "ended" => \E j \in ChargesOf(s)' : j < i
    BY <2>1, <2>2 DEF StandingIsLatest
  <2> QED
    BY <2>1, <2>3, <2>4, <2>5, <2>6, <2>7
<1>14. StandingIsLatest'
  BY <1>11, <1>13 DEF StandingIsLatest
<1> QED
  BY <1>10, <1>14

LEMMA CheckoutStandingFollows ==
  ASSUME StripeTypeOK, OneCheckoutEach, StandingIsLatest, NEW c \in Customers,
         NEW s \in Subscriptions, CompleteCheckout(c, s)
  PROVE  StandingIsLatest' /\ ChargesGrow
<1> DEFINE done == Event("checkout", s)
           paid == Event("paid", s)
<1>1. /\ done \in EventRecord /\ done.sub = s /\ done.kind = "checkout"
      /\ paid \in EventRecord /\ paid.sub = s /\ paid.kind = "paid"
  BY DEF Event, EventRecord, Kinds
<1>2. /\ Publish(<<done, paid>>)
      /\ standing' = [standing EXCEPT ![s] = "active"]
      /\ standing[s] = "none"
  BY DEF CompleteCheckout
<1> HIDE DEF done, paid
<1> DEFINE both == <<done, paid>>
<1>3. /\ both \in Seq(EventRecord) /\ Len(both) = 2
      /\ both[1] = done /\ both[2] = paid /\ Publish(both)
  BY <1>1, <1>2
<1> HIDE DEF both
<1>4. \A j \in 1 .. Len(both) : /\ both[j].sub = s
                                /\ both[j].kind # "checkout" <=> j = Len(both)
  <2>1. \A j \in 1 .. Len(both) : j = 1 \/ j = 2
    BY <1>3
  <2>2. /\ both[1].sub = s /\ ~(both[1].kind # "checkout")
        /\ both[2].sub = s /\ both[2].kind # "checkout"
    BY <1>1, <1>3
  <2> QED
    BY <1>3, <2>1, <2>2
<1>5. both[Len(both)].kind = "paid"
  BY <1>1, <1>3
<1>6. /\ Len(both) # 0
      /\ "active" = IF standing[s] = "canceled" \/ both[Len(both)].kind = "ended"
                    THEN "canceled"
                    ELSE IF both[Len(both)].kind = "failed" THEN "past_due" ELSE "active"
  BY <1>2, <1>3, <1>5
<1>7. both[Len(both)].kind = "ended" => standing[s] # "none"
  BY <1>5
<1> QED
  BY <1>2, <1>3, <1>4, <1>6, <1>7, StandingFollows

LEMMA StepStandingFollows ==
  ASSUME StripeTypeOK, OneCheckoutEach, StandingIsLatest, NEW s \in Subscriptions,
         StripeStep(s, {"paid", "active"})
  PROVE  StandingIsLatest' /\ ChargesGrow
<1>1. ASSUME NEW kind \in Kinds \ {"checkout"}, NEW now,
             Publish(<<Event(kind, s)>>),
             standing' = [standing EXCEPT ![s] = now],
             standing[s] # "none",
             now = IF standing[s] = "canceled" \/ kind = "ended" THEN "canceled"
                   ELSE IF kind = "failed" THEN "past_due" ELSE "active"
      PROVE  StandingIsLatest' /\ ChargesGrow
  <2> DEFINE events == <<Event(kind, s)>>
  <2>1. /\ Event(kind, s) \in EventRecord
        /\ Event(kind, s).sub = s /\ Event(kind, s).kind = kind
    BY DEF Event, EventRecord
  <2>2. /\ events \in Seq(EventRecord) /\ Publish(events)
        /\ Len(events) = 1 /\ events[1] = Event(kind, s)
    BY <1>1, <2>1
  <2> HIDE DEF events
  <2>3. \A j \in 1 .. Len(events) :
            /\ events[j].sub = s
            /\ events[j].kind # "checkout" <=> j = Len(events)
    BY <2>1, <2>2
  <2>4. events[Len(events)].kind = kind
    BY <2>1, <2>2
  <2>5. /\ Len(events) # 0
        /\ now = IF standing[s] = "canceled" \/ events[Len(events)].kind = "ended"
                 THEN "canceled"
                 ELSE IF events[Len(events)].kind = "failed" THEN "past_due" ELSE "active"
        /\ events[Len(events)].kind = "ended" => standing[s] # "none"
    BY <1>1, <2>2, <2>4
  <2> QED
    BY <1>1, <2>2, <2>3, <2>5, StandingFollows
<1>2. CASE FailInvoice(s)
  BY <1>1, <1>2 DEF FailInvoice, Kinds
<1>3. CASE \E kind \in {"paid", "active"} : PayInvoice(s, kind)
  <2>1. PICK kind \in {"paid", "active"} : PayInvoice(s, kind)
    BY <1>3
  <2>2. kind \in Kinds \ {"checkout"} /\ kind # "ended" /\ kind # "failed"
    BY DEF Kinds
  <2> QED
    BY <1>1, <2>1, <2>2 DEF PayInvoice
<1>4. CASE EndSubscription(s)
  BY <1>1, <1>4 DEF EndSubscription, Kinds
<1>5. CASE PayFinalInvoice(s)
  <2>1. standing' = [standing EXCEPT ![s] = "canceled"]
    BY <1>5 DEF PayFinalInvoice, StripeTypeOK
  <2> QED
    BY <1>1, <1>5, <2>1 DEF PayFinalInvoice, Kinds
<1> QED
  BY <1>2, <1>3, <1>4, <1>5 DEF StripeStep

LEMMA StripeQuiet ==
  ASSUME UNCHANGED stripe
  PROVE  /\ StandingIsLatest => StandingIsLatest'
         /\ ChargesGrow
         /\ Events' = Events
         /\ \A s : ChargesOf(s)' = ChargesOf(s) /\ CheckoutOf(s)' = CheckoutOf(s)
<1>1. UNCHANGED <<standing, customerOf, published>> /\ Events' = Events
  BY DEF stripe, Events
<1>2. \A s : /\ About(s)' = About(s) /\ CheckoutOf(s)' = CheckoutOf(s)
             /\ ChargesOf(s)' = ChargesOf(s)
  BY <1>1 DEF ChargesOf, CheckoutOf, About
<1>3. \A s : ChargesOf(s) \subseteq Events
  BY DEF ChargesOf, About
<1>4. \A i : StandingAt(i)' = StandingAt(i)
  <2>1. \A s, i : EndedBy(s, i)' = EndedBy(s, i)
    BY <1>1, <1>2 DEF EndedBy
  <2> QED
    BY <1>1, <2>1 DEF StandingAt
<1>5. ChargesGrow
  BY <1>1, <1>2, <1>3, <1>4 DEF ChargesGrow
<1>6. StandingIsLatest => StandingIsLatest'
  BY <1>1, <1>2, <1>4 DEF StandingIsLatest
<1> QED
  BY <1>1, <1>2, <1>5, <1>6

\* A step that leaves what the key says, and what it was told of, as they are.
LEMMA KeyStillFollows ==
  ASSUME IInv, KeyFollows, Moved, ChargesGrow,
         key'.held = key.held,
         key'.suspended = key.suspended, key'.cancelled = key.cancelled,
         seen' = seen, off \subseteq off'
  PROVE  KeyFollows'
<1> SUFFICES ASSUME NEW s \in Subscriptions \ off'
             PROVE  /\ ChargesOf(s)' \intersect seen # {} => CheckoutOf(s)' \subseteq seen
                    /\ key.held = s =>
                          IF ChargesOf(s)' \intersect seen = {}
                          THEN ~key.cancelled
                          ELSE \E i \in ChargesOf(s)' : Reflects(i)' /\ IsNextOrLast(s, i)'
  BY DEF KeyFollows
<1>1. /\ seen \subseteq Events
      /\ ChargesOf(s)' \intersect Events = ChargesOf(s)
      /\ \A i \in ChargesOf(s)' \ ChargesOf(s) : i \in Events' \ Events
      /\ ChargesOf(s)' \intersect seen = ChargesOf(s) \intersect seen
  <2>1. ChargesOf(s)' \intersect Events = ChargesOf(s) /\ seen \subseteq Events
    BY DEF ChargesGrow, IInv, TypeOK
  <2>2. ChargesOf(s)' \subseteq Events'
    BY DEF ChargesOf, About
  <2> QED
    BY <2>1, <2>2
<1>2. ChargesOf(s) \intersect seen # {} => CheckoutOf(s)' \subseteq seen
  <2>1. ASSUME ChargesOf(s) # {} PROVE standing[s] # "none"
    BY <2>1, EventFields, ChargesAreEvents DEF IInv, TypeOK
  <2> QED
    BY <2>1 DEF KeyFollows, Moved
<1>3. ASSUME NEW i \in ChargesOf(s), key.held = s, Reflects(i), IsNextOrLast(s, i)
      PROVE  i \in ChargesOf(s)' /\ Reflects(i)' /\ IsNextOrLast(s, i)'
  <2>1. i \in Events /\ i \in Nat /\ i \in ChargesOf(s)' /\ StandingAt(i)' = StandingAt(i)
    BY <1>1, ChargesAreEvents DEF ChargesGrow, IInv, TypeOK
  <2>2. Reflects(i)'
    BY <1>3, <2>1 DEF Reflects
  <2>3. ASSUME NEW j \in ChargesOf(s)' \ {i} PROVE j < i <=> j \in seen
    <3>1. CASE j \in ChargesOf(s)
      BY <1>3, <3>1 DEF IsNextOrLast
    <3>2. CASE j \notin ChargesOf(s)
      <4>1. j \in Events' \ Events /\ i < j
        BY <1>1, <2>1, <3>2 DEF ChargesGrow
      <4>2. j \in Nat /\ j \notin seen
        BY <1>1, <4>1 DEF Events
      <4> QED
        BY <2>1, <4>1, <4>2
    <3> QED
      BY <3>1, <3>2
  <2> QED
    BY <2>1, <2>2, <2>3 DEF IsNextOrLast
<1> QED
  BY <1>1, <1>2, <1>3 DEF KeyFollows

\* What a key that was told of a Checkout holds, and what an event changes of what
\* the key says.
LEMMA ToldHolds ==
  ASSUME IInv, NEW s \in Subscriptions, standing[s] # "none", CheckoutOf(s) \subseteq seen
  PROVE  key.held # NoSub
<1>1. CheckoutOf(s) # {}
  BY DEF IInv, OneCheckoutEach
<1>2. \A i \in CheckoutOf(s) : published[i].kind = "checkout"
  BY CheckoutsAreEvents
<1> QED
  BY <1>1, <1>2 DEF IInv, ToldInTurn

LEMMA ChargeSays ==
  ASSUME IInv, NEW i \in Events, NEW named \in BOOLEAN, MayBe(named, i),
         ApplyEvent(i, named) \/ ApplyHalf(i, named),
         published[i].kind # "checkout", key.held = published[i].sub, ItsOwn(i)
  PROVE  /\ key'.held = key.held
         /\ published[i].kind \in {"paid", "active"} =>
               /\ key'.suspended <=> key.cancelled /\ key.suspended
               /\ key'.cancelled <=> key.cancelled
         /\ published[i].kind = "failed" =>
               key'.suspended /\ (key'.cancelled <=> key.cancelled)
         /\ published[i].kind = "ended" => key'.suspended /\ key'.cancelled
         /\ published[i].kind \in {"paid", "active", "failed", "ended"}
<1>1. key \in Key
  BY DEF IInv, TypeOK
<1>2. /\ Lift(key) \in Key /\ Lift(key).held = key.held
      /\ Lift(key).suspended <=> key.cancelled /\ key.suspended
      /\ Lift(key).cancelled <=> key.cancelled
  BY <1>1 DEF Lift, Key
<1> Concerns(i, named)
  BY DEF ItsOwn, Concerns
<1>3. CASE ApplyPaid(i, named)
  BY <1>2, <1>3 DEF ApplyPaid
<1>4. CASE ApplyActive(i, named)
  <2>1. CASE key.cancelled
    BY <1>2, <1>4, <2>1 DEF ApplyActive
  <2>2. CASE ~key.cancelled
    <3>1. key' = Holds(Lift(key), published[i].sub, Now) /\ published[i].kind = "active"
      BY <1>4, <2>2 DEF ApplyActive
    <3>2. published[i].sub \in Subscriptions
      BY EventFields DEF IInv, TypeOK
    <3>3. /\ key'.held = key.held
          /\ key'.suspended = Lift(key).suspended
          /\ key'.cancelled = Lift(key).cancelled
      BY <1>2, <3>1, <3>2, HoldsFields, CheckoutsAreEvents
    <3> QED
      BY <1>2, <3>1, <3>3
  <2> QED
    BY <2>1, <2>2
<1>5. CASE ApplyFailed(i, named)
  BY <1>1, <1>5 DEF ApplyFailed, Key
<1>6. CASE ApplyEnded(i, named)
  BY <1>1, <1>6 DEF ApplyEnded, Key
<1>7. CASE ApplyHalf(i, named)
  BY <1>2, <1>7 DEF ApplyHalf
<1> QED
  BY <1>3, <1>4, <1>5, <1>6, <1>7 DEF ApplyEvent, ApplyCheckout

\* An event leaves a key that holds another subscription afterwards as it is,
\* unless it names none and the key is mistaken.
LEMMA OtherEventSaysNothing ==
  ASSUME IInv, NEW i \in Events, NEW named \in BOOLEAN, MayBe(named, i),
         ApplyEvent(i, named) \/ ApplyHalf(i, named),
         key'.held \notin {NoSub, published[i].sub} \union Mistaken(i, named)
  PROVE  /\ key'.held = key.held
         /\ key'.suspended = key.suspended /\ key'.cancelled = key.cancelled
<1> DEFINE s == published[i].sub
           k == [key EXCEPT !.customer = customerOf[s]]
<1>1. key \in Key /\ s \in Subscriptions
  BY EventFields DEF IInv, TypeOK
<1>2. /\ k \in Key /\ k.held = key.held
      /\ k.suspended = key.suspended /\ k.cancelled = key.cancelled
  BY <1>1 DEF IInv, TypeOK, StripeTypeOK, Key
<1>3. Lift(key) \in Key /\ Lift(key).held = key.held
  BY <1>1, LiftFields
<1>4. /\ Holds(k, s, i).held = s
      /\ Holds(Lift(key), s, Now).held = s
  BY <1>1, <1>2, <1>3, HoldsFields, CheckoutsAreEvents
<1>5. CASE ApplyCheckout(i)
  BY <1>4, <1>5 DEF ApplyCheckout
<1>6. CASE ApplyPaid(i, named)
  BY <1>3, <1>6 DEF ApplyPaid, Concerns, ItsOwn, Mistaken
<1>7. CASE ApplyActive(i, named)
  BY <1>3, <1>4, <1>7 DEF ApplyActive, Concerns, MayBe
<1>8. CASE ApplyFailed(i, named)
  BY <1>1, <1>8 DEF ApplyFailed, Concerns, ItsOwn, Mistaken, Key
<1>9. CASE ApplyEnded(i, named)
  BY <1>1, <1>9 DEF ApplyEnded, Concerns, MayBe, Key
<1>10. CASE ApplyHalf(i, named)
  BY <1>2, <1>3, <1>10 DEF ApplyHalf, Concerns, MayBe
<1> QED
  BY <1>5, <1>6, <1>7, <1>8, <1>9, <1>10 DEF ApplyEvent

\* A key that takes up a subscription is not cancelled, and one that has been told
\* nothing of it beyond the Checkout is not either.
LEMMA CheckoutSays ==
  ASSUME IInv, NEW i \in Events, NEW named \in BOOLEAN, MayBe(named, i),
         ApplyEvent(i, named) \/ ApplyHalf(i, named),
         published[i].kind = "checkout", key'.held = published[i].sub,
         key.held = published[i].sub => ~key.cancelled
  PROVE  ~key'.cancelled
<1> DEFINE s == published[i].sub
           k == [key EXCEPT !.customer = customerOf[s]]
<1>1. /\ k \in Key /\ k.held = key.held /\ k.cancelled = key.cancelled
      /\ s \in Subscriptions
  BY EventFields DEF IInv, TypeOK, StripeTypeOK, Key
<1>2. \/ key' = k \/ key' = Holds(k, s, i)
      \/ key' = key
  BY DEF ApplyEvent, ApplyHalf, ApplyCheckout, ApplyPaid, ApplyActive, ApplyFailed,
     ApplyEnded
<1> HIDE DEF k
<1>3. ~k.cancelled \/ k.held # s => ~Holds(k, s, i).cancelled
  BY <1>1 DEF Holds, Key
<1> QED
  BY <1>1, <1>2, <1>3

\* The next charge of the subscription, applied to what the key says.
LEMMA NextChargeReflects ==
  ASSUME IInv, StandingIsLatest, KeyFollows,
         NEW i \in Events, NEW named \in BOOLEAN, MayBe(named, i), i \notin seen,
         ApplyEvent(i, named) \/ ApplyHalf(i, named),
         published[i].sub \notin off, published[i].kind # "checkout", ~OutOfTurn(i),
         UNCHANGED stripe
  PROVE  /\ key'.held = published[i].sub
         /\ IsNextOrLast(published[i].sub, i)
         /\ Reflects(i)'
         /\ ChargesOf(published[i].sub) \intersect seen = {} => ~key'.cancelled
<1> DEFINE s == published[i].sub
           charges == ChargesOf(s)
<1>1. /\ s \in Subscriptions /\ standing[s] # "none"
      /\ i \in charges /\ i \in Nat /\ charges \subseteq Nat
      /\ \A j \in About(s) : published[j].kind = "ended" => j \in charges
  BY EventFields, ChargesAreEvents DEF IInv, TypeOK, ChargesOf, CheckoutOf, About
<1>2. /\ CheckoutOf(s) \subseteq seen /\ ItsOwn(i)
      /\ \A j \in charges \ {i} : j < i <=> j \in seen
  BY <1>1 DEF OutOfTurn, ChargesOf, CheckoutOf
<1>3. key.held = s
  BY <1>1, <1>2, ToldHolds DEF ItsOwn
<1> DEFINE Before == /\ published[i].kind # "ended" => (key.cancelled <=> EndedBy(s, i))
                     /\ key.cancelled => key.suspended
                     /\ charges \intersect seen = {} =>
                           published[i].kind # "ended" /\ ~key.cancelled
<1>4. ASSUME charges \intersect seen = {} PROVE Before
  <2>1. ~key.cancelled
    BY <1>1, <1>3, <1>4 DEF KeyFollows
  <2>2. \A j \in charges \ {i} : ~(j < i)
    BY <1>2, <1>4
  <2>3. published[i].kind # "ended"
    <3>1. published[i].kind = "ended" => \E j \in charges : j < i
      BY <1>1 DEF StandingIsLatest
    <3> QED
      BY <1>1, <2>2, <3>1
  <2>4. ~EndedBy(s, i)
    BY <1>1, <2>2, <2>3 DEF EndedBy
  <2> QED
    BY <2>1, <2>3, <2>4
<1>5. ASSUME charges \intersect seen # {} PROVE Before
  <2>1. PICK last \in charges : Reflects(last) /\ IsNextOrLast(s, last)
    BY <1>1, <1>3, <1>5 DEF KeyFollows
  <2>2. published[last].sub = s /\ last <= i
    BY <1>1, <2>1, ChargesAreEvents DEF IsNextOrLast, IInv, TypeOK
  <2>3. EndedBy(s, last) => EndedBy(s, i)
    BY <1>1, <2>2 DEF EndedBy
  <2>4. ASSUME published[i].kind # "ended", EndedBy(s, i) PROVE EndedBy(s, last)
    <3>1. PICK j \in About(s) : j <= i /\ published[j].kind = "ended"
      BY <2>4 DEF EndedBy
    <3>2. j \in charges \ {i} /\ j < i
      BY <1>1, <2>4, <3>1
    <3>3. j \in seen
      BY <1>2, <3>2
    <3>4. j <= last
      BY <1>1, <2>1, <3>2, <3>3 DEF IsNextOrLast
    <3> QED
      BY <3>1, <3>4 DEF EndedBy
  <2>5. key.cancelled <=> EndedBy(s, last)
    BY <2>1, <2>2 DEF Reflects, StandingAt
  <2>6. key.cancelled => key.suspended
    BY <2>1 DEF Reflects
  <2> QED
    BY <1>5, <2>3, <2>4, <2>5, <2>6
<1>6. Before
  BY <1>4, <1>5
<1>7. published[i].kind = "ended" => EndedBy(s, i)
  <2>1. i \in About(s) /\ i <= i
    BY <1>1 DEF ChargesOf
  <2> QED
    BY <2>1 DEF EndedBy
<1>8. StandingAt(i)' = StandingAt(i)
  BY StripeQuiet DEF ChargesGrow
<1>9. /\ StandingAt(i) = "canceled" <=> EndedBy(s, i)
      /\ StandingAt(i) # "active" <=> EndedBy(s, i) \/ published[i].kind = "failed"
  BY DEF StandingAt
<1>10. IsNextOrLast(s, i)
  BY <1>2 DEF IsNextOrLast
<1> HIDE DEF s, charges
<1>11. /\ key'.held = s
       /\ key'.cancelled <=> EndedBy(s, i)
       /\ key'.suspended <=> EndedBy(s, i) \/ published[i].kind = "failed"
       /\ charges \intersect seen = {} => ~key'.cancelled
  BY <1>2, <1>3, <1>6, <1>7, ChargeSays DEF s
<1> QED
  BY <1>8, <1>9, <1>10, <1>11 DEF Reflects, s, charges

LEMMA DeliveryFollows ==
  ASSUME IInv, InTurn, NEW i \in Events, NEW named \in BOOLEAN,
         Deliver(i, named) \/ DeliverAndCrash(i, named)
  PROVE  KeyFollows'
<1> PICK s : s = published[i].sub
  OBVIOUS
<1>1. /\ i \notin seen /\ (ApplyEvent(i, named) \/ ApplyHalf(i, named))
      /\ seen' \in {seen, seen \union {i}}
      /\ MayBe(named, i)
      /\ off \union Mistaken(i, named) \subseteq off' /\ (OutOfTurn(i) => s \in off')
      /\ UNCHANGED stripe
  BY DEF Deliver, DeliverAndCrash, NoteTurn
<1>2. /\ \A t : ChargesOf(t)' = ChargesOf(t) /\ CheckoutOf(t)' = CheckoutOf(t)
      /\ \A t : \A j \in ChargesOf(t) : j \in Events /\ published[j].sub = t
      /\ \A j \in Events : StandingAt(j)' = StandingAt(j)
  BY <1>1, StripeQuiet, ChargesAreEvents DEF ChargesGrow, IInv, TypeOK
<1>3. s \in Subscriptions /\ standing[s] # "none"
  BY EventFields DEF IInv, TypeOK
<1>4. ASSUME NEW t \in Subscriptions \ off', t # s
      PROVE  /\ ChargesOf(t) \intersect seen' # {} => CheckoutOf(t) \subseteq seen'
             /\ key'.held = t =>
                   IF ChargesOf(t) \intersect seen' = {}
                   THEN ~key'.cancelled
                   ELSE \E j \in ChargesOf(t) : Reflects(j)' /\ IsNextOrLast(t, j)'
  <2>1. i \notin ChargesOf(t) /\ ChargesOf(t) \intersect seen' = ChargesOf(t) \intersect seen
    BY <1>1, <1>2, <1>4
  <2>2. /\ ChargesOf(t) \intersect seen # {} => CheckoutOf(t) \subseteq seen
        /\ key.held = t =>
              IF ChargesOf(t) \intersect seen = {}
              THEN ~key.cancelled
              ELSE \E j \in ChargesOf(t) : Reflects(j) /\ IsNextOrLast(t, j)
    BY <1>1, <1>4 DEF InTurn, KeyFollows
  <2>3. ASSUME key'.held = t
        PROVE  /\ key'.held = key.held
               /\ key'.suspended = key.suspended /\ key'.cancelled = key.cancelled
    <3>1. key'.held \notin {NoSub, s} \union Mistaken(i, named)
      BY <1>1, <1>4, <2>3, StripeWebhookAssumption
    <3> QED
      BY <1>1, <3>1, OtherEventSaysNothing
  <2>4. ASSUME key'.held = t, NEW j \in ChargesOf(t), Reflects(j), IsNextOrLast(t, j)
        PROVE  Reflects(j)' /\ IsNextOrLast(t, j)'
    <3>1. Reflects(j)'
      BY <1>2, <2>3, <2>4 DEF Reflects
    <3>2. \A l \in ChargesOf(t) : l \in seen' <=> l \in seen
      BY <2>1
    <3> QED
      BY <1>2, <2>4, <3>1, <3>2 DEF IsNextOrLast
  <2> QED
    BY <1>1, <2>1, <2>2, <2>3, <2>4
<1>5. ASSUME s \notin off'
      PROVE  /\ ChargesOf(s) \intersect seen' # {} => CheckoutOf(s) \subseteq seen'
             /\ key'.held = s =>
                   IF ChargesOf(s) \intersect seen' = {}
                   THEN ~key'.cancelled
                   ELSE \E j \in ChargesOf(s) : Reflects(j)' /\ IsNextOrLast(s, j)'
  <2>1. s \notin off /\ ~OutOfTurn(i)
    BY <1>1, <1>5
  <2>2. /\ ChargesOf(s) \intersect seen # {} => CheckoutOf(s) \subseteq seen
        /\ key.held = s /\ ChargesOf(s) \intersect seen = {} => ~key.cancelled
    BY <1>3, <2>1 DEF InTurn, KeyFollows
  <2>3. CASE published[i].kind = "checkout"
    <3>1. i \in CheckoutOf(s) /\ i \notin ChargesOf(s)
      BY <2>3 DEF ChargesOf, CheckoutOf, About
    <3>2. ChargesOf(s) \intersect seen = {} /\ ChargesOf(s) \intersect seen' = {}
      BY <1>1, <2>2, <3>1
    <3>3. key'.held = s => ~key'.cancelled
      BY <1>1, <2>2, <2>3, <3>2, CheckoutSays
    <3> QED
      BY <3>2, <3>3
  <2>4. CASE published[i].kind # "checkout"
    <3>1. /\ i \in ChargesOf(s) /\ CheckoutOf(s) \subseteq seen
      BY <2>1, <2>4 DEF OutOfTurn, ChargesOf, CheckoutOf, About
    <3>2. /\ IsNextOrLast(s, i) /\ Reflects(i)'
          /\ ChargesOf(s) \intersect seen = {} => ~key'.cancelled
      BY <1>1, <2>1, <2>4, NextChargeReflects DEF InTurn
    <3>3. \A l \in ChargesOf(s) \ {i} : l \in seen' <=> l \in seen
      BY <1>1
    <3>4. IsNextOrLast(s, i)'
      BY <1>2, <3>2, <3>3 DEF IsNextOrLast
    <3> QED
      BY <1>1, <3>1, <3>2, <3>4
  <2> QED
    BY <2>3, <2>4
<1> SUFFICES ASSUME NEW t \in Subscriptions \ off'
             PROVE  /\ ChargesOf(t)' \intersect seen' # {} => CheckoutOf(t)' \subseteq seen'
                    /\ key'.held = t =>
                          IF ChargesOf(t)' \intersect seen' = {}
                          THEN ~key'.cancelled
                          ELSE \E j \in ChargesOf(t)' : Reflects(j)' /\ IsNextOrLast(t, j)'
  BY DEF KeyFollows
<1> QED
  BY <1>2, <1>4, <1>5

LEMMA StoreFollows ==
  ASSUME IInv, InTurn, NEW s \in Subscriptions, StoreSubscription(s)
  PROVE  KeyFollows'
<1> DEFINE k == [key EXCEPT !.customer = customerOf[s]]
<1>1. /\ key' = Holds(k, s, Now) /\ UNCHANGED stripe /\ seen' = seen
      /\ off' = IF key.held # s /\ About(s) \intersect seen # {}
                THEN off \union {s} ELSE off
  BY DEF StoreSubscription
<1>2. /\ k \in Key /\ k.held = key.held
      /\ k.suspended = key.suspended /\ k.cancelled = key.cancelled
  BY DEF IInv, TypeOK, StripeTypeOK, Key
<1> HIDE DEF k
<1>3. /\ key'.held = s
      /\ key.held = s => key'.suspended = key.suspended /\ key'.cancelled = key.cancelled
  BY <1>1, <1>2, HoldsFields, CheckoutsAreEvents
<1>4. CASE key.held = s
  <2>1. Moved /\ ChargesGrow
    BY <1>1, StripeStays, StripeQuiet DEF IInv, TypeOK
  <2> QED
    BY <1>1, <1>3, <1>4, <2>1, KeyStillFollows DEF InTurn
<1>5. CASE key.held # s
  <2>1. ~key'.cancelled
    BY <1>1, <1>2, <1>5 DEF Holds, Key
  <2>2. \A t : ChargesOf(t)' = ChargesOf(t) /\ CheckoutOf(t)' = CheckoutOf(t)
    BY <1>1, StripeQuiet
  <2>3. s \notin off' => ChargesOf(s) \intersect seen = {}
    BY <1>1, <1>5 DEF ChargesOf
  <2>4. \A t \in Subscriptions \ off' :
            ChargesOf(t) \intersect seen # {} => CheckoutOf(t) \subseteq seen
    BY <1>1 DEF InTurn, KeyFollows
  <2> QED
    BY <1>1, <1>3, <2>1, <2>2, <2>3, <2>4 DEF KeyFollows
<1> QED
  BY <1>4, <1>5

LEMMA NextInTurn ==
  ASSUME IInv, InTurn, [Next]_vars PROVE InTurn'
<1>1. ASSUME UNCHANGED <<stripe, key, seen, off>> PROVE InTurn'
  <2>1. Moved /\ ChargesGrow /\ StandingIsLatest'
    BY <1>1, StripeStays, StripeQuiet DEF IInv, TypeOK, InTurn
  <2> QED
    BY <1>1, <2>1, KeyStillFollows DEF InTurn
<1>2. CASE OpenPage \/ (\E c \in Customers : StartSetup(c)) \/ UNCHANGED vars
  BY <1>1, <1>2 DEF OpenPage, StartSetup, history, vars
<1>3. ASSUME NEW c \in Customers, FinishSetup(c) PROVE InTurn'
  <2>1. /\ UNCHANGED <<stripe, seen, off>>
        /\ key'.held = key.held
        /\ key'.suspended = key.suspended /\ key'.cancelled = key.cancelled
    BY <1>3 DEF FinishSetup, history, IInv, TypeOK, Key
  <2>2. Moved /\ ChargesGrow /\ StandingIsLatest'
    BY <2>1, StripeStays, StripeQuiet DEF IInv, TypeOK, InTurn
  <2> QED
    BY <2>1, <2>2, KeyStillFollows DEF InTurn
<1>4. ASSUME NEW s \in Subscriptions,
             \/ \E c \in Customers : CompleteCheckout(c, s)
             \/ StripeStep(s, {"paid", "active"}),
             UNCHANGED <<key, seen, off>>
      PROVE  InTurn'
  <2>1. Moved
    BY <1>4, CheckoutAtStripe, StepAtStripe DEF IInv, TypeOK
  <2>2. StandingIsLatest' /\ ChargesGrow
    BY <1>4, CheckoutStandingFollows, StepStandingFollows DEF IInv, TypeOK, InTurn
  <2> QED
    BY <1>4, <2>1, <2>2, KeyStillFollows DEF InTurn
<1>5. ASSUME NEW c \in Customers, NEW s \in Subscriptions, Checkout(c, s) PROVE InTurn'
  BY <1>4, <1>5 DEF Checkout, history
<1>6. ASSUME NEW s \in Subscriptions, StripeStep(s, {"paid", "active"}),
             UNCHANGED <<key, creating, pages, seen, reading, history>>
      PROVE  InTurn'
  BY <1>4, <1>6 DEF history
<1>7. ASSUME NEW s \in Subscriptions, ReadSubscription(s) PROVE InTurn'
  BY <1>1, <1>7 DEF ReadSubscription, history
<1>8. ASSUME NEW s \in Subscriptions, StoreSubscription(s) PROVE InTurn'
  BY <1>8, StoreFollows, StripeQuiet DEF InTurn, StoreSubscription
<1>9. ASSUME NEW i \in Events, NEW named \in BOOLEAN,
             Deliver(i, named) \/ DeliverAndCrash(i, named)
      PROVE  InTurn'
  BY <1>9, DeliveryFollows, StripeQuiet DEF InTurn, Deliver, DeliverAndCrash
<1> QED
  BY <1>2, <1>3, <1>5, <1>6, <1>7, <1>8, <1>9 DEF Next

LEMMA InitInTurn == Init => InTurn
<1> SUFFICES ASSUME Init PROVE InTurn
  OBVIOUS
<1>1. published = <<>> /\ Events = {}
  BY DEF Init, StripeInit, Events
<1>2. \A s : ChargesOf(s) = {}
  BY <1>1 DEF ChargesOf, About
<1> QED
  BY <1>2 DEF Init, StripeInit, InTurn, StandingIsLatest, KeyFollows

-----------------------------------------------------------------------------

LEMMA NextIInv ==
  ASSUME IInv, [Next]_vars
  PROVE  IInv' /\ (seen' # seen \/ crashes' # crashes => Onwards)
<1>1. CASE OpenPage \/ \E c \in Customers : StartSetup(c)
  BY <1>1, SetupIInv DEF OpenPage, StartSetup, history
<1>2. ASSUME NEW c \in Customers, FinishSetup(c)
      PROVE  IInv' /\ UNCHANGED <<seen, crashes>>
  BY <1>2, FinishSetupIInv DEF FinishSetup, history
<1>3. ASSUME NEW c \in Customers, NEW s \in Subscriptions, Checkout(c, s)
      PROVE  IInv' /\ UNCHANGED <<seen, crashes>>
  BY <1>3, StripeIInv DEF Checkout, history
<1>4. ASSUME NEW s \in Subscriptions, StripeStep(s, {"paid", "active"}),
             UNCHANGED <<key, creating, pages, seen, reading, history>>
      PROVE  IInv' /\ UNCHANGED <<seen, crashes>>
  BY <1>4, StripeIInv DEF history
<1>5. ASSUME NEW s \in Subscriptions, ReadSubscription(s) \/ StoreSubscription(s)
      PROVE  IInv' /\ UNCHANGED <<seen, crashes>>
  BY <1>5, ReadSubscriptionIInv, StoreSubscriptionIInv
     DEF ReadSubscription, StoreSubscription, history
<1>6. ASSUME NEW i \in Events, NEW named \in BOOLEAN,
             Deliver(i, named) \/ DeliverAndCrash(i, named)
      PROVE  IInv' /\ Onwards
  BY <1>6, DeliverIInv, DeliverAndCrashIInv
<1>7. CASE UNCHANGED vars
  <2>1. StripeTypeOK' /\ OneCheckoutEach' /\ Moved
    BY <1>7, StripeStays DEF IInv, TypeOK, vars
  <2> QED
    BY <1>7, <2>1, KeyStays DEF IInv, TypeOK, vars
<1> QED
  BY <1>1, <1>2, <1>3, <1>4, <1>5, <1>6, <1>7 DEF Next

LEMMA Inductive == Spec => []IInv
<1>1. Init => IInv
  BY InitIInv
<1>2. IInv /\ [Next]_vars => IInv'
  BY NextIInv
<1> QED
  BY <1>1, <1>2, PTL DEF Spec

\* The key's record, what is in flight and the events keep their types.
THEOREM Typed == Spec => []TypeOK
<1>1. IInv => TypeOK
  BY DEF IInv
<1> QED
  BY <1>1, Inductive, PTL

LEMMA InTurnInductive == Spec => [](IInv /\ InTurn)
<1>1. Init => IInv /\ InTurn
  BY InitIInv, InitInTurn
<1>2. IInv /\ InTurn /\ [Next]_vars => (IInv /\ InTurn)'
  BY NextIInv, NextInTurn
<1> QED
  BY <1>1, <1>2, PTL DEF Spec

\* When the events of the subscription that the key holds have all come, each in
\* its turn, the key is suspended just when Stripe has not been paid and cancelled
\* just when it ended, unless an invoice of another subscription that names none
\* changed the key (handleStripeWebhook).
THEOREM FollowsStripe == Spec => []InStepWithStripe
<1>1. ASSUME IInv, InTurn PROVE InStepWithStripe
  <2> SUFFICES ASSUME NEW s \in Subscriptions \ off, key.held = s, About(s) \subseteq seen
               PROVE  /\ key.suspended <=> standing[s] # "active"
                      /\ key.cancelled <=> standing[s] = "canceled"
    BY DEF InStepWithStripe
  <2>1. standing[s] # "none"
    BY <1>1, StripeWebhookAssumption DEF IInv, HeldHasStarted
  <2>2. ChargesOf(s) # {} /\ ChargesOf(s) \subseteq seen
    BY <1>1, <2>1 DEF InTurn, StandingIsLatest, ChargesOf
  <2>3. PICK i \in ChargesOf(s) : Reflects(i) /\ IsNextOrLast(s, i)
    BY <1>1, <2>2 DEF InTurn, KeyFollows
  <2>4. \A j \in ChargesOf(s) : j <= i
    BY <1>1, <2>2, <2>3, ChargesAreEvents DEF IsNextOrLast, IInv, TypeOK
  <2>5. standing[s] = StandingAt(i)
    BY <1>1, <2>4 DEF InTurn, StandingIsLatest
  <2> QED
    BY <2>3, <2>5 DEF Reflects
<1> QED
  BY <1>1, InTurnInductive, PTL

\* Nothing brings back to life what the key was told had ended (applyStripeEvent,
\* completeCardSetup, setSubscription).
THEOREM StaysDead == Spec => []DeadStaysDead
<1>1. IInv => DeadStaysDead
  BY DEF IInv
<1> QED
  BY <1>1, Inductive, PTL

\* No webhook puts an older Checkout in place of a newer one (applyStripeEvent).
THEOREM NeverSubscribedBack == Spec => NoWebhookSubscribesBack
<1>1. IInv /\ [Next]_vars =>
          [seen' # seen \/ crashes' # crashes =>
             \A i \in CheckoutOf(key.held), j \in CheckoutOf(key'.held) : i <= j]_vars
  BY NextIInv DEF Onwards
<1> QED
  BY <1>1, Inductive, PTL DEF Spec, NoWebhookSubscribesBack

=============================================================================
