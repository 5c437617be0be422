--------------------------- MODULE StripeWebhook ---------------------------
(***************************************************************************)
(* The subscription of one API key of the self-hosted API: card set-up and *)
(* the return from Checkout (startCardSetup, completeCardSetup) and the    *)
(* webhook (handleStripeWebhook, applyStripeEvent) of api/billing.ts, with *)
(* the key's writes in api/keys.ts.                                        *)
(*                                                                         *)
(* The webhook is synchronous: one action, unless the process stops        *)
(* between its writes.  The other two await Stripe, so each is the steps   *)
(* before and after its last await.  A delivery of an event whose          *)
(* identifier is in processedStripeEvents changes nothing and is no step;  *)
(* that list forgets after 2000 events, which is not modelled.             *)
(***************************************************************************)
EXTENDS StripeSubscriptions

CONSTANTS
    NoSub,
    MaxCrashes        \* bound on stops of the process inside a delivery

ASSUME StripeWebhookAssumption ==
    /\ NoSub \notin Subscriptions
    /\ MaxCrashes \in Nat

VARIABLES
    key,              \* the key's record
    creating,         \* customers made for a set-up that has not stored them
    pages,            \* customers with a Checkout page that was opened
    seen,             \* processedStripeEvents
    reading,          \* subscription -> what a return from its Checkout has read
    notified,         \* history: subscriptions whose end the key was told of
                      \* after their Checkout
    revived,          \* history: those stored on a read from before their end
    off,              \* history: those whose events did not all come in turn, or
                      \* whose key an unnamed event of another one changed
    crashes           \* number of deliveries cut short

vars == <<stripe, key, creating, pages, seen, reading, notified, revived, off,
          crashes>>

history == <<notified, revived, off, crashes>>

\* setAt is stripeSubscriptionSetAt, by the clock of published; 0 is no stamp.
Key == [customer : Customers \union {NoCustomer},
        held : Subscriptions \union {NoSub},
        setAt : 0..(MaxEvents + 1),
        suspended : BOOLEAN,
        cancelled : BOOLEAN]

\* Mutant: event.created, in seconds, is compared with Date.now() as it is.
NowInMilliseconds == (Len(published) + 1) * 1000

\* Date.now(): after the events so far and before the next one.
Now == Len(published) + 1

Init ==
    /\ StripeInit
    /\ key = [customer |-> NoCustomer, held |-> NoSub, setAt |-> 0,
              suspended |-> FALSE, cancelled |-> FALSE]
    /\ creating = {}
    /\ pages = {}
    /\ seen = {}
    /\ reading = [s \in Subscriptions |-> "nothing"]
    /\ notified = {}
    /\ revived = {}
    /\ off = {}
    /\ crashes = 0

-----------------------------------------------------------------------------
\* setSubscription(): another subscription lifts a cancellation.
Holds(k, s, at) ==
    IF k.cancelled /\ k.held # s
    THEN [k EXCEPT !.held = s, !.setAt = at, !.cancelled = FALSE, !.suspended = FALSE]
    ELSE [k EXCEPT !.held = s, !.setAt = at]

\* setSuspendedByCustomer(customer, false): not what was cancelled.
Lift(k) == [k EXCEPT !.suspended = k.cancelled /\ @]

-----------------------------------------------------------------------------
(* startCardSetup *)

\* The key has a customer: a page for that one.
OpenPage ==
    /\ key.customer # NoCustomer
    /\ pages' = pages \union {key.customer}
    /\ UNCHANGED <<stripe, key, creating, seen, reading, history>>

\* It has none: createCustomer() is asked for one.
StartSetup(c) ==
    /\ key.customer = NoCustomer
    /\ c \notin creating \union pages
    /\ creating' = creating \union {c}
    /\ UNCHANGED <<stripe, key, pages, seen, reading, history>>

\* Its answer is stored, whatever was stored meanwhile, and a page opened.
FinishSetup(c) ==
    /\ c \in creating
    /\ creating' = creating \ {c}
    /\ key' = [key EXCEPT !.customer = c]
    /\ pages' = pages \union {c}
    /\ UNCHANGED <<stripe, seen, reading, history>>

Checkout(c, s) ==
    /\ c \in pages
    /\ CompleteCheckout(c, s)
    /\ UNCHANGED <<key, creating, pages, seen, reading, history>>

-----------------------------------------------------------------------------
(* completeCardSetup *)

\* The subscription is read, or the read fails; one that ended goes no further.
ReadSubscription(s) ==
    /\ standing[s] # "none"
    /\ \/ reading' = [reading EXCEPT ![s] = "unknown"]
       \/ /\ standing[s] # "canceled"
          /\ reading' = [reading EXCEPT ![s] = "alive"]
    /\ UNCHANGED <<stripe, key, creating, pages, seen, history>>

\* Mutant: an unread subscription takes the place of another.
MayStoreAny(s) == reading[s] # "nothing"

\* What was not read only fills an empty slot.
MayStore(s) ==
    \/ reading[s] = "alive"
    \/ reading[s] = "unknown" /\ key.held \in {NoSub, s}

StoreSubscription(s) ==
    /\ MayStore(s)
    /\ key' = Holds([key EXCEPT !.customer = customerOf[s]], s, Now)
    /\ reading' = [reading EXCEPT ![s] = "nothing"]
    /\ revived' = IF reading[s] = "alive" /\ standing[s] = "canceled"
                  THEN revived \union {s} ELSE revived
    /\ off' = IF key.held # s /\ About(s) \intersect seen # {}
              THEN off \union {s} ELSE off
    /\ UNCHANGED <<stripe, creating, pages, seen, notified, crashes>>

-----------------------------------------------------------------------------
(* handleStripeWebhook *)

\* Mutant: a late event of an older Checkout puts its subscription back.
NeverStale(i) == FALSE

\* An event of a Checkout that is older than what the key was given since.
StaleCheckout(i) ==
    /\ key.held \notin {NoSub, published[i].sub}
    /\ i < key.setAt

\* An event of a subscription carries its identifier.  An invoice names it where
\* its API version does, which need not be where the webhook reads it; which it
\* was is chosen at each delivery.
MayBe(named, i) == named \/ published[i].kind \in {"paid", "failed"}

\* Mutant: an event about any subscription of the customer.
ConcernsCustomer(i, named) == key.customer = customerOf[published[i].sub]

\* The key of the event's customer, unless the event names a subscription and the
\* key holds another.
Concerns(i, named) ==
    /\ key.customer = customerOf[published[i].sub]
    /\ named => key.held \in {NoSub, published[i].sub}

\* checkout.session.completed: setStripeCustomer, then setSubscription.
ApplyCheckout(i) ==
    LET s == published[i].sub
    IN  /\ published[i].kind = "checkout"
        /\ key' = IF StaleCheckout(i) THEN key
                  ELSE Holds([key EXCEPT !.customer = customerOf[s]], s, i)
        /\ UNCHANGED notified

\* invoice.paid
ApplyPaid(i, named) ==
    /\ published[i].kind = "paid"
    /\ key' = IF Concerns(i, named) THEN Lift(key) ELSE key
    /\ UNCHANGED notified

\* customer.subscription.updated to active: a key that is not cancelled also
\* holds it from now on.
ApplyActive(i, named) ==
    /\ published[i].kind = "active"
    /\ key' = IF ~Concerns(i, named) THEN key
              ELSE IF key.cancelled THEN Lift(key)
              ELSE Holds(Lift(key), published[i].sub, Now)
    /\ UNCHANGED notified

\* invoice.payment_failed and the updates like it
ApplyFailed(i, named) ==
    /\ published[i].kind = "failed"
    /\ key' = IF Concerns(i, named) THEN [key EXCEPT !.suspended = TRUE] ELSE key
    /\ UNCHANGED notified

\* cancelByCustomer()
ApplyEnded(i, named) ==
    /\ published[i].kind = "ended"
    /\ key' = IF Concerns(i, named) THEN [key EXCEPT !.suspended = TRUE, !.cancelled = TRUE]
              ELSE key
    /\ notified' = IF Concerns(i, named) /\ CheckoutOf(published[i].sub) \subseteq seen
                   THEN notified \union {published[i].sub} ELSE notified

ApplyEvent(i, named) ==
    \/ ApplyCheckout(i)
    \/ ApplyPaid(i, named) \/ ApplyActive(i, named)
    \/ ApplyFailed(i, named) \/ ApplyEnded(i, named)

\* It is about the subscription that the customer's key holds, if it holds one.
ItsOwn(i) ==
    /\ key.customer = customerOf[published[i].sub]
    /\ key.held \in {NoSub, published[i].sub}

\* An event that is not the next of its subscription, the Checkout's being the
\* first, or that is not the key's own.
OutOfTurn(i) ==
    LET same == About(published[i].sub)
        checkouts == CheckoutOf(published[i].sub)
    IN  \/ i \in checkouts /\ (same \ checkouts) \intersect seen # {}
        \/ i \notin checkouts /\ ~(checkouts \subseteq seen /\ ItsOwn(i))
        \/ i \notin checkouts /\ \E j \in same \ checkouts :
                                    (j < i) # (j \in seen) /\ j # i

\* The subscription that the key holds, when an event that names none changes the
\* key and is another's.
Mistaken(i, named) == IF named \/ ItsOwn(i) \/ key' = key THEN {} ELSE {key.held}

NoteTurn(i, named) ==
    off' = off \union Mistaken(i, named)
               \union (IF OutOfTurn(i) THEN {published[i].sub} ELSE {})

Deliver(i, named) ==
    /\ i \notin seen
    /\ MayBe(named, i)
    /\ ApplyEvent(i, named)
    /\ seen' = seen \union {i}
    /\ NoteTurn(i, named)
    /\ UNCHANGED <<stripe, creating, pages, reading, revived, crashes>>

\* The writes of ApplyEvent(i, named) before its last one.
ApplyHalf(i, named) ==
    /\ \/ /\ published[i].kind = "checkout" /\ ~StaleCheckout(i)
          /\ key' = [key EXCEPT !.customer = customerOf[published[i].sub]]
       \/ /\ published[i].kind = "active" /\ Concerns(i, named)
          /\ key' = Lift(key)
    /\ UNCHANGED notified

\* The process stops before claimStripeEvent(): Stripe will deliver it again.
DeliverAndCrash(i, named) ==
    /\ crashes < MaxCrashes
    /\ i \notin seen
    /\ MayBe(named, i)
    /\ ApplyEvent(i, named) \/ ApplyHalf(i, named)
    /\ NoteTurn(i, named)
    /\ crashes' = crashes + 1
    /\ UNCHANGED <<stripe, creating, pages, seen, reading, revived>>

Next ==
    \/ OpenPage
    \/ \E c \in Customers : StartSetup(c) \/ FinishSetup(c)
    \/ \E c \in Customers, s \in Subscriptions : Checkout(c, s)
    \/ \E s \in Subscriptions :
          /\ StripeStep(s, {"paid", "active"})
          /\ UNCHANGED <<key, creating, pages, seen, reading, history>>
    \/ \E s \in Subscriptions : ReadSubscription(s) \/ StoreSubscription(s)
    \/ \E i \in Events, named \in BOOLEAN :
          Deliver(i, named) \/ DeliverAndCrash(i, named)

Spec == Init /\ [][Next]_vars

-----------------------------------------------------------------------------

\* The record's fields, and events that were published.
TypeOK ==
    /\ StripeTypeOK
    /\ key \in Key
    /\ creating \subseteq Customers /\ pages \subseteq Customers
    /\ seen \subseteq Events
    /\ reading \in [Subscriptions -> {"nothing", "unknown", "alive"}]
    /\ notified \subseteq Subscriptions /\ revived \subseteq Subscriptions
    /\ off \subseteq Subscriptions
    /\ crashes \in 0..MaxCrashes

\* A key that was told of the Checkout and of the end of the subscription it
\* holds stays suspended and cancelled as long as it holds that one: no late
\* invoice, update, failure or Checkout of any subscription and no reopened
\* return URL brings the dead one back to life, unless Stripe was asked about it
\* before it ended (applyStripeEvent, completeCardSetup, setSubscription).
DeadStaysDead ==
    key.held \in notified \ revived => key.suspended /\ key.cancelled

\* No webhook puts an older Checkout in place of a newer one, however late its
\* event is and however often it comes (applyStripeEvent).
NoWebhookSubscribesBack ==
    [][seen' # seen \/ crashes' # crashes =>
         \A i \in CheckoutOf(key.held), j \in CheckoutOf(key'.held) : i <= j]_vars

\* When the events of the held subscription have all come, each in its turn, the
\* key is suspended just when Stripe has not been paid, and cancelled just when
\* the subscription ended.  What came of any other subscription meanwhile makes no
\* difference, but for an invoice that names none: when that changed the key, the
\* claim is off (handleStripeWebhook, eventSubscription).
InStepWithStripe ==
    \A s \in Subscriptions \ off :
        key.held = s /\ About(s) \subseteq seen =>
            /\ key.suspended <=> standing[s] # "active"
            /\ key.cancelled <=> standing[s] = "canceled"

=============================================================================
