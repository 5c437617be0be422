------------------------ MODULE StripeSubscriptions ------------------------
(***************************************************************************)
(* Stripe as its two webhook consumers see it (api/billing.ts,             *)
(* site/lib/billing.ts): subscriptions that Checkout starts, whose         *)
(* invoices fail and are paid and that end, and the events published about *)
(* them.  An event is a position in published; that position is its        *)
(* identifier and its creation time.  Consumers are sent events in any     *)
(* order and more than once.                                               *)
(***************************************************************************)
EXTENDS Naturals, Sequences

CONSTANTS
    Subscriptions,
    Customers,
    NoCustomer,
    MaxEvents         \* bound on the events published

ASSUME StripeAssumption ==
    /\ NoCustomer \notin Customers
    /\ MaxEvents \in Nat

VARIABLES
    standing,         \* subscription -> what Stripe says of it
    customerOf,       \* subscription -> the customer whose Checkout made it
    published         \* events, in the order they were created

stripe == <<standing, customerOf, published>>

\* "active" is customer.subscription.updated to active or trialing, "failed" is
\* invoice.payment_failed or an update to past_due, unpaid or paused, "ended" is
\* customer.subscription.deleted or an update to canceled.
Kinds == {"checkout", "paid", "active", "failed", "ended"}

Standings == {"none", "active", "past_due", "canceled"}

Event(kind, s) == [kind |-> kind, sub |-> s]

Events == 1..Len(published)

\* The events about s that are published.
About(s) == {i \in Events : published[i].sub = s}

StripeInit ==
    /\ standing = [s \in Subscriptions |-> "none"]
    /\ customerOf = [s \in Subscriptions |-> NoCustomer]
    /\ published = <<>>

CheckoutOf(s) == {i \in About(s) : published[i].kind = "checkout"}

Publish(events) ==
    /\ Len(published) + Len(events) <= MaxEvents
    /\ published' = published \o events

\* The customer completes a Checkout page.  Which of the session's event and that
\* of its first invoice is the older is no matter, as no consumer is sent them in
\* order and only Checkouts' times are compared.
CompleteCheckout(c, s) ==
    /\ standing[s] = "none"
    /\ standing' = [standing EXCEPT ![s] = "active"]
    /\ customerOf' = [customerOf EXCEPT ![s] = c]
    /\ LET done == Event("checkout", s)
           paid == Event("paid", s)
       IN  Publish(<<done, paid>>)

\* An invoice is charged in vain.
FailInvoice(s) ==
    /\ standing[s] \in {"active", "past_due"}
    /\ standing' = [standing EXCEPT ![s] = "past_due"]
    /\ Publish(<<Event("failed", s)>>)
    /\ UNCHANGED customerOf

\* An invoice is paid, or the subscription is updated to active.
PayInvoice(s, kind) ==
    /\ standing[s] \in {"active", "past_due"}
    /\ standing' = [standing EXCEPT ![s] = "active"]
    /\ Publish(<<Event(kind, s)>>)
    /\ UNCHANGED customerOf

\* The customer or Stripe ends the subscription.
EndSubscription(s) ==
    /\ standing[s] \in {"active", "past_due"}
    /\ standing' = [standing EXCEPT ![s] = "canceled"]
    /\ Publish(<<Event("ended", s)>>)
    /\ UNCHANGED customerOf

\* The last invoice of an ended subscription is paid.
PayFinalInvoice(s) ==
    /\ standing[s] = "canceled"
    /\ Publish(<<Event("paid", s)>>)
    /\ UNCHANGED <<standing, customerOf>>

\* kinds: those of "paid" and "active" that the consumer tells apart.
StripeStep(s, kinds) ==
    \/ FailInvoice(s)
    \/ \E kind \in kinds : PayInvoice(s, kind)
    \/ EndSubscription(s)
    \/ PayFinalInvoice(s)

StripeTypeOK ==
    /\ standing \in [Subscriptions -> Standings]
    /\ customerOf \in [Subscriptions -> Customers \union {NoCustomer}]
    /\ published \in Seq([kind : Kinds, sub : Subscriptions])
    /\ Len(published) <= MaxEvents
    /\ \A i \in Events : standing[published[i].sub] # "none"

=============================================================================
