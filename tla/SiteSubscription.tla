-------------------------- MODULE SiteSubscription --------------------------
(***************************************************************************)
(* The subscription of one account of the public site and its live key:    *)
(* terms, payment set-up, the return from Checkout, Stripe's webhook, the  *)
(* trial and the issue of keys (site/server.ts, site/lib/billing.ts,       *)
(* site/lib/keylife.ts), with STRIPE_PRICE_ID set.                         *)
(*                                                                         *)
(* A subscription stands for the Checkout session that makes it too, which *)
(* always saves a card.  suspendedReason is subscription_cancelled just    *)
(* when status is cancelled, and is left out.  A handler that awaits       *)
(* Stripe is the steps around its last await; every other one runs in one  *)
(* withDb().  paid stands for every event that reactivates.                *)
(***************************************************************************)
EXTENDS StripeSubscriptions

CONSTANT NoSub

ASSUME SiteSubscriptionAssumption == NoSub \notin Subscriptions

VARIABLES
    account,          \* SubscriptionRecord; status none before the terms
    card,             \* a payment method is on file
    liveKey,          \* what the account's active live key is good for
    page,             \* subscription -> its Checkout session
    seen,             \* processedStripeEvents
    returning,        \* subscriptions read by a return that has not stored them
    linking,          \* subscription -> what the webhook of its Checkout read
    notified,         \* history: subscriptions whose end this record was told of
    revived,          \* history: those stored on a read from before their end
    off,              \* history: those whose record did not follow in turn
    overlap           \* history: a set-up began before all was known of another
                      \* one or beside one that was linked unpaid, or the terms
                      \* were signed again under a subscription

vars == <<stripe, account, card, liveKey, page, seen, returning, linking,
          notified, revived, off, overlap>>

history == <<notified, revived, off, overlap>>

Account == [status : {"none", "payment_pending", "trialing", "active", "cancelled"},
            held : Subscriptions \union {NoSub},
            customer : Customers \union {NoCustomer},
            suspended : BOOLEAN,
            trialStarted : BOOLEAN]

Lives == {"evaluation", "trial", "active"}

Page == [stage : {"unopened", "creating", "open"},
         customer : Customers \union {NoCustomer}]

Init ==
    /\ StripeInit
    /\ account = [status |-> "none", held |-> NoSub, customer |-> NoCustomer,
                  suspended |-> FALSE, trialStarted |-> FALSE]
    /\ card = FALSE
    /\ liveKey = "none"
    /\ page = [s \in Subscriptions |-> [stage |-> "unopened", customer |-> NoCustomer]]
    /\ seen = {}
    /\ returning = {}
    /\ linking = [s \in Subscriptions |-> "nothing"]
    /\ notified = {}
    /\ revived = {}
    /\ off = {}
    /\ overlap = FALSE

-----------------------------------------------------------------------------
(* keylife.ts *)

\* keyLifeFor(): a trialing or active account's key lives to the end of the term.
KeyLifeFor(status) ==
    IF status = "active" THEN "active"
    ELSE IF status = "trialing" THEN "trial"
    ELSE "evaluation"

\* Mutant: the key keeps the life it was issued with.
NotPromoted(status) == liveKey

\* The loop that promotes the live key, if there is one.
Promoted(status) == IF liveKey = "none" THEN "none" ELSE KeyLifeFor(status)

-----------------------------------------------------------------------------
(* Terms, payment set-up, trial and key *)

\* Subscriptions that the account's record has been told something of.
KnownOf ==
    {s \in Subscriptions : account.held = s \/ About(s) \intersect seen # {}}

\* handleAcceptTerms(): a new record, which keeps the customer only.
AcceptTerms ==
    /\ ~account.trialStarted /\ account.status # "cancelled"
    /\ account' = [account EXCEPT !.status = "payment_pending", !.held = NoSub,
                                  !.suspended = FALSE]
    /\ off' = off \union KnownOf
    /\ notified' = {}
    /\ overlap' = (overlap \/ account.held # NoSub)
    /\ UNCHANGED <<stripe, card, liveKey, page, seen, returning, linking, revived>>

\* Mutant: another Checkout for an account that has a subscription.
MaySubscribeAnyway == account.status # "none"

\* One subscription per account, unless it was cancelled.
MaySubscribe ==
    /\ account.status # "none"
    /\ account.held = NoSub \/ account.status = "cancelled"

\* A session that was begun and may still change what is known.
Unsettled(s) ==
    /\ page[s].stage # "unopened"
    /\ \/ standing[s] = "none" \/ ~(About(s) \subseteq seen)
       \/ s \in returning \/ linking[s] # "nothing"

\* The account is cancelled for one subscription and was linked since to another
\* that Stripe was not paid for, which leaves it cancelled.
LinkedUnpaid == account.status = "cancelled" /\ account.held \notin notified

NoteOverlap ==
    overlap' = (overlap \/ LinkedUnpaid \/ \E s \in Subscriptions : Unsettled(s))

\* handlePaymentSetup() with a customer on record.
OpenPage(s) ==
    /\ MaySubscribe
    /\ page[s].stage = "unopened"
    /\ account.customer # NoCustomer
    /\ page' = [page EXCEPT ![s] = [stage |-> "open", customer |-> account.customer]]
    /\ NoteOverlap
    /\ UNCHANGED <<stripe, account, card, liveKey, seen, returning, linking,
                   notified, revived, off>>

\* Without one: createBillingCustomer() is asked for it.
StartSetup(s, c) ==
    /\ MaySubscribe
    /\ page[s].stage = "unopened"
    /\ account.customer = NoCustomer
    /\ \A t \in Subscriptions : page[t].customer # c
    /\ page' = [page EXCEPT ![s] = [stage |-> "creating", customer |-> c]]
    /\ NoteOverlap
    /\ UNCHANGED <<stripe, account, card, liveKey, seen, returning, linking,
                   notified, revived, off>>

\* Its answer is stored, whatever was stored meanwhile.
FinishSetup(s) ==
    /\ page[s].stage = "creating"
    /\ page' = [page EXCEPT ![s].stage = "open"]
    /\ account' = [account EXCEPT !.customer = page[s].customer]
    /\ UNCHANGED <<stripe, card, liveKey, seen, returning, linking, history>>

Checkout(s) ==
    /\ page[s].stage = "open"
    /\ CompleteCheckout(page[s].customer, s)
    /\ UNCHANGED <<account, card, liveKey, page, seen, returning, linking, history>>

\* Mutant: the trial starts without a payment method.
StartTrialAnyway ==
    /\ account.status \notin {"none", "cancelled"}
    /\ ~account.trialStarted
    /\ account' = [account EXCEPT !.status = "trialing", !.trialStarted = TRUE]
    /\ liveKey' = Promoted("trialing")
    /\ UNCHANGED <<stripe, card, page, seen, returning, linking, history>>

\* handleStartTrial() of a trial that has not started.
StartTrial ==
    /\ card
    /\ account.status \notin {"none", "cancelled"}
    /\ ~account.trialStarted
    /\ account' = [account EXCEPT !.status = "trialing", !.trialStarted = TRUE]
    /\ liveKey' = Promoted("trialing")
    /\ UNCHANGED <<stripe, card, page, seen, returning, linking, history>>

\* handleIssueKey() of a live key, which takes the place of the one before.
IssueKey ==
    /\ card
    /\ liveKey' = KeyLifeFor(account.status)
    /\ UNCHANGED <<stripe, account, card, page, seen, returning, linking, history>>

-----------------------------------------------------------------------------
(* handleBillingReturn *)

\* completeMeteredCheckout(); only a subscription in good standing goes on.
BeginReturn(s) ==
    /\ standing[s] = "active"
    /\ returning' = returning \union {s}
    /\ UNCHANGED <<stripe, account, card, liveKey, page, seen, linking, history>>

\* Neither the one that was cancelled nor one beside the current one.
MayReturn(s) ==
    IF account.status = "cancelled" THEN account.held # s
    ELSE account.held \in {NoSub, s}

ReturnedStatus ==
    IF account.status \in {"active", "trialing"} THEN account.status
    ELSE IF account.trialStarted /\ account.status = "cancelled" THEN "active"
    ELSE "trialing"

FinishReturn(s) ==
    /\ s \in returning
    /\ returning' = returning \ {s}
    /\ IF MayReturn(s)
       THEN /\ account' = [status |-> ReturnedStatus, held |-> s,
                           customer |-> customerOf[s], suspended |-> FALSE,
                           trialStarted |-> TRUE]
            /\ card' = TRUE
            /\ liveKey' = Promoted(ReturnedStatus)
            /\ revived' = IF standing[s] = "canceled" THEN revived \union {s} ELSE revived
            /\ off' = IF standing[s] = "active" THEN off \ {s} ELSE off \union {s}
       ELSE UNCHANGED <<account, card, liveKey, revived, off>>
    /\ UNCHANGED <<stripe, page, seen, linking, notified, overlap>>

-----------------------------------------------------------------------------
(* handleBillingWebhook: checkout.session.completed *)

\* completeMeteredCheckout() for the webhook; of one that ended only the event
\* is remembered.
BeginLink(s) ==
    /\ CheckoutOf(s) \ seen # {}
    /\ IF standing[s] = "canceled"
       THEN /\ seen' = seen \union CheckoutOf(s)
            /\ UNCHANGED linking
       ELSE /\ linking' = [linking EXCEPT ![s] = IF standing[s] = "active" THEN "good" ELSE "bad"]
            /\ UNCHANGED seen
    /\ UNCHANGED <<stripe, account, card, liveKey, page, returning, history>>

\* applyCheckoutCompletion() links the checkout, unless the account has another.
MayLink(s) == account.status = "cancelled" \/ account.held \in {NoSub, s}

Linked(s) == [account EXCEPT !.customer = customerOf[s], !.held = s]

Resubscribes(s) == account.status = "cancelled" /\ account.held # s

\* A first subscription starts the trial, another one after a cancellation is
\* active at once and leaves the key as it is.
ApplyCheckoutCompletion(s) ==
    /\ card' = TRUE
    /\ IF linking[s] = "good" /\ Resubscribes(s)
       THEN /\ account' = [Linked(s) EXCEPT !.status = "active", !.suspended = FALSE]
            /\ UNCHANGED liveKey
       ELSE IF linking[s] = "good" /\ account.status = "payment_pending"
       THEN /\ account' = [Linked(s) EXCEPT !.status = "trialing", !.suspended = FALSE,
                                            !.trialStarted = TRUE]
            /\ liveKey' = Promoted("trialing")
       ELSE /\ account' = Linked(s)
            /\ UNCHANGED liveKey

\* Whether the link unlocks the account.
Unlocks(s) ==
    linking[s] = "good" /\ (Resubscribes(s) \/ account.status = "payment_pending")

\* What a link makes of the history: a fresh reading sets the record right, one
\* that was overtaken, or that only changes what is held, leaves it off.
NoteLink(s) ==
    /\ revived' = IF standing[s] = "canceled" THEN revived \union {s} ELSE revived
    /\ off' = IF Unlocks(s) /\ standing[s] = "active" THEN off \ {s}
              ELSE IF Unlocks(s) \/ account.held # s THEN off \union {s}
              ELSE off

FinishLink(s) ==
    /\ linking[s] # "nothing"
    /\ linking' = [linking EXCEPT ![s] = "nothing"]
    /\ seen' = seen \union CheckoutOf(s)
    /\ IF CheckoutOf(s) \subseteq seen \/ ~MayLink(s)
       THEN UNCHANGED <<account, card, liveKey, revived, off>>
       ELSE ApplyCheckoutCompletion(s) /\ NoteLink(s)
    /\ UNCHANGED <<stripe, page, returning, notified, overlap>>

-----------------------------------------------------------------------------
(* handleBillingWebhook: the other events *)

\* The account of the event's customer, unless it holds another subscription.
Mine(i) ==
    /\ account.customer = customerOf[published[i].sub]
    /\ account.held \in {NoSub, published[i].sub}

\* Whatever the event, the account holds its subscription from now on.
Named(i) ==
    IF account.status = "cancelled" THEN account
    ELSE [account EXCEPT !.held = published[i].sub]

\* Mutant: a paid invoice revives a cancelled account.
ReactivatedAnyway(i) == [Named(i) EXCEPT !.suspended = FALSE]

\* A paid invoice never revives what was cancelled.
Reactivated(i) == [Named(i) EXCEPT !.suspended = @ /\ account.status = "cancelled"]

Changed(i) ==
    IF published[i].kind = "failed" THEN [Named(i) EXCEPT !.suspended = TRUE]
    ELSE IF published[i].kind = "ended"
    THEN [Named(i) EXCEPT !.suspended = TRUE, !.status = "cancelled"]
    ELSE Reactivated(i)

\* An event after which a later one of its subscription came first.
OutOfTurn(i) ==
    \E j \in About(published[i].sub) \ CheckoutOf(published[i].sub) :
        j # i /\ ((j < i) # (j \in seen))

Deliver(i) ==
    /\ i \notin seen
    /\ published[i].kind # "checkout"
    /\ seen' = seen \union {i}
    /\ account' = IF Mine(i) THEN Changed(i) ELSE account
    /\ notified' = IF Mine(i) /\ published[i].kind = "ended"
                   THEN notified \union {published[i].sub} ELSE notified
    /\ off' = IF OutOfTurn(i) \/ ~Mine(i) THEN off \union {published[i].sub} ELSE off
    /\ UNCHANGED <<stripe, card, liveKey, page, returning, linking, revived, overlap>>

-----------------------------------------------------------------------------

Next ==
    \/ AcceptTerms \/ StartTrial \/ IssueKey
    \/ \E s \in Subscriptions :
          \/ OpenPage(s) \/ FinishSetup(s) \/ Checkout(s)
          \/ BeginReturn(s) \/ FinishReturn(s)
          \/ BeginLink(s) \/ FinishLink(s)
    \/ \E s \in Subscriptions, c \in Customers : StartSetup(s, c)
    \/ \E s \in Subscriptions :
          /\ StripeStep(s, {"paid"})
          /\ UNCHANGED <<account, card, liveKey, page, seen, returning, linking,
                         history>>
    \/ \E i \in Events : Deliver(i)

Spec == Init /\ [][Next]_vars

-----------------------------------------------------------------------------

\* The record's fields, sessions, and events that were published; neither a trial
\* nor a key without a payment method.
TypeOK ==
    /\ StripeTypeOK
    /\ account \in Account
    /\ card \in BOOLEAN
    /\ liveKey \in Lives \union {"none"}
    /\ page \in [Subscriptions -> Page]
    /\ seen \subseteq Events
    /\ returning \subseteq Subscriptions
    /\ linking \in [Subscriptions -> {"nothing", "good", "bad"}]
    /\ notified \subseteq Subscriptions /\ revived \subseteq Subscriptions
    /\ off \subseteq Subscriptions
    /\ overlap \in BOOLEAN
    /\ account.trialStarted \/ liveKey # "none" => card

\* An account told that the subscription it holds ended stays cancelled and
\* suspended until it holds another, whatever comes late, twice or out of order
\* and whatever page is reopened, unless Stripe was asked before the end and the
\* answer used after it (handleBillingWebhook, handleBillingReturn).
CancelledUntilResubscribed ==
    account.held \in notified \ revived =>
        account.status = "cancelled" /\ account.suspended

\* When all events of the held subscription have come, and none of them late,
\* the account is suspended just when Stripe has not been paid and cancelled just
\* when the subscription ended (handleBillingWebhook).
InStepWithStripe ==
    \A s \in Subscriptions \ off :
        account.held = s /\ About(s) \subseteq seen =>
            /\ account.suspended <=> standing[s] # "active"
            /\ account.status = "cancelled" <=> standing[s] = "canceled"

\* server.ts 1518-1520: "One subscription per account."
\* Stripe has at most one to charge, and when all events have come the account
\* holds it, as long as no set-up begins while another may still change the
\* account, or while the account is linked to an unpaid one that left it cancelled
\* (applyCheckoutCompletion does, and handlePaymentSetup looks at the status), and
\* the terms are not signed again under a subscription.
OneSubscription ==
    LET live == {s \in Subscriptions : standing[s] \in {"active", "past_due"}}
    IN  ~overlap => \A s \in live : /\ live = {s}
                                    /\ Events \subseteq seen => account.held = s

\* However the trial starts -- by the button, the return or the webhook -- the
\* key that was issued before lives through the term (keyLifeFor).
TrialKeyLivesThroughTheTerm == account.status = "trialing" => liveKey # "evaluation"

\* keylife.ts 7-12: "a paying customer's key must not die mid-term. So a
\* trialing or active subscription gets a key that lives to the committed term
\* end".
KeyLivesThroughTheTerm ==
    account.status \in {"trialing", "active"} => liveKey # "evaluation"

=============================================================================
