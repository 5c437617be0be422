----------------------- MODULE SiteSubscription_proofs -----------------------
(***************************************************************************)
(* For any number of subscriptions, customers and events: an account that  *)
(* was told of the end of its subscription stays cancelled, a key that was *)
(* issued before the trial lives through it, Stripe has one subscription   *)
(* to charge, and an account whose events came in turn is what Stripe has. *)
(***************************************************************************)
EXTENDS SiteSubscription, SequenceTheorems, TLAPS

\* An end that was published, and so one that was told of, is final at Stripe.
EndsAreFinal ==
    /\ \A i \in Events :
          published[i].kind = "ended" => standing[published[i].sub] = "canceled"
    /\ \A s \in notified : standing[s] = "canceled"

\* A record that holds nothing was told of no end.
NothingHeldNothingEnded ==
    account.held = NoSub => notified = {} /\ account.status # "cancelled"

IInv ==
    /\ TypeOK
    /\ EndsAreFinal
    /\ NothingHeldNothingEnded
    /\ CancelledUntilResubscribed
    /\ TrialKeyLivesThroughTheTerm

EventRecord == [kind : Kinds, sub : Subscriptions]

-----------------------------------------------------------------------------
(* Stripe *)

\* What publishing adds comes after what was published.
LEMMA PublishAppends ==
  ASSUME NEW events \in Seq(EventRecord), published \in Seq(EventRecord),
         Publish(events)
  PROVE  /\ published' \in Seq(EventRecord)
         /\ Len(published') \in Nat /\ Len(published) \in Nat
         /\ Len(published') <= MaxEvents
         /\ \A i \in Events : i \in Events' /\ published'[i] = published[i]
         /\ \A i \in Events' \ Events :
               \E j \in 1 .. Len(events) : published'[i] = events[j]
<1>1. /\ published' = published \o events
      /\ Len(published) + Len(events) <= MaxEvents
  BY DEF Publish
<1>2. /\ published \o events \in Seq(EventRecord)
      /\ Len(published \o events) = Len(published) + Len(events)
      /\ \A i \in 1 .. Len(published) + Len(events) :
            (published \o events)[i] =
               IF i <= Len(published) THEN published[i] ELSE events[i - Len(published)]
  BY ConcatProperties
<1>3. Len(published) \in Nat /\ Len(events) \in Nat
  OBVIOUS
<1> HIDE DEF Publish
<1>4. \A i \in Events : i \in Events' /\ published'[i] = published[i]
  BY <1>1, <1>2, <1>3 DEF Events
<1>5. ASSUME NEW i \in Events' \ Events
      PROVE  \E j \in 1 .. Len(events) : published'[i] = events[j]
  <2>1. /\ i \in 1 .. Len(published) + Len(events)
        /\ ~(i <= Len(published))
    BY <1>1, <1>2, <1>3, <1>5 DEF Events
  <2>2. i - Len(published) \in 1 .. Len(events)
    BY <1>3, <2>1
  <2> QED
    BY <1>1, <1>2, <2>1, <2>2
<1>6. published' \in Seq(EventRecord)
  BY <1>1, <1>2
<1>7. Len(published') = Len(published) + Len(events)
  BY <1>1, <1>2
<1>8. Len(published') \in Nat /\ Len(published') <= MaxEvents
  BY <1>1, <1>3, <1>7
<1> QED
  BY <1>3, <1>4, <1>5, <1>6, <1>8

\* What Stripe does keeps its type and its ended subscriptions ended.
Ending ==
    /\ \A s \in Subscriptions :
          /\ standing[s] = "canceled" => standing'[s] = "canceled"
          /\ standing[s] # "none" => standing'[s] # "none"
    /\ \A i \in Events : i \in Events' /\ published'[i] = published[i]
    /\ \A i \in Events' \ Events :
          published'[i].kind = "ended" => standing'[published'[i].sub] = "canceled"

LEMMA EventsFollowStanding ==
  ASSUME StripeTypeOK, NEW events \in Seq(EventRecord), Publish(events),
         NEW s \in Subscriptions, NEW now \in Standings \ {"none"},
         standing' = [standing EXCEPT ![s] = now],
         standing[s] = "canceled" => now = "canceled",
         customerOf' \in [Subscriptions -> Customers \union {NoCustomer}],
         \A j \in 1 .. Len(events) :
            events[j].sub = s /\ (events[j].kind = "ended" => now = "canceled")
  PROVE  StripeTypeOK' /\ Ending
<1>1. /\ standing \in [Subscriptions -> Standings]
      /\ published \in Seq(EventRecord)
      /\ \A i \in Events : standing[published[i].sub] # "none"
  BY DEF StripeTypeOK, EventRecord
<1>2. /\ published' \in Seq(EventRecord)
      /\ Len(published') <= MaxEvents
      /\ \A i \in Events : i \in Events' /\ published'[i] = published[i]
      /\ \A i \in Events' \ Events :
            \E j \in 1 .. Len(events) : published'[i] = events[j]
  BY <1>1, PublishAppends
<1>3. /\ standing' \in [Subscriptions -> Standings]
      /\ standing'[s] = now
      /\ \A t \in Subscriptions : t # s => standing'[t] = standing[t]
  BY <1>1
<1>4. \A i \in Events' \ Events :
          /\ published'[i].sub = s
          /\ published'[i].kind = "ended" => now = "canceled"
  BY <1>2
<1>5. \A i \in Events : published[i].sub \in Subscriptions
  <2>1. \A i \in Events : published[i] \in EventRecord
    BY <1>1, ElementOfSeq DEF Events
  <2> QED
    BY <2>1 DEF EventRecord
<1>6. Ending
  BY <1>2, <1>3, <1>4 DEF Ending
<1>7. \A i \in Events' : standing'[published'[i].sub] # "none"
  BY <1>1, <1>2, <1>3, <1>4, <1>5
<1> QED
  BY <1>2, <1>3, <1>6, <1>7 DEF StripeTypeOK, EventRecord

LEMMA CheckoutAtStripe ==
  ASSUME StripeTypeOK, NEW c \in Customers \union {NoCustomer},
         NEW s \in Subscriptions, CompleteCheckout(c, s)
  PROVE  StripeTypeOK' /\ Ending
<1>1. /\ Event("checkout", s) \in EventRecord /\ Event("checkout", s).sub = s
      /\ Event("checkout", s).kind = "checkout"
      /\ Event("paid", s) \in EventRecord /\ Event("paid", s).sub = s
      /\ Event("paid", s).kind = "paid"
  BY DEF Event, EventRecord, Kinds
<1>2. PICK events \in Seq(EventRecord) :
          /\ Publish(events)
          /\ \A j \in 1 .. Len(events) : events[j].sub = s /\ events[j].kind # "ended"
  <2> DEFINE done == Event("checkout", s)
             paid == Event("paid", s)
  <2> HIDE DEF done, paid
  <2>1. /\ done \in EventRecord /\ done.sub = s /\ done.kind # "ended"
        /\ paid \in EventRecord /\ paid.sub = s /\ paid.kind # "ended"
    BY <1>1 DEF done, paid
  <2>2. Publish(<<done, paid>>)
    BY DEF CompleteCheckout, done, paid
  <2> DEFINE both == <<done, paid>>
  <2>3. /\ both \in Seq(EventRecord) /\ Len(both) = 2
        /\ both[1] = done /\ both[2] = paid
    BY <2>1
  <2>4. Publish(both)
    BY <2>2
  <2> HIDE DEF both
  <2>5. \A j \in 1 .. Len(both) : both[j] \in {done, paid}
    BY <2>3
  <2> QED
    BY <2>1, <2>3, <2>4, <2>5
<1>3. /\ standing' = [standing EXCEPT ![s] = "active"]
      /\ standing[s] = "none"
      /\ customerOf' = [customerOf EXCEPT ![s] = c]
  BY DEF CompleteCheckout
<1>4. customerOf' \in [Subscriptions -> Customers \union {NoCustomer}]
  BY <1>3 DEF StripeTypeOK
<1> QED
  BY <1>2, <1>3, <1>4, EventsFollowStanding DEF Standings

LEMMA StepAtStripe ==
  ASSUME StripeTypeOK, NEW s \in Subscriptions, NEW kinds \in SUBSET Kinds,
         "ended" \notin kinds, StripeStep(s, kinds)
  PROVE  StripeTypeOK' /\ Ending
<1>1. ASSUME NEW kind \in Kinds, NEW now \in Standings \ {"none"},
             Publish(<<Event(kind, s)>>), UNCHANGED customerOf,
             standing' = [standing EXCEPT ![s] = now],
             standing[s] = "canceled" => now = "canceled",
             kind = "ended" => now = "canceled"
      PROVE  StripeTypeOK' /\ Ending
  <2> DEFINE events == <<Event(kind, s)>>
  <2>1. customerOf' \in [Subscriptions -> Customers \union {NoCustomer}]
    BY <1>1 DEF StripeTypeOK
  <2>2. /\ Event(kind, s) \in EventRecord
        /\ Event(kind, s).sub = s /\ Event(kind, s).kind = kind
    BY DEF Event, EventRecord
  <2>3. /\ events \in Seq(EventRecord)
        /\ Len(events) = 1 /\ events[1] = Event(kind, s)
    BY <2>2
  <2>4. Publish(events)
    BY <1>1
  <2> HIDE DEF events
  <2>5. \A j \in 1 .. Len(events) :
            events[j].sub = s /\ (events[j].kind = "ended" => now = "canceled")
    BY <1>1, <2>2, <2>3
  <2> QED
    BY <1>1, <2>1, <2>3, <2>4, <2>5, EventsFollowStanding
<1>2. CASE FailInvoice(s)
  BY <1>1, <1>2 DEF FailInvoice, Standings, Kinds
<1>3. CASE \E kind \in kinds : PayInvoice(s, kind)
  <2>1. PICK kind \in kinds : PayInvoice(s, kind)
    BY <1>3
  <2>2. kind \in Kinds /\ kind # "ended"
    OBVIOUS
  <2> QED
    BY <1>1, <2>1, <2>2 DEF PayInvoice, Standings
<1>4. CASE EndSubscription(s)
  BY <1>1, <1>4 DEF EndSubscription, Standings, Kinds
<1>5. CASE PayFinalInvoice(s)
  <2>1. standing' = [standing EXCEPT ![s] = "canceled"]
    BY <1>5 DEF PayFinalInvoice, StripeTypeOK
  <2> QED
    BY <1>1, <1>5, <2>1 DEF PayFinalInvoice, Standings, Kinds
<1> QED
  BY <1>2, <1>3, <1>4, <1>5 DEF StripeStep

-----------------------------------------------------------------------------
(* The account *)

THEOREM InitIInv == Init => IInv
<1> SUFFICES ASSUME Init PROVE IInv
  OBVIOUS
<1>1. /\ published = <<>> /\ Events = {}
      /\ <<>> \in Seq(EventRecord)
  BY DEF Init, StripeInit, Events
<1>2. StripeTypeOK
  BY <1>1, StripeAssumption DEF Init, StripeInit, StripeTypeOK, EventRecord, Standings
<1>3. TypeOK
  BY <1>1, <1>2 DEF Init, TypeOK, Account, Lives, Page
<1> QED
  BY <1>1, <1>3 DEF Init, IInv, EndsAreFinal, NothingHeldNothingEnded,
     CancelledUntilResubscribed, TrialKeyLivesThroughTheTerm

LEMMA StripeStays ==
  ASSUME StripeTypeOK, UNCHANGED stripe
  PROVE  StripeTypeOK' /\ Ending /\ Events' = Events
BY DEF StripeTypeOK, Ending, stripe, Events

LEMMA FinalStaysFinal ==
  ASSUME IInv, Ending, notified' \subseteq notified
  PROVE  EndsAreFinal'
<1>1. \A i \in Events : published[i].sub \in Subscriptions
  <2>1. published \in Seq(EventRecord)
    BY DEF IInv, TypeOK, StripeTypeOK, EventRecord
  <2>2. \A i \in Events : published[i] \in EventRecord
    BY <2>1, ElementOfSeq DEF Events
  <2> QED
    BY <2>2 DEF EventRecord
<1>2. notified \subseteq Subscriptions
  BY DEF IInv, TypeOK
<1> QED
  BY <1>1, <1>2 DEF IInv, EndsAreFinal, Ending

\* A step that leaves the record and what is known of it as they are.
LEMMA RecordStays ==
  ASSUME IInv, StripeTypeOK', Ending,
         UNCHANGED <<account, card, liveKey, notified, revived>>,
         off' \subseteq Subscriptions, overlap' \in BOOLEAN,
         page' \in [Subscriptions -> Page],
         seen' \subseteq Events',
         returning' \subseteq Subscriptions,
         linking' \in [Subscriptions -> {"nothing", "good", "bad"}]
  PROVE  IInv'
<1>1. TypeOK'
  BY DEF IInv, TypeOK
<1>2. EndsAreFinal'
  BY FinalStaysFinal
<1> QED
  BY <1>1, <1>2 DEF IInv, NothingHeldNothingEnded, CancelledUntilResubscribed,
     TrialKeyLivesThroughTheTerm

LEMMA AcceptTermsIInv ==
  ASSUME IInv, AcceptTerms PROVE IInv'
<1>1. StripeTypeOK' /\ Ending /\ Events' = Events
  BY StripeStays DEF IInv, TypeOK, AcceptTerms
<1>2. /\ account' \in Account
      /\ account'.held = NoSub /\ account'.status = "payment_pending"
      /\ account'.trialStarted = account.trialStarted
  BY DEF AcceptTerms, IInv, TypeOK, Account
<1>3. notified' = {} /\ UNCHANGED <<card, liveKey, page, seen, returning, linking, revived>>
  BY DEF AcceptTerms
<1>4. off' \subseteq Subscriptions /\ overlap' \in BOOLEAN
  <2>1. KnownOf \subseteq Subscriptions
    BY DEF KnownOf
  <2> QED
    BY <2>1 DEF AcceptTerms, IInv, TypeOK
<1>5. TypeOK'
  BY <1>1, <1>2, <1>3, <1>4 DEF IInv, TypeOK
<1>6. EndsAreFinal'
  BY <1>1, <1>3, FinalStaysFinal
<1> QED
  BY <1>2, <1>3, <1>5, <1>6 DEF IInv, NothingHeldNothingEnded,
     CancelledUntilResubscribed, TrialKeyLivesThroughTheTerm

LEMMA OpenPageIInv ==
  ASSUME IInv, NEW s \in Subscriptions, OpenPage(s) PROVE IInv'
<1>1. /\ UNCHANGED <<stripe, account, card, liveKey, seen, returning, linking,
                     notified, revived, off>>
      /\ overlap' = (overlap \/ LinkedUnpaid \/ \E t \in Subscriptions : Unsettled(t))
  BY DEF OpenPage, NoteOverlap
<1>2. page' \in [Subscriptions -> Page]
  BY DEF OpenPage, IInv, TypeOK, Page, Account
<1>3. overlap' \in BOOLEAN
  BY <1>1 DEF IInv, TypeOK
<1>4. StripeTypeOK' /\ Ending /\ Events' = Events
  BY <1>1, StripeStays DEF IInv, TypeOK
<1> QED
  BY <1>1, <1>2, <1>3, <1>4, RecordStays DEF IInv, TypeOK

LEMMA StartSetupIInv ==
  ASSUME IInv, NEW s \in Subscriptions, NEW c \in Customers, StartSetup(s, c) PROVE IInv'
<1>1. /\ UNCHANGED <<stripe, account, card, liveKey, seen, returning, linking,
                     notified, revived, off>>
      /\ overlap' = (overlap \/ LinkedUnpaid \/ \E t \in Subscriptions : Unsettled(t))
  BY DEF StartSetup, NoteOverlap
<1>2. page' \in [Subscriptions -> Page]
  BY DEF StartSetup, IInv, TypeOK, Page, Account
<1>3. overlap' \in BOOLEAN
  BY <1>1 DEF IInv, TypeOK
<1>4. StripeTypeOK' /\ Ending /\ Events' = Events
  BY <1>1, StripeStays DEF IInv, TypeOK
<1> QED
  BY <1>1, <1>2, <1>3, <1>4, RecordStays DEF IInv, TypeOK

LEMMA FinishSetupIInv ==
  ASSUME IInv, NEW s \in Subscriptions, FinishSetup(s) PROVE IInv'
<1>1. StripeTypeOK' /\ Ending /\ Events' = Events
  BY StripeStays DEF IInv, TypeOK, FinishSetup
<1>2. /\ account' \in Account
      /\ account'.held = account.held /\ account'.status = account.status
      /\ account'.suspended = account.suspended
      /\ account'.trialStarted = account.trialStarted
  BY DEF FinishSetup, IInv, TypeOK, Account, Page
<1>3. page' \in [Subscriptions -> Page]
  BY DEF FinishSetup, IInv, TypeOK, Page
<1>4. UNCHANGED <<card, liveKey, seen, returning, linking, history>>
  BY DEF FinishSetup
<1>5. TypeOK'
  BY <1>1, <1>2, <1>3, <1>4 DEF IInv, TypeOK, history
<1>6. EndsAreFinal'
  BY <1>1, <1>4, FinalStaysFinal DEF history
<1> QED
  BY <1>2, <1>4, <1>5, <1>6 DEF IInv, NothingHeldNothingEnded,
     CancelledUntilResubscribed, TrialKeyLivesThroughTheTerm, history

LEMMA StripeIInv ==
  ASSUME IInv, NEW s \in Subscriptions,
         \/ Checkout(s)
         \/ /\ StripeStep(s, {"paid"})
            /\ UNCHANGED <<account, card, liveKey, page, seen, returning, linking,
                           history>>
  PROVE  IInv'
<1>1. UNCHANGED <<account, card, liveKey, page, seen, returning, linking, history>>
  BY DEF Checkout
<1>2. StripeTypeOK' /\ Ending
  <2>1. CASE Checkout(s)
    <3>1. page[s].customer \in Customers \union {NoCustomer}
      BY DEF IInv, TypeOK, Page
    <3> QED
      BY <2>1, <3>1, CheckoutAtStripe DEF Checkout, IInv, TypeOK
  <2>2. CASE StripeStep(s, {"paid"})
    <3>1. {"paid"} \in SUBSET Kinds /\ "ended" \notin {"paid"}
      BY DEF Kinds
    <3> QED
      BY <2>2, <3>1, StepAtStripe DEF IInv, TypeOK
  <2> QED
    BY <2>1, <2>2
<1>3. seen' \subseteq Events'
  BY <1>1, <1>2 DEF IInv, TypeOK, Ending
<1> QED
  BY <1>1, <1>2, <1>3, RecordStays DEF IInv, TypeOK, history

LEMMA PromotedLife ==
  ASSUME liveKey \in Lives \union {"none"}, NEW status
  PROVE  /\ Promoted(status) \in Lives \union {"none"}
         /\ status = "trialing" => Promoted(status) # "evaluation"
         /\ Promoted(status) # "none" => liveKey # "none"
BY DEF Promoted, KeyLifeFor, Lives

LEMMA StartTrialIInv ==
  ASSUME IInv, StartTrial PROVE IInv'
<1>1. StripeTypeOK' /\ Ending /\ Events' = Events
  BY StripeStays DEF IInv, TypeOK, StartTrial
<1>2. /\ account' \in Account
      /\ account'.held = account.held /\ account'.status = "trialing"
      /\ account.status # "cancelled"
  BY DEF StartTrial, IInv, TypeOK, Account
<1>3. /\ card' /\ card' \in BOOLEAN
      /\ UNCHANGED <<page, seen, returning, linking, history>>
      /\ liveKey' = Promoted("trialing")
  BY DEF StartTrial, IInv, TypeOK
<1>4. TypeOK'
  BY <1>1, <1>2, <1>3, PromotedLife DEF IInv, TypeOK, history
<1>5. EndsAreFinal'
  BY <1>1, <1>3, FinalStaysFinal DEF history
<1> QED
  BY <1>2, <1>3, <1>4, <1>5, PromotedLife DEF IInv, TypeOK, NothingHeldNothingEnded,
     CancelledUntilResubscribed, TrialKeyLivesThroughTheTerm, history

LEMMA IssueKeyIInv ==
  ASSUME IInv, IssueKey PROVE IInv'
<1>1. StripeTypeOK' /\ Ending /\ Events' = Events
  BY StripeStays DEF IInv, TypeOK, IssueKey
<1>2. /\ liveKey' \in Lives
      /\ account.status = "trialing" => liveKey' = "trial"
      /\ card /\ UNCHANGED <<account, card, page, seen, returning, linking, history>>
  BY DEF IssueKey, KeyLifeFor, Lives
<1>3. TypeOK'
  BY <1>1, <1>2 DEF IInv, TypeOK, history
<1>4. EndsAreFinal'
  BY <1>1, <1>2, FinalStaysFinal DEF history
<1> QED
  BY <1>2, <1>3, <1>4 DEF IInv, NothingHeldNothingEnded,
     CancelledUntilResubscribed, TrialKeyLivesThroughTheTerm, history

LEMMA BeginReturnIInv ==
  ASSUME IInv, NEW s \in Subscriptions, BeginReturn(s) PROVE IInv'
<1>1. StripeTypeOK' /\ Ending /\ Events' = Events
  BY StripeStays DEF IInv, TypeOK, BeginReturn
<1> QED
  BY <1>1, RecordStays DEF IInv, TypeOK, BeginReturn, history

LEMMA CustomerKnown ==
  ASSUME IInv, NEW s \in Subscriptions
  PROVE  customerOf[s] \in Customers \union {NoCustomer}
BY DEF IInv, TypeOK, StripeTypeOK

LEMMA FinishReturnIInv ==
  ASSUME IInv, NEW s \in Subscriptions, FinishReturn(s) PROVE IInv'
<1>1. StripeTypeOK' /\ Ending /\ Events' = Events
  BY StripeStays DEF IInv, TypeOK, FinishReturn
<1>2. /\ returning' \subseteq Subscriptions
      /\ UNCHANGED <<stripe, page, seen, linking, notified, overlap>>
  BY DEF FinishReturn, IInv, TypeOK
<1>3. CASE MayReturn(s)
  <2>1. ReturnedStatus \in {"active", "trialing"}
    BY DEF ReturnedStatus
  <2>2. /\ account' \in Account /\ account'.held = s
        /\ account'.status = ReturnedStatus
    <3>1. account' = [status |-> ReturnedStatus, held |-> s,
                      customer |-> customerOf[s], suspended |-> FALSE,
                      trialStarted |-> TRUE]
      BY <1>3 DEF FinishReturn
    <3> QED
      BY <2>1, <3>1, CustomerKnown DEF Account
  <2>3. /\ card' = TRUE /\ liveKey' = Promoted(ReturnedStatus)
        /\ revived' = IF standing[s] = "canceled" THEN revived \union {s} ELSE revived
        /\ off' \subseteq Subscriptions
    BY <1>3 DEF FinishReturn, IInv, TypeOK
  <2>4. liveKey \in Lives \union {"none"}
    BY DEF IInv, TypeOK
  <2>5. /\ liveKey' \in Lives \union {"none"}
        /\ ReturnedStatus = "trialing" => liveKey' # "evaluation"
    BY <2>3, <2>4, PromotedLife
  <2>6. TypeOK'
    BY <1>1, <1>2, <2>2, <2>3, <2>5 DEF IInv, TypeOK
  <2>7. s \in notified => s \in revived'
    BY <2>3 DEF IInv, EndsAreFinal
  <2>8. EndsAreFinal'
    BY <1>1, <1>2, FinalStaysFinal
  <2> QED
    BY <1>2, <2>2, <2>5, <2>6, <2>7, <2>8, SiteSubscriptionAssumption
       DEF IInv, NothingHeldNothingEnded, CancelledUntilResubscribed,
       TrialKeyLivesThroughTheTerm
<1>4. CASE ~MayReturn(s)
  BY <1>1, <1>2, <1>4, RecordStays DEF FinishReturn, IInv, TypeOK
<1> QED
  BY <1>3, <1>4

LEMMA BeginLinkIInv ==
  ASSUME IInv, NEW s \in Subscriptions, BeginLink(s) PROVE IInv'
<1>1. StripeTypeOK' /\ Ending /\ Events' = Events
  BY StripeStays DEF IInv, TypeOK, BeginLink
<1>2. CheckoutOf(s) \subseteq Events
  BY DEF CheckoutOf, About
<1>3. /\ linking' \in [Subscriptions -> {"nothing", "good", "bad"}]
      /\ seen' \subseteq Events
      /\ UNCHANGED <<account, card, liveKey, page, returning, history>>
  BY <1>2 DEF BeginLink, IInv, TypeOK
<1> QED
  BY <1>1, <1>3, RecordStays DEF IInv, TypeOK, history

LEMMA FinishLinkIInv ==
  ASSUME IInv, NEW s \in Subscriptions, FinishLink(s) PROVE IInv'
<1>1. StripeTypeOK' /\ Ending /\ Events' = Events
  BY StripeStays DEF IInv, TypeOK, FinishLink
<1>2. CheckoutOf(s) \subseteq Events
  BY DEF CheckoutOf, About
<1>3. /\ linking' \in [Subscriptions -> {"nothing", "good", "bad"}]
      /\ seen' \subseteq Events
      /\ UNCHANGED <<stripe, page, returning, notified, overlap>>
  BY <1>2 DEF FinishLink, IInv, TypeOK
<1>4. CASE CheckoutOf(s) \subseteq seen \/ ~MayLink(s)
  <2>1. UNCHANGED <<account, card, liveKey, revived, off>>
    BY <1>4 DEF FinishLink
  <2> QED
    BY <1>1, <1>3, <2>1, RecordStays DEF IInv, TypeOK
<1>5. CASE ~(CheckoutOf(s) \subseteq seen \/ ~MayLink(s))
  <2>1. ApplyCheckoutCompletion(s) /\ NoteLink(s)
    BY <1>5 DEF FinishLink
  <2>2. /\ account' \in Account /\ account'.held = s
        /\ \/ account'.status = "active"
           \/ account'.status = "trialing" /\ liveKey' = Promoted("trialing")
           \/ account'.status = account.status /\ liveKey' = liveKey
    <3>1. account \in Account
      BY DEF IInv, TypeOK
    <3>2. /\ Linked(s) \in Account /\ Linked(s).held = s
          /\ Linked(s).status = account.status
      BY <3>1, CustomerKnown DEF Linked, Account
    <3> HIDE DEF Linked
    <3>3. \/ account' = [Linked(s) EXCEPT !.status = "active", !.suspended = FALSE]
          \/ /\ account' = [Linked(s) EXCEPT !.status = "trialing", !.suspended = FALSE,
                                             !.trialStarted = TRUE]
             /\ liveKey' = Promoted("trialing")
          \/ account' = Linked(s) /\ liveKey' = liveKey
      BY <2>1 DEF ApplyCheckoutCompletion
    <3> QED
      BY <3>2, <3>3 DEF Account
  <2>3. liveKey' = Promoted("trialing") \/ liveKey' = liveKey
    BY <2>1 DEF ApplyCheckoutCompletion
  <2>4. /\ card' = TRUE
        /\ revived' = IF standing[s] = "canceled" THEN revived \union {s} ELSE revived
        /\ off' \subseteq Subscriptions
    BY <2>1 DEF ApplyCheckoutCompletion, NoteLink, IInv, TypeOK
  <2>5. liveKey \in Lives \union {"none"}
    BY DEF IInv, TypeOK
  <2>6. /\ liveKey' \in Lives \union {"none"}
        /\ account'.status = "trialing" => liveKey' # "evaluation"
    BY <2>2, <2>3, <2>5, PromotedLife DEF IInv, TrialKeyLivesThroughTheTerm
  <2>7. TypeOK'
    BY <1>1, <1>3, <2>2, <2>4, <2>6 DEF IInv, TypeOK
  <2>8. s \in notified => s \in revived'
    BY <2>4 DEF IInv, EndsAreFinal
  <2>9. EndsAreFinal'
    BY <1>1, <1>3, FinalStaysFinal
  <2> QED
    BY <1>3, <2>2, <2>6, <2>7, <2>8, <2>9, SiteSubscriptionAssumption
       DEF IInv, NothingHeldNothingEnded, CancelledUntilResubscribed,
       TrialKeyLivesThroughTheTerm
<1> QED
  BY <1>4, <1>5

LEMMA DeliverIInv ==
  ASSUME IInv, NEW i \in Events, Deliver(i) PROVE IInv'
<1> DEFINE s == published[i].sub
<1>1. StripeTypeOK' /\ Ending /\ Events' = Events
  BY StripeStays DEF IInv, TypeOK, Deliver
<1>2. s \in Subscriptions
  <2>1. published \in Seq(EventRecord)
    BY DEF IInv, TypeOK, StripeTypeOK, EventRecord
  <2>2. published[i] \in EventRecord
    BY <2>1, ElementOfSeq DEF Events
  <2> QED
    BY <2>2 DEF EventRecord
<1>3. /\ seen' \subseteq Events' /\ off' \subseteq Subscriptions
      /\ UNCHANGED <<stripe, card, liveKey, page, returning, linking, revived, overlap>>
  <2>1. seen' = seen \union {i}
    BY DEF Deliver
  <2>2. off' \in {off \union {s}, off}
    BY DEF Deliver
  <2>3. seen \subseteq Events /\ off \subseteq Subscriptions
    BY DEF IInv, TypeOK
  <2>4. UNCHANGED <<stripe, card, liveKey, page, returning, linking, revived, overlap>>
    BY DEF Deliver
  <2> QED
    BY <1>1, <1>2, <2>1, <2>2, <2>3, <2>4
<1>4. CASE ~Mine(i)
  <2>1. account' = account /\ notified' = notified
    BY <1>4 DEF Deliver
  <2> QED
    BY <1>1, <1>3, <2>1, RecordStays DEF IInv, TypeOK
<1>5. CASE Mine(i)
  <2>1. account' = Changed(i) /\ account.held \in {NoSub, s}
    BY <1>5 DEF Deliver, Mine
  <2>2. account' \in Account
    BY <1>2, <2>1 DEF Changed, Reactivated, Named, IInv, TypeOK, Account
  <2>3. /\ account'.held \in {s, account.held}
        /\ account.status # "cancelled" => account'.held = s
        /\ account.status = "cancelled" => account'.held = account.held
    BY <1>2, <2>1 DEF Changed, Reactivated, Named, IInv, TypeOK, Account
  <2>4. /\ account'.status \in {account.status, "cancelled"}
        /\ published[i].kind = "ended" => account'.status = "cancelled" /\ account'.suspended
        /\ account.status = "cancelled" /\ account.suspended =>
              account'.status = "cancelled" /\ account'.suspended
        /\ account'.trialStarted = account.trialStarted
    BY <1>2, <2>1 DEF Changed, Reactivated, Named, IInv, TypeOK, Account
  <2>5. notified' = IF published[i].kind = "ended" THEN notified \union {s} ELSE notified
    BY <1>5 DEF Deliver
  <2>6. TypeOK'
    BY <1>1, <1>2, <1>3, <2>2, <2>4, <2>5 DEF IInv, TypeOK
  <2>7. published[i].kind = "ended" => standing[s] = "canceled"
    BY DEF IInv, EndsAreFinal
  <2>8. EndsAreFinal'
    BY <1>1, <1>3, <2>5, <2>7 DEF IInv, EndsAreFinal, stripe
  <2>9. NothingHeldNothingEnded'
    <3>1. account'.held = NoSub => account.held = NoSub /\ account.status = "cancelled"
      BY <1>2, <2>3, SiteSubscriptionAssumption
    <3>2. ~(account.held = NoSub /\ account.status = "cancelled")
      BY DEF IInv, NothingHeldNothingEnded
    <3> QED
      BY <3>1, <3>2 DEF NothingHeldNothingEnded
  <2>10. CancelledUntilResubscribed'
    <3>1. CASE published[i].kind = "ended"
      BY <2>4, <3>1 DEF CancelledUntilResubscribed
    <3>2. CASE published[i].kind # "ended"
      <4>1. notified' = notified /\ revived' = revived
        BY <1>3, <2>5, <3>2
      <4>2. account.held = NoSub => notified = {}
        BY DEF IInv, NothingHeldNothingEnded
      <4>3. account'.held \in notified \ revived => account'.held = account.held
        BY <2>1, <2>3, <4>2
      <4> QED
        BY <2>4, <4>1, <4>3 DEF IInv, CancelledUntilResubscribed
    <3> QED
      BY <3>1, <3>2
  <2>11. TrialKeyLivesThroughTheTerm'
    BY <1>3, <2>4 DEF IInv, TrialKeyLivesThroughTheTerm
  <2> QED
    BY <2>6, <2>8, <2>9, <2>10, <2>11 DEF IInv
<1> QED
  BY <1>4, <1>5

-----------------------------------------------------------------------------

LEMMA NextIInv ==
  ASSUME IInv, [Next]_vars PROVE IInv'
<1>1. CASE AcceptTerms \/ StartTrial \/ IssueKey
  BY <1>1, AcceptTermsIInv, StartTrialIInv, IssueKeyIInv
<1>2. ASSUME NEW s \in Subscriptions,
             \/ OpenPage(s) \/ FinishSetup(s) \/ Checkout(s)
             \/ BeginReturn(s) \/ FinishReturn(s)
             \/ BeginLink(s) \/ FinishLink(s)
      PROVE  IInv'
  BY <1>2, OpenPageIInv, FinishSetupIInv, StripeIInv, BeginReturnIInv, FinishReturnIInv,
     BeginLinkIInv, FinishLinkIInv
<1>3. ASSUME NEW s \in Subscriptions, NEW c \in Customers, StartSetup(s, c)
      PROVE  IInv'
  BY <1>3, StartSetupIInv
<1>4. ASSUME NEW s \in Subscriptions,
             StripeStep(s, {"paid"}),
             UNCHANGED <<account, card, liveKey, page, seen, returning, linking,
                         history>>
      PROVE  IInv'
  BY <1>4, StripeIInv
<1>5. ASSUME NEW i \in Events, Deliver(i) PROVE IInv'
  BY <1>5, DeliverIInv
<1>6. CASE UNCHANGED vars
  <2>1. StripeTypeOK' /\ Ending /\ Events' = Events
    BY <1>6, StripeStays DEF IInv, TypeOK, vars
  <2> QED
    BY <1>6, <2>1, RecordStays DEF IInv, TypeOK, vars
<1> QED
  BY <1>1, <1>2, <1>3, <1>4, <1>5, <1>6 DEF Next

LEMMA Inductive == Spec => []IInv
<1>1. Init => IInv
  BY InitIInv
<1>2. IInv /\ [Next]_vars => IInv'
  BY NextIInv
<1> QED
  BY <1>1, <1>2, PTL DEF Spec

\* The record, the sessions and the events keep their types, and there is neither
\* a trial nor a key without a payment method (handleStartTrial, handleIssueKey,
\* handleBillingReturn).
THEOREM Typed == Spec => []TypeOK
<1>1. IInv => TypeOK
  BY DEF IInv
<1> QED
  BY <1>1, Inductive, PTL

\* An account that was told of its subscription's end stays cancelled until it
\* holds another (handleBillingWebhook, handleBillingReturn).
THEOREM StaysCancelled == Spec => []CancelledUntilResubscribed
<1>1. IInv => CancelledUntilResubscribed
  BY DEF IInv
<1> QED
  BY <1>1, Inductive, PTL

\* A key that was issued before the trial lives through it (keyLifeFor).
THEOREM TrialKeyLives == Spec => []TrialKeyLivesThroughTheTerm
<1>1. IInv => TrialKeyLivesThroughTheTerm
  BY DEF IInv
<1> QED
  BY <1>1, Inductive, PTL

-----------------------------------------------------------------------------
(* One subscription *)

Live == {"active", "past_due"}

Opened(s) == page[s].stage # "unopened"

\* Nothing that is under way reads or changes what the account knows of s.
Dead(s) ==
    /\ standing[s] = "canceled"
    /\ s \notin returning /\ linking[s] = "nothing"
    /\ CheckoutOf(s) \subseteq seen

\* A subscription is that of its open page, and an ended one has told its end.
FromItsPage ==
    \A s \in Subscriptions :
        /\ standing[s] # "none" =>
              page[s].stage = "open" /\ customerOf[s] = page[s].customer
        /\ s \in returning \/ linking[s] # "nothing" => standing[s] # "none"
        /\ standing[s] = "canceled" => \E i \in About(s) : published[i].kind = "ended"

\* All pages are of the account's customer.
OneCustomer ==
    \A s \in Subscriptions :
        /\ page[s].stage = "creating" =>
              /\ page[s].customer # NoCustomer
              /\ \A t \in Subscriptions \ {s} : ~Opened(t)
        /\ page[s].stage = "open" =>
              page[s].customer = account.customer /\ account.customer # NoCustomer

\* An end that came finds the account or another subscription on it.
EndIsHeld ==
    \A i \in seen : published[i].kind = "ended" => account.held # NoSub

\* Of two that were begun one is over, and the account has held one.
OneGoesOn ==
    \A s, t \in Subscriptions :
        s # t /\ Opened(s) /\ Opened(t) => (Dead(s) \/ Dead(t)) /\ account.held # NoSub

\* What goes on and was linked is what the account holds.
LiveIsHeld ==
    \A s \in Subscriptions :
        standing[s] \in Live /\ CheckoutOf(s) \subseteq seen => account.held = s

\* An account that holds one and has begun another is cancelled.
NextIsAwaited ==
    \A s \in Subscriptions :
        Opened(s) /\ ~Dead(s) /\ account.held \notin {NoSub, s} =>
            account.status = "cancelled"

OneAtATime ==
    /\ OneCustomer
    /\ EndIsHeld
    /\ OneGoesOn
    /\ LiveIsHeld
    /\ NextIsAwaited

OneInv == FromItsPage /\ (~overlap => OneAtATime)

LEMMA AboutOne ==
  ASSUME IInv
  PROVE  /\ \A i \in Events : published[i].sub \in Subscriptions
         /\ \A i \in Events : standing[published[i].sub] # "none"
         /\ seen \subseteq Events
         /\ \A s \in Subscriptions : CheckoutOf(s) \subseteq About(s) /\ About(s) \subseteq Events
<1>1. published \in Seq(EventRecord)
  BY DEF IInv, TypeOK, StripeTypeOK, EventRecord
<1>2. \A i \in Events : published[i] \in EventRecord
  BY <1>1, ElementOfSeq DEF Events
<1> QED
  BY <1>2 DEF EventRecord, IInv, TypeOK, StripeTypeOK, CheckoutOf, About

\* A step that leaves the pages and what the account holds as they are.
LEMMA OneStays ==
  ASSUME IInv, OneInv, FromItsPage', ~overlap' => ~overlap, UNCHANGED page,
         account'.held = account.held, account'.customer = account.customer,
         account.status = "cancelled" => account'.status = "cancelled",
         \A s \in Subscriptions : Dead(s) => Dead(s)',
         \A s \in Subscriptions :
            standing'[s] \in Live /\ CheckoutOf(s)' \subseteq seen' /\ ~overlap =>
               \/ standing[s] \in Live /\ CheckoutOf(s) \subseteq seen
               \/ account.held = s,
         \A i \in seen' : published'[i].kind = "ended" =>
                             i \in seen /\ published[i].kind = "ended"
  PROVE  OneInv'
<1> SUFFICES ASSUME ~overlap' PROVE OneAtATime'
  BY DEF OneInv
<1>1. OneAtATime
  BY DEF OneInv
<1>2. OneCustomer'
  BY <1>1 DEF OneAtATime, OneCustomer, Opened
<1>3. EndIsHeld'
  BY <1>1 DEF OneAtATime, EndIsHeld
<1>4. OneGoesOn'
  BY <1>1 DEF OneAtATime, OneGoesOn, Opened
<1>5. LiveIsHeld'
  BY <1>1 DEF OneAtATime, LiveIsHeld
<1>6. NextIsAwaited'
  BY <1>1 DEF OneAtATime, NextIsAwaited, Opened
<1> QED
  BY <1>2, <1>3, <1>4, <1>5, <1>6 DEF OneAtATime

\* A step by which Stripe's subscriptions and the sessions stay.
LEMMA PagesStay ==
  ASSUME OneInv, UNCHANGED <<stripe, page>>,
         \A s \in Subscriptions :
            s \in returning' \/ linking'[s] # "nothing" =>
               s \in returning \/ linking[s] # "nothing" \/ standing[s] # "none"
  PROVE  FromItsPage'
BY DEF OneInv, FromItsPage, stripe, About, Events

\* The Checkouts of two subscriptions are different events.
LEMMA CheckoutsApart ==
  ASSUME NEW s \in Subscriptions, NEW t \in Subscriptions, s # t
  PROVE  CheckoutOf(s) \intersect CheckoutOf(t) = {}
BY DEF CheckoutOf, About

LEMMA QuietOne ==
  ASSUME IInv, OneInv, UNCHANGED <<stripe, page, seen, returning, linking>>,
         ~overlap' => ~overlap,
         account'.held = account.held, account'.customer = account.customer,
         account.status = "cancelled" => account'.status = "cancelled"
  PROVE  OneInv'
<1>1. FromItsPage'
  BY PagesStay
<1>2. \A s \in Subscriptions : CheckoutOf(s)' = CheckoutOf(s)
  BY DEF CheckoutOf, About, Events, stripe
<1>3. \A s \in Subscriptions : Dead(s)' = Dead(s)
  BY <1>2 DEF Dead, stripe
<1> QED
  BY <1>1, <1>2, <1>3, OneStays DEF stripe

LEMMA AcceptTermsOne ==
  ASSUME IInv, OneInv, AcceptTerms PROVE OneInv'
<1>1. /\ UNCHANGED <<stripe, page, seen, returning, linking>>
      /\ overlap' = (overlap \/ account.held # NoSub)
      /\ account.status # "cancelled"
  BY DEF AcceptTerms
<1>2. account'.held = NoSub /\ account'.customer = account.customer
  BY DEF AcceptTerms, IInv, TypeOK, Account
<1>3. CASE overlap'
  BY <1>1, <1>3, PagesStay DEF OneInv
<1>4. CASE ~overlap'
  BY <1>1, <1>2, <1>4, QuietOne
<1> QED
  BY <1>3, <1>4

LEMMA TrialOrKeyOne ==
  ASSUME IInv, OneInv, StartTrial \/ IssueKey PROVE OneInv'
<1>1. UNCHANGED <<stripe, page, seen, returning, linking, history>>
  BY DEF StartTrial, IssueKey
<1>2. /\ account'.held = account.held /\ account'.customer = account.customer
      /\ account.status = "cancelled" => account'.status = "cancelled"
  BY DEF StartTrial, IssueKey, IInv, TypeOK, Account
<1> QED
  BY <1>1, <1>2, QuietOne DEF history

LEMMA BeginReturnOne ==
  ASSUME IInv, OneInv, NEW s \in Subscriptions, BeginReturn(s) PROVE OneInv'
<1>1. /\ standing[s] = "active" /\ returning' = returning \union {s}
      /\ UNCHANGED <<stripe, account, card, liveKey, page, seen, linking, history>>
  BY DEF BeginReturn
<1>2. FromItsPage'
  BY <1>1, PagesStay
<1>3. \A t \in Subscriptions : CheckoutOf(t)' = CheckoutOf(t)
  BY <1>1 DEF CheckoutOf, About, Events, stripe
<1>4. \A t \in Subscriptions : Dead(t) => Dead(t)'
  BY <1>1, <1>3 DEF Dead, stripe
<1> QED
  BY <1>1, <1>2, <1>3, <1>4, OneStays DEF stripe, history

LEMMA BeginLinkOne ==
  ASSUME IInv, OneInv, NEW s \in Subscriptions, BeginLink(s) PROVE OneInv'
<1>1. UNCHANGED <<stripe, account, card, liveKey, page, returning, history>>
  BY DEF BeginLink
<1>2. \A t \in Subscriptions : CheckoutOf(t)' = CheckoutOf(t)
  BY <1>1 DEF CheckoutOf, About, Events, stripe
<1>3. standing[s] # "none"
  BY AboutOne DEF BeginLink, About, CheckoutOf
<1>4. CASE standing[s] = "canceled"
  <2>1. seen' = seen \union CheckoutOf(s) /\ UNCHANGED linking
    BY <1>4 DEF BeginLink
  <2>2. FromItsPage'
    BY <1>1, <2>1, PagesStay
  <2>3. \A t \in Subscriptions : Dead(t) => Dead(t)'
    BY <1>1, <1>2, <2>1 DEF Dead, stripe
  <2>4. \A t \in Subscriptions :
            standing[t] \in Live /\ CheckoutOf(t)' \subseteq seen' => CheckoutOf(t) \subseteq seen
    <3> SUFFICES ASSUME NEW t \in Subscriptions,
                        standing[t] \in Live, CheckoutOf(t)' \subseteq seen'
                 PROVE  CheckoutOf(t) \subseteq seen
      OBVIOUS
    <3>1. s # t
      BY <1>4 DEF Live
    <3> QED
      BY <1>2, <2>1, <3>1, CheckoutsApart
  <2>5. \A i \in seen' : published'[i].kind = "ended" =>
                            i \in seen /\ published[i].kind = "ended"
    BY <1>1, <2>1 DEF CheckoutOf, stripe
  <2> QED
    BY <1>1, <2>2, <2>3, <2>4, <2>5, OneStays DEF stripe, history
<1>5. CASE standing[s] # "canceled"
  <2>1. /\ \A t \in Subscriptions : t # s => linking'[t] = linking[t]
        /\ UNCHANGED seen
    BY <1>5 DEF BeginLink, IInv, TypeOK
  <2>2. FromItsPage'
    BY <1>1, <1>3, <2>1, PagesStay
  <2>3. \A t \in Subscriptions : Dead(t) => Dead(t)'
    BY <1>1, <1>2, <1>5, <2>1 DEF Dead, stripe
  <2> QED
    BY <1>1, <1>2, <2>1, <2>2, <2>3, OneStays DEF stripe, history
<1> QED
  BY <1>4, <1>5

\* The account takes a subscription that is under way.
LEMMA TakenOne ==
  ASSUME IInv, OneInv, NEW s \in Subscriptions,
         s \in returning \/ linking[s] # "nothing",
         UNCHANGED <<stripe, page, overlap>>, FromItsPage',
         account'.held = s, account'.customer = customerOf[s],
         \A t \in Subscriptions \ {s} : Dead(t) => Dead(t)',
         seen' \subseteq seen \union CheckoutOf(s)
  PROVE  OneInv'
<1> SUFFICES ASSUME ~overlap PROVE OneAtATime'
  BY DEF OneInv
<1>1. OneAtATime /\ FromItsPage
  BY DEF OneInv
<1>2. /\ Opened(s) /\ ~Dead(s)
      /\ customerOf[s] = account.customer
  <2>1. standing[s] # "none"
    BY <1>1 DEF FromItsPage
  <2>2. page[s].stage = "open" /\ customerOf[s] = page[s].customer
    BY <1>1, <2>1 DEF FromItsPage
  <2> QED
    BY <1>1, <2>2 DEF OneAtATime, OneCustomer, Opened, Dead
<1>3. s # NoSub
  BY SiteSubscriptionAssumption
<1>4. \A t \in Subscriptions \ {s} : Opened(t) => Dead(t) /\ Dead(t)'
  BY <1>1, <1>2 DEF OneAtATime, OneGoesOn
<1>5. OneCustomer'
  BY <1>1, <1>2 DEF OneAtATime, OneCustomer, Opened
<1>6. EndIsHeld'
  BY <1>3 DEF EndIsHeld
<1>7. OneGoesOn'
  BY <1>3, <1>4 DEF OneGoesOn, Opened
<1>8. LiveIsHeld'
  <2> SUFFICES ASSUME NEW t \in Subscriptions, t # s, standing[t] \in Live
               PROVE  FALSE
    BY DEF LiveIsHeld, stripe
  <2>1. Opened(t)
    BY <1>1 DEF FromItsPage, Opened, Live
  <2> QED
    BY <1>4, <2>1 DEF Dead, Live
<1>9. NextIsAwaited'
  BY <1>4 DEF NextIsAwaited, Opened
<1> QED
  BY <1>5, <1>6, <1>7, <1>8, <1>9 DEF OneAtATime

LEMMA FinishReturnOne ==
  ASSUME IInv, OneInv, NEW s \in Subscriptions, FinishReturn(s) PROVE OneInv'
<1>1. /\ s \in returning /\ returning' = returning \ {s}
      /\ UNCHANGED <<stripe, page, seen, linking, notified, overlap>>
  BY DEF FinishReturn
<1>2. FromItsPage'
  BY <1>1, PagesStay
<1>3. \A t \in Subscriptions : CheckoutOf(t)' = CheckoutOf(t)
  BY <1>1 DEF CheckoutOf, About, Events, stripe
<1>4. \A t \in Subscriptions : Dead(t) => Dead(t)'
  BY <1>1, <1>3 DEF Dead, stripe
<1>5. CASE MayReturn(s)
  <2>1. account' = [status |-> ReturnedStatus, held |-> s,
                    customer |-> customerOf[s], suspended |-> FALSE,
                    trialStarted |-> TRUE]
    BY <1>5 DEF FinishReturn
  <2>2. account'.held = s /\ account'.customer = customerOf[s]
    BY <2>1
  <2> QED
    BY <1>1, <1>2, <1>4, <2>2, TakenOne
<1>6. CASE ~MayReturn(s)
  <2>1. account' = account
    BY <1>6 DEF FinishReturn
  <2> QED
    BY <1>1, <1>2, <1>3, <1>4, <2>1, OneStays DEF stripe
<1> QED
  BY <1>5, <1>6

LEMMA FinishLinkOne ==
  ASSUME IInv, OneInv, NEW s \in Subscriptions, FinishLink(s) PROVE OneInv'
<1>1. /\ linking[s] # "nothing" /\ seen' = seen \union CheckoutOf(s)
      /\ UNCHANGED <<stripe, page, returning, notified, overlap>>
      /\ \A t \in Subscriptions : linking'[t] = IF t = s THEN "nothing" ELSE linking[t]
  BY DEF FinishLink, IInv, TypeOK
<1>2. FromItsPage'
  BY <1>1, PagesStay
<1>3. \A t \in Subscriptions : CheckoutOf(t)' = CheckoutOf(t)
  BY <1>1 DEF CheckoutOf, About, Events, stripe
<1>4. \A t \in Subscriptions : Dead(t) => Dead(t)'
  BY <1>1, <1>3 DEF Dead, stripe
<1>5. CASE CheckoutOf(s) \subseteq seen \/ ~MayLink(s)
  <2>1. account' = account
    BY <1>5 DEF FinishLink
  <2>2. ASSUME NEW t \in Subscriptions,
               standing'[t] \in Live, CheckoutOf(t)' \subseteq seen', ~overlap
        PROVE  (standing[t] \in Live /\ CheckoutOf(t) \subseteq seen) \/ account.held = t
    <3>1. CASE t # s
      BY <1>1, <1>3, <2>2, <3>1, CheckoutsApart DEF stripe
    <3>2. CASE t = s /\ CheckoutOf(s) \subseteq seen
      BY <1>1, <2>2, <3>2 DEF stripe
    <3>3. CASE t = s /\ ~MayLink(s)
      <4>1. Opened(s) /\ ~Dead(s)
        BY <1>1 DEF OneInv, FromItsPage, Opened, Dead
      <4>2. account.status # "cancelled" /\ account.held \notin {NoSub, s}
        BY <3>3 DEF MayLink
      <4> QED
        BY <2>2, <4>1, <4>2 DEF OneInv, OneAtATime, NextIsAwaited
    <3> QED
      BY <1>5, <3>1, <3>2, <3>3
  <2>3. \A i \in seen' : published'[i].kind = "ended" =>
                            i \in seen /\ published[i].kind = "ended"
    BY <1>1 DEF CheckoutOf, stripe
  <2> QED
    BY <1>1, <1>2, <1>4, <2>1, <2>2, <2>3, OneStays DEF stripe
<1>6. CASE ~(CheckoutOf(s) \subseteq seen \/ ~MayLink(s))
  <2>1. ApplyCheckoutCompletion(s)
    BY <1>6 DEF FinishLink
  <2>2. account'.held = s /\ account'.customer = customerOf[s]
    <3>1. account \in Account
      BY DEF IInv, TypeOK
    <3>2. Linked(s) \in Account /\ Linked(s).held = s /\ Linked(s).customer = customerOf[s]
      BY <3>1, CustomerKnown DEF Linked, Account
    <3> HIDE DEF Linked
    <3>3. \/ account' = [Linked(s) EXCEPT !.status = "active", !.suspended = FALSE]
          \/ account' = [Linked(s) EXCEPT !.status = "trialing", !.suspended = FALSE,
                                          !.trialStarted = TRUE]
          \/ account' = Linked(s)
      BY <2>1 DEF ApplyCheckoutCompletion
    <3> QED
      BY <3>2, <3>3 DEF Account
  <2> QED
    BY <1>1, <1>2, <1>4, <2>2, TakenOne
<1> QED
  BY <1>5, <1>6

\* Without an overlap nothing goes on when a set-up begins: what was begun before
\* is over, and the account knows it.
LEMMA NothingGoesOn ==
  ASSUME IInv, OneInv, MaySubscribe, NoteOverlap, ~overlap'
  PROVE  /\ ~overlap
         /\ \A t \in Subscriptions :
               Opened(t) => /\ page[t].stage = "open" /\ Dead(t)
                            /\ account.status = "cancelled" /\ account.held # NoSub
<1>1. /\ ~overlap /\ ~LinkedUnpaid
      /\ \A t \in Subscriptions : ~Unsettled(t)
  BY DEF NoteOverlap
<1>2. OneAtATime /\ FromItsPage
  BY <1>1 DEF OneInv
<1> SUFFICES ASSUME NEW t \in Subscriptions, Opened(t)
             PROVE  /\ page[t].stage = "open" /\ Dead(t)
                    /\ account.status = "cancelled" /\ account.held # NoSub
  BY <1>1
<1>3. /\ standing[t] # "none" /\ About(t) \subseteq seen
      /\ t \notin returning /\ linking[t] = "nothing"
  BY <1>1 DEF Unsettled, Opened
<1>4. CheckoutOf(t) \subseteq seen
  BY <1>3 DEF CheckoutOf
<1>5. page[t].stage = "open"
  BY <1>2, <1>3 DEF FromItsPage
<1>6. account.status = "cancelled" => account.held \in notified
  BY <1>1 DEF LinkedUnpaid
<1>7. standing[t] = "canceled"
  <2> SUFFICES ASSUME standing[t] # "canceled" PROVE FALSE
    OBVIOUS
  <2>1. standing[t] \in Live
    BY <1>3 DEF IInv, TypeOK, StripeTypeOK, Standings, Live
  <2>2. account.held = t
    BY <1>2, <1>4, <2>1 DEF OneAtATime, LiveIsHeld
  <2>3. account.status = "cancelled"
    BY <2>2, SiteSubscriptionAssumption DEF MaySubscribe
  <2> QED
    BY <1>6, <2>1, <2>2, <2>3 DEF IInv, EndsAreFinal, Live
<1>8. account.held # NoSub
  <2>1. PICK i \in About(t) : published[i].kind = "ended"
    BY <1>2, <1>7 DEF FromItsPage
  <2> QED
    BY <1>2, <1>3, <2>1 DEF OneAtATime, EndIsHeld
<1> QED
  BY <1>3, <1>4, <1>5, <1>7, <1>8 DEF Dead, MaySubscribe

LEMMA SetUpOne ==
  ASSUME IInv, OneInv, NEW s \in Subscriptions, MaySubscribe, NoteOverlap,
         page[s].stage = "unopened",
         NEW p \in Page, page' = [page EXCEPT ![s] = p],
         p.stage \in {"creating", "open"}, p.customer # NoCustomer,
         \/ p.stage = "open" /\ account.customer = p.customer
         \/ p.stage = "creating" /\ account.customer = NoCustomer,
         UNCHANGED <<stripe, account, seen, returning, linking>>
  PROVE  OneInv'
<1>1. /\ page'[s] = p
      /\ \A t \in Subscriptions : t # s => page'[t] = page[t]
  BY DEF IInv, TypeOK
<1>2. \A t \in Subscriptions : Dead(t)' = Dead(t)
  BY DEF Dead, CheckoutOf, About, Events, stripe
<1>3. FromItsPage'
  <2>1. standing[s] = "none"
    BY DEF OneInv, FromItsPage
  <2> QED
    BY <1>1, <2>1 DEF OneInv, FromItsPage, stripe, About, Events
<1> SUFFICES ASSUME ~overlap' PROVE OneAtATime'
  BY <1>3 DEF OneInv
<1>4. ~overlap /\ OneAtATime
  BY NothingGoesOn DEF OneInv
<1>5. \A t \in Subscriptions :
          Opened(t) => /\ page[t].stage = "open" /\ Dead(t)
                       /\ account.status = "cancelled" /\ account.held # NoSub
  BY NothingGoesOn
<1>6. OneCustomer'
  <2>1. \A t \in Subscriptions : Opened(t) => page[t].stage = "open"
    BY <1>5
  <2>2. \A t \in Subscriptions : page[t].stage = "open" => Opened(t)
    BY DEF Opened
  <2>3. CASE p.stage = "open"
    <3>1. \A t \in Subscriptions : page'[t].stage # "creating"
      BY <1>1, <2>1, <2>3 DEF Opened
    <3>2. \A t \in Subscriptions : page'[t].stage = "open" =>
              page'[t].customer = account'.customer /\ account'.customer # NoCustomer
      BY <1>1, <1>4, <2>3 DEF OneAtATime, OneCustomer
    <3> QED
      BY <3>1, <3>2 DEF OneCustomer
  <2>4. CASE p.stage = "creating"
    <3>1. \A t \in Subscriptions : ~Opened(t)
      BY <1>4, <2>1, <2>4 DEF OneAtATime, OneCustomer
    <3> QED
      BY <1>1, <2>4, <3>1 DEF OneCustomer, Opened
  <2> QED
    BY <2>3, <2>4
<1>7. EndIsHeld'
  BY <1>4 DEF OneAtATime, EndIsHeld, stripe
<1>8. OneGoesOn'
  BY <1>1, <1>2, <1>5 DEF OneGoesOn, Opened
<1>9. LiveIsHeld'
  BY <1>4 DEF OneAtATime, LiveIsHeld, stripe, CheckoutOf, About, Events
<1>10. NextIsAwaited'
  <2> SUFFICES ASSUME NEW t \in Subscriptions, Opened(t)', ~Dead(t)',
                      account.held \notin {NoSub, t}
               PROVE  account.status = "cancelled"
    BY DEF NextIsAwaited
  <2>1. CASE t # s
    BY <1>1, <1>2, <1>5, <2>1 DEF Opened
  <2>2. CASE t = s
    BY <2>2 DEF MaySubscribe
  <2> QED
    BY <2>1, <2>2
<1> QED
  BY <1>6, <1>7, <1>8, <1>9, <1>10 DEF OneAtATime

LEMMA OpenPageOne ==
  ASSUME IInv, OneInv, NEW s \in Subscriptions, OpenPage(s) PROVE OneInv'
<1> DEFINE p == [stage |-> "open", customer |-> account.customer]
<1>1. /\ MaySubscribe /\ page[s].stage = "unopened" /\ NoteOverlap
      /\ page' = [page EXCEPT ![s] = p]
      /\ account.customer # NoCustomer
      /\ UNCHANGED <<stripe, account, seen, returning, linking>>
  BY DEF OpenPage
<1>2. p \in Page /\ p.stage = "open" /\ p.customer = account.customer
  BY DEF Page, IInv, TypeOK, Account
<1> HIDE DEF p
<1> QED
  BY <1>1, <1>2, SetUpOne

LEMMA StartSetupOne ==
  ASSUME IInv, OneInv, NEW s \in Subscriptions, NEW c \in Customers, StartSetup(s, c)
  PROVE  OneInv'
<1> DEFINE p == [stage |-> "creating", customer |-> c]
<1>1. /\ MaySubscribe /\ page[s].stage = "unopened" /\ NoteOverlap
      /\ page' = [page EXCEPT ![s] = p]
      /\ account.customer = NoCustomer
      /\ UNCHANGED <<stripe, account, seen, returning, linking>>
  BY DEF StartSetup
<1>2. p \in Page /\ p.stage = "creating" /\ p.customer = c /\ c # NoCustomer
  BY StripeAssumption DEF Page
<1> HIDE DEF p
<1> QED
  BY <1>1, <1>2, SetUpOne

LEMMA FinishSetupOne ==
  ASSUME IInv, OneInv, NEW s \in Subscriptions, FinishSetup(s) PROVE OneInv'
<1>1. /\ page[s].stage = "creating"
      /\ UNCHANGED <<stripe, card, liveKey, seen, returning, linking, history>>
  BY DEF FinishSetup
<1>2. /\ page'[s].stage = "open" /\ page'[s].customer = page[s].customer
      /\ \A t \in Subscriptions : t # s => page'[t] = page[t]
  BY DEF FinishSetup, IInv, TypeOK, Page
<1>3. /\ account'.held = account.held /\ account'.status = account.status
      /\ account'.customer = page[s].customer
  BY DEF FinishSetup, IInv, TypeOK, Account, Page
<1>4. \A t \in Subscriptions : Dead(t)' = Dead(t) /\ CheckoutOf(t)' = CheckoutOf(t)
  BY <1>1 DEF Dead, CheckoutOf, About, Events, stripe
<1>5. FromItsPage'
  BY <1>1, <1>2 DEF OneInv, FromItsPage, stripe, About, Events
<1> SUFFICES ASSUME ~overlap PROVE OneAtATime'
  BY <1>1, <1>5 DEF OneInv, history
<1>6. OneAtATime
  BY DEF OneInv
<1>7. \A t \in Subscriptions : Opened(t)' = Opened(t)
  BY <1>1, <1>2 DEF Opened
<1>8. OneCustomer'
  <2>1. page[s].customer # NoCustomer /\ \A t \in Subscriptions \ {s} : ~Opened(t)
    BY <1>1, <1>6 DEF OneAtATime, OneCustomer
  <2> QED
    BY <1>2, <1>3, <2>1 DEF OneCustomer, Opened
<1>9. EndIsHeld'
  BY <1>1, <1>3, <1>6 DEF OneAtATime, EndIsHeld, stripe
<1>10. OneGoesOn'
  BY <1>3, <1>4, <1>6, <1>7 DEF OneAtATime, OneGoesOn
<1>11. LiveIsHeld'
  BY <1>1, <1>3, <1>4, <1>6 DEF OneAtATime, LiveIsHeld, stripe
<1>12. NextIsAwaited'
  BY <1>3, <1>4, <1>6, <1>7 DEF OneAtATime, NextIsAwaited
<1> QED
  BY <1>8, <1>9, <1>10, <1>11, <1>12 DEF OneAtATime

LEMMA DeliverOne ==
  ASSUME IInv, OneInv, NEW i \in Events, Deliver(i) PROVE OneInv'
<1> DEFINE s == published[i].sub
<1>1. /\ published[i].kind # "checkout" /\ seen' = seen \union {i}
      /\ UNCHANGED <<stripe, card, liveKey, page, returning, linking, revived, overlap>>
  BY DEF Deliver
<1>2. s \in Subscriptions /\ standing[s] # "none" /\ s # NoSub
  BY AboutOne, SiteSubscriptionAssumption
<1>3. \A t \in Subscriptions : CheckoutOf(t)' = CheckoutOf(t)
  BY <1>1 DEF CheckoutOf, About, Events, stripe
<1>4. \A t \in Subscriptions :
          (CheckoutOf(t)' \subseteq seen') = (CheckoutOf(t) \subseteq seen)
  BY <1>1, <1>3 DEF CheckoutOf
<1>5. \A t \in Subscriptions : Dead(t)' = Dead(t)
  BY <1>1, <1>4 DEF Dead, stripe
<1>6. FromItsPage'
  BY <1>1, PagesStay
<1> SUFFICES ASSUME ~overlap PROVE OneAtATime'
  BY <1>1, <1>6 DEF OneInv
<1>7. OneAtATime /\ FromItsPage
  BY DEF OneInv
<1>8. Opened(s) /\ customerOf[s] = account.customer
  BY <1>2, <1>7 DEF FromItsPage, OneAtATime, OneCustomer, Opened
<1>9. /\ account'.customer = account.customer
      /\ account.held # NoSub => account'.held = account.held
      /\ account'.held \in {account.held, s}
      /\ account.status = "cancelled" => account'.status = "cancelled"
      /\ account.held \in {NoSub, s} /\ account.status # "cancelled" => account'.held = s
  <2>1. CASE ~Mine(i)
    <3>1. account.held \notin {NoSub, s}
      BY <1>8, <2>1 DEF Mine
    <3>2. account' = account
      BY <2>1 DEF Deliver
    <3> QED
      BY <3>1, <3>2
  <2>2. CASE Mine(i)
    <3>1. account' = Changed(i) /\ account.held \in {NoSub, s}
      BY <2>2 DEF Deliver, Mine
    <3> QED
      BY <1>2, <3>1 DEF Changed, Reactivated, Named, IInv, TypeOK, Account
  <2> QED
    BY <2>1, <2>2
<1>10. account'.held # NoSub
  BY <1>2, <1>9 DEF IInv, NothingHeldNothingEnded
<1>11. OneCustomer'
  BY <1>1, <1>7, <1>9 DEF OneAtATime, OneCustomer, Opened
<1>12. EndIsHeld'
  BY <1>10 DEF EndIsHeld
<1>13. OneGoesOn'
  BY <1>1, <1>5, <1>7, <1>10 DEF OneAtATime, OneGoesOn, Opened
<1>14. LiveIsHeld'
  <2> SUFFICES ASSUME NEW t \in Subscriptions, standing[t] \in Live,
                      CheckoutOf(t) \subseteq seen
               PROVE  account'.held = t
    BY <1>1, <1>4 DEF LiveIsHeld, stripe
  <2>1. account.held = t /\ t # NoSub
    BY <1>7, SiteSubscriptionAssumption DEF OneAtATime, LiveIsHeld
  <2> QED
    BY <1>9, <2>1
<1>15. NextIsAwaited'
  <2> SUFFICES ASSUME NEW t \in Subscriptions, Opened(t), ~Dead(t),
                      account'.held \notin {NoSub, t}
               PROVE  account'.status = "cancelled"
    BY <1>1, <1>5 DEF NextIsAwaited, Opened
  <2>1. CASE account.held = NoSub
    <3>1. s # t
      BY <1>9, <2>1
    <3> QED
      BY <1>2, <1>7, <1>8, <2>1, <3>1 DEF OneAtATime, OneGoesOn
  <2>2. CASE account.held # NoSub
    BY <1>7, <1>9, <2>2 DEF OneAtATime, NextIsAwaited
  <2> QED
    BY <2>1, <2>2
<1> QED
  BY <1>11, <1>12, <1>13, <1>14, <1>15 DEF OneAtATime

\* What is published is about the subscription that Stripe's step is of.
Moves(s) ==
    /\ \A t \in Subscriptions \ {s} :
          standing'[t] = standing[t] /\ customerOf'[t] = customerOf[t]
    /\ \A i \in Events : i \in Events' /\ published'[i] = published[i]
    /\ \A i \in Events' \ Events : published'[i].sub = s

\* Every event that is published is a new one.
LEMMA PublishAdds ==
  ASSUME NEW events \in Seq(EventRecord), published \in Seq(EventRecord),
         Publish(events), NEW j \in 1 .. Len(events)
  PROVE  \E i \in Events' \ Events : published'[i] = events[j]
<1>1. published' = published \o events
  BY DEF Publish
<1>2. /\ Len(published \o events) = Len(published) + Len(events)
      /\ \A i \in 1 .. Len(published) + Len(events) :
            (published \o events)[i] =
               IF i <= Len(published) THEN published[i] ELSE events[i - Len(published)]
  BY ConcatProperties
<1>3. Len(published) \in Nat /\ Len(events) \in Nat
  OBVIOUS
<1> DEFINE i == Len(published) + j
<1>4. /\ i \in 1 .. Len(published) + Len(events)
      /\ ~(i <= Len(published)) /\ i - Len(published) = j
  BY <1>3
<1>5. published'[i] = events[j]
  BY <1>1, <1>2, <1>4
<1>6. i \in Events' \ Events
  BY <1>1, <1>2, <1>3, <1>4 DEF Events
<1> QED
  BY <1>5, <1>6

LEMMA CheckoutMoves ==
  ASSUME StripeTypeOK, NEW c \in Customers \union {NoCustomer},
         NEW s \in Subscriptions, CompleteCheckout(c, s)
  PROVE  /\ Moves(s)
         /\ standing[s] = "none" /\ standing'[s] = "active" /\ customerOf'[s] = c
         /\ \A i \in Events' \ Events : published'[i].kind \in {"checkout", "paid"}
         /\ \E i \in Events' \ Events : published'[i].kind = "checkout"
<1> DEFINE done == Event("checkout", s)
           paid == Event("paid", s)
           both == <<done, paid>>
<1>1. /\ done \in EventRecord /\ done.sub = s /\ done.kind = "checkout"
      /\ paid \in EventRecord /\ paid.sub = s /\ paid.kind = "paid"
  BY DEF Event, EventRecord, Kinds
<1>2. Publish(both)
  BY DEF CompleteCheckout
<1>3. /\ standing[s] = "none"
      /\ standing' = [standing EXCEPT ![s] = "active"]
      /\ customerOf' = [customerOf EXCEPT ![s] = c]
  BY DEF CompleteCheckout
<1> HIDE DEF done, paid
<1>4. /\ both \in Seq(EventRecord) /\ Len(both) = 2
      /\ both[1] = done /\ both[2] = paid
  BY <1>1
<1> HIDE DEF both
<1>5. published \in Seq(EventRecord)
  BY DEF StripeTypeOK, EventRecord
<1>6. /\ \A i \in Events : i \in Events' /\ published'[i] = published[i]
      /\ \A i \in Events' \ Events : \E j \in 1 .. Len(both) : published'[i] = both[j]
  BY <1>2, <1>4, <1>5, PublishAppends
<1>7. \A i \in Events' \ Events : published'[i] \in {done, paid}
  BY <1>4, <1>6
<1>8. \E i \in Events' \ Events : published'[i] = done
  <2>1. 1 \in 1 .. Len(both)
    BY <1>4
  <2>2. \E i \in Events' \ Events : published'[i] = both[1]
    BY <1>2, <1>4, <1>5, <2>1, PublishAdds
  <2> QED
    BY <1>4, <2>2
<1>9. /\ standing'[s] = "active" /\ customerOf'[s] = c
      /\ \A t \in Subscriptions \ {s} :
            standing'[t] = standing[t] /\ customerOf'[t] = customerOf[t]
  BY <1>3 DEF StripeTypeOK
<1>10. Moves(s)
  BY <1>1, <1>6, <1>7, <1>9 DEF Moves
<1> QED
  BY <1>1, <1>3, <1>7, <1>8, <1>9, <1>10

LEMMA StepMoves ==
  ASSUME StripeTypeOK, NEW s \in Subscriptions, StripeStep(s, {"paid"})
  PROVE  /\ Moves(s) /\ customerOf' = customerOf /\ standing[s] # "none"
         /\ standing'[s] \in Live => standing[s] \in Live
         /\ standing[s] = "canceled" => standing'[s] = "canceled"
         /\ \A i \in Events' \ Events : published'[i].kind # "checkout"
         /\ standing'[s] = "canceled" /\ standing[s] # "canceled" =>
               \E i \in Events' \ Events : published'[i].kind = "ended"
<1>1. ASSUME NEW kind \in Kinds \ {"checkout"}, NEW now \in Standings,
             Publish(<<Event(kind, s)>>), UNCHANGED customerOf,
             standing' = [standing EXCEPT ![s] = now],
             now = "canceled" => kind = "ended" \/ standing[s] = "canceled"
      PROVE  /\ Moves(s) /\ customerOf' = customerOf /\ standing'[s] = now
             /\ \A i \in Events' \ Events : published'[i].kind # "checkout"
             /\ standing'[s] = "canceled" /\ standing[s] # "canceled" =>
                   \E i \in Events' \ Events : published'[i].kind = "ended"
  <2> DEFINE e == Event(kind, s)
             one == <<e>>
  <2>1. e \in EventRecord /\ e.sub = s /\ e.kind = kind
    BY DEF Event, EventRecord
  <2>2. Publish(one)
    BY <1>1
  <2> HIDE DEF e
  <2>3. one \in Seq(EventRecord) /\ Len(one) = 1 /\ one[1] = e
    BY <2>1
  <2> HIDE DEF one
  <2>4. published \in Seq(EventRecord)
    BY DEF StripeTypeOK, EventRecord
  <2>5. /\ \A i \in Events : i \in Events' /\ published'[i] = published[i]
        /\ \A i \in Events' \ Events : \E j \in 1 .. Len(one) : published'[i] = one[j]
    BY <2>2, <2>3, <2>4, PublishAppends
  <2>6. \A i \in Events' \ Events : published'[i] = e
    BY <2>3, <2>5
  <2>7. \E i \in Events' \ Events : published'[i] = e
    <3>1. 1 \in 1 .. Len(one)
      BY <2>3
    <3> QED
      BY <2>2, <2>3, <2>4, <3>1, PublishAdds
  <2>8. /\ standing'[s] = now
        /\ \A t \in Subscriptions \ {s} :
              standing'[t] = standing[t] /\ customerOf'[t] = customerOf[t]
    BY <1>1 DEF StripeTypeOK
  <2>9. Moves(s)
    BY <2>1, <2>5, <2>6, <2>8 DEF Moves
  <2> QED
    BY <1>1, <2>1, <2>6, <2>7, <2>8, <2>9
<1>2. CASE FailInvoice(s)
  BY <1>1, <1>2 DEF FailInvoice, Standings, Kinds, Live
<1>3. CASE PayInvoice(s, "paid")
  BY <1>1, <1>3 DEF PayInvoice, Standings, Kinds, Live
<1>4. CASE EndSubscription(s)
  BY <1>1, <1>4 DEF EndSubscription, Standings, Kinds, Live
<1>5. CASE PayFinalInvoice(s)
  <2>1. standing' = [standing EXCEPT ![s] = "canceled"]
    BY <1>5 DEF PayFinalInvoice, StripeTypeOK
  <2> QED
    BY <1>1, <1>5, <2>1 DEF PayFinalInvoice, Standings, Kinds, Live
<1> QED
  BY <1>2, <1>3, <1>4, <1>5 DEF StripeStep

\* What is known of the other subscriptions is what was known before.
LEMMA OthersStay ==
  ASSUME IInv, NEW s \in Subscriptions, Moves(s), UNCHANGED <<returning, linking, seen>>
  PROVE  /\ \A t \in Subscriptions \ {s} :
               About(t)' = About(t) /\ CheckoutOf(t)' = CheckoutOf(t) /\ Dead(t)' = Dead(t)
         /\ About(s) \subseteq About(s)' /\ CheckoutOf(s) \subseteq CheckoutOf(s)'
         /\ \A i \in seen' : published'[i] = published[i]
<1>1. seen \subseteq Events
  BY AboutOne
<1>2. \A t \in Subscriptions \ {s} : About(t)' = About(t)
  BY DEF About, Moves
<1>3. \A t \in Subscriptions \ {s} : CheckoutOf(t)' = CheckoutOf(t)
  BY <1>2 DEF CheckoutOf, About, Moves
<1>4. \A t \in Subscriptions \ {s} : Dead(t)' = Dead(t)
  BY <1>3 DEF Dead, Moves
<1>5. About(s) \subseteq About(s)' /\ CheckoutOf(s) \subseteq CheckoutOf(s)'
  BY DEF About, CheckoutOf, Moves
<1> QED
  BY <1>1, <1>2, <1>3, <1>4, <1>5 DEF Moves

LEMMA CheckoutOne ==
  ASSUME IInv, OneInv, NEW s \in Subscriptions, Checkout(s) PROVE OneInv'
<1>1. /\ page[s].stage = "open" /\ CompleteCheckout(page[s].customer, s)
      /\ UNCHANGED <<account, card, liveKey, page, seen, returning, linking, history>>
  BY DEF Checkout
<1>2. StripeTypeOK /\ page[s].customer \in Customers \union {NoCustomer}
  BY DEF IInv, TypeOK, Page
<1>3. /\ Moves(s)
      /\ standing[s] = "none" /\ standing'[s] = "active"
      /\ customerOf'[s] = page[s].customer
      /\ \A i \in Events' \ Events : published'[i].kind \in {"checkout", "paid"}
      /\ \E i \in Events' \ Events : published'[i].kind = "checkout"
  BY <1>1, <1>2, CheckoutMoves
<1>4. /\ \A t \in Subscriptions \ {s} :
            About(t)' = About(t) /\ CheckoutOf(t)' = CheckoutOf(t) /\ Dead(t)' = Dead(t)
      /\ \A i \in seen' : published'[i] = published[i]
  BY <1>1, <1>3, OthersStay
<1>5. FromItsPage'
  <2> SUFFICES ASSUME NEW t \in Subscriptions
               PROVE  /\ standing'[t] # "none" =>
                            page'[t].stage = "open" /\ customerOf'[t] = page'[t].customer
                      /\ t \in returning' \/ linking'[t] # "nothing" => standing'[t] # "none"
                      /\ standing'[t] = "canceled" =>
                            \E i \in About(t)' : published'[i].kind = "ended"
    BY DEF FromItsPage
  <2>1. CASE t = s
    BY <1>1, <1>3, <2>1
  <2>2. CASE t # s
    <3>1. /\ standing'[t] = standing[t] /\ customerOf'[t] = customerOf[t]
          /\ About(t)' = About(t)
      BY <1>3, <1>4, <2>2 DEF Moves
    <3>2. \A i \in About(t) : published'[i] = published[i]
      BY <1>3 DEF Moves, About
    <3> QED
      BY <1>1, <3>1, <3>2 DEF OneInv, FromItsPage
  <2> QED
    BY <2>1, <2>2
<1>6. ~(CheckoutOf(s)' \subseteq seen')
  <2>1. PICK i \in Events' \ Events : published'[i].kind = "checkout"
    BY <1>3
  <2>2. i \in CheckoutOf(s)'
    BY <1>3, <2>1 DEF Moves, CheckoutOf, About
  <2>3. i \notin seen'
    BY <1>1, <2>1, AboutOne
  <2> QED
    BY <2>2, <2>3
<1>7. \A t \in Subscriptions : Dead(t) => Dead(t)'
  BY <1>3, <1>4 DEF Dead
<1>8. \A t \in Subscriptions :
          standing'[t] \in Live /\ CheckoutOf(t)' \subseteq seen' =>
             standing[t] \in Live /\ CheckoutOf(t) \subseteq seen
  BY <1>1, <1>3, <1>4, <1>6 DEF Moves
<1>9. ~overlap' => ~overlap
  BY <1>1 DEF history
<1> QED
  BY <1>1, <1>4, <1>5, <1>7, <1>8, <1>9, OneStays

LEMMA StripeStepOne ==
  ASSUME IInv, OneInv, NEW s \in Subscriptions, StripeStep(s, {"paid"}),
         UNCHANGED <<account, card, liveKey, page, seen, returning, linking, history>>
  PROVE  OneInv'
<1>1. /\ Moves(s) /\ customerOf' = customerOf /\ standing[s] # "none"
      /\ standing'[s] \in Live => standing[s] \in Live
      /\ standing[s] = "canceled" => standing'[s] = "canceled"
      /\ \A i \in Events' \ Events : published'[i].kind # "checkout"
      /\ standing'[s] = "canceled" /\ standing[s] # "canceled" =>
            \E i \in Events' \ Events : published'[i].kind = "ended"
  BY StepMoves DEF IInv, TypeOK
<1>2. /\ \A t \in Subscriptions \ {s} :
            About(t)' = About(t) /\ CheckoutOf(t)' = CheckoutOf(t) /\ Dead(t)' = Dead(t)
      /\ About(s) \subseteq About(s)' /\ CheckoutOf(s) \subseteq CheckoutOf(s)'
      /\ \A i \in seen' : published'[i] = published[i]
  BY <1>1, OthersStay
<1>3. CheckoutOf(s)' = CheckoutOf(s)
  BY <1>1, <1>2 DEF Moves, CheckoutOf, About
<1>4. \A t \in Subscriptions : \A i \in About(t) : i \in About(t)' /\ published'[i] = published[i]
  BY <1>1 DEF Moves, About
<1>5. FromItsPage'
  <2> SUFFICES ASSUME NEW t \in Subscriptions
               PROVE  /\ standing'[t] # "none" =>
                            page'[t].stage = "open" /\ customerOf'[t] = page'[t].customer
                      /\ t \in returning' \/ linking'[t] # "nothing" => standing'[t] # "none"
                      /\ standing'[t] = "canceled" =>
                            \E i \in About(t)' : published'[i].kind = "ended"
    BY DEF FromItsPage
  <2>1. (standing[t] # "none") = (standing'[t] # "none")
    <3>1. {"paid"} \in SUBSET Kinds /\ "ended" \notin {"paid"} /\ StripeTypeOK
      BY DEF Kinds, IInv, TypeOK
    <3>2. Ending
      BY <3>1, StepAtStripe
    <3>3. standing'[s] # "none"
      BY <1>1, <3>2 DEF Ending
    <3> QED
      BY <1>1, <3>3 DEF Moves
  <2>2. standing'[t] = "canceled" => \E i \in About(t)' : published'[i].kind = "ended"
    <3>1. CASE standing[t] = "canceled"
      BY <1>4, <3>1 DEF OneInv, FromItsPage
    <3>2. CASE standing[t] # "canceled" /\ standing'[t] = "canceled"
      BY <1>1, <3>2 DEF Moves, About
    <3> QED
      BY <3>1, <3>2
  <2> QED
    BY <1>1, <2>1, <2>2 DEF OneInv, FromItsPage
<1>6. \A t \in Subscriptions : Dead(t) => Dead(t)'
  BY <1>1, <1>2, <1>3 DEF Dead
<1>7. \A t \in Subscriptions :
          standing'[t] \in Live /\ CheckoutOf(t)' \subseteq seen' =>
             standing[t] \in Live /\ CheckoutOf(t) \subseteq seen
  BY <1>1, <1>2, <1>3 DEF Moves
<1>8. ~overlap' => ~overlap
  BY DEF history
<1> QED
  BY <1>2, <1>5, <1>6, <1>7, <1>8, OneStays

LEMMA InitOne == Init => OneInv
BY DEF Init, StripeInit, OneInv, FromItsPage, OneAtATime, OneCustomer, EndIsHeld,
   OneGoesOn, LiveIsHeld, NextIsAwaited, Opened, Live, About, Events

LEMMA NextOne ==
  ASSUME IInv, OneInv, [Next]_vars PROVE OneInv'
<1>1. CASE AcceptTerms \/ StartTrial \/ IssueKey
  BY <1>1, AcceptTermsOne, TrialOrKeyOne
<1>2. ASSUME NEW s \in Subscriptions,
             \/ OpenPage(s) \/ FinishSetup(s) \/ Checkout(s)
             \/ BeginReturn(s) \/ FinishReturn(s)
             \/ BeginLink(s) \/ FinishLink(s)
      PROVE  OneInv'
  BY <1>2, OpenPageOne, FinishSetupOne, CheckoutOne, BeginReturnOne, FinishReturnOne,
     BeginLinkOne, FinishLinkOne
<1>3. ASSUME NEW s \in Subscriptions, NEW c \in Customers, StartSetup(s, c)
      PROVE  OneInv'
  BY <1>3, StartSetupOne
<1>4. ASSUME NEW s \in Subscriptions,
             StripeStep(s, {"paid"}),
             UNCHANGED <<account, card, liveKey, page, seen, returning, linking,
                         history>>
      PROVE  OneInv'
  BY <1>4, StripeStepOne
<1>5. ASSUME NEW i \in Events, Deliver(i) PROVE OneInv'
  BY <1>5, DeliverOne
<1>6. CASE UNCHANGED vars
  BY <1>6, QuietOne DEF vars
<1> QED
  BY <1>1, <1>2, <1>3, <1>4, <1>5, <1>6 DEF Next

LEMMA OneInductive == Spec => []OneInv
<1>1. Init => OneInv
  BY InitOne
<1>2. IInv /\ OneInv /\ [Next]_vars => OneInv'
  BY NextOne
<1> QED
  BY <1>1, <1>2, Inductive, PTL DEF Spec

\* Stripe has at most one subscription of the account to charge, and the account
\* holds it when all is known (handlePaymentSetup, handleBillingReturn,
\* applyCheckoutCompletion).
THEOREM PaysOnce == Spec => []OneSubscription
<1>1. ASSUME IInv, OneInv PROVE OneSubscription
  <2> SUFFICES ASSUME ~overlap, NEW s \in Subscriptions, standing[s] \in Live
               PROVE  /\ {t \in Subscriptions : standing[t] \in Live} = {s}
                      /\ Events \subseteq seen => account.held = s
    BY DEF OneSubscription, Live
  <2>1. OneAtATime /\ FromItsPage
    BY <1>1 DEF OneInv
  <2>2. \A t \in Subscriptions : standing[t] \in Live => Opened(t) /\ ~Dead(t)
    BY <2>1 DEF FromItsPage, Opened, Dead, Live
  <2>3. \A t \in Subscriptions : standing[t] \in Live => t = s
    BY <2>1, <2>2 DEF OneAtATime, OneGoesOn
  <2>4. Events \subseteq seen => account.held = s
    BY <1>1, <2>1, AboutOne DEF OneAtATime, LiveIsHeld
  <2> QED
    BY <2>3, <2>4
<1> QED
  BY <1>1, Inductive, OneInductive, PTL

-----------------------------------------------------------------------------
(* The account and Stripe.  For a subscription whose events came in turn,  *)
(* or whose record a return or a link set right, the account says what     *)
(* Stripe said when it published one of them, and no later one came.       *)

\* The events about s other than that of its Checkout.
ChargesOf(s) == About(s) \ CheckoutOf(s)

\* What Stripe said of the subscription when it published i.
StandingAt(i) ==
    IF \E j \in About(published[i].sub) : j <= i /\ published[j].kind = "ended"
    THEN "canceled"
    ELSE IF published[i].kind = "failed" THEN "past_due" ELSE "active"

Reflects(i) ==
    /\ account.suspended <=> StandingAt(i) # "active"
    /\ account.status = "cancelled" <=> StandingAt(i) = "canceled"

\* What Stripe says is what it said with its last event.
StandingIsLatest ==
    \A s \in Subscriptions :
        standing[s] # "none" =>
            \E i \in ChargesOf(s) :
                (\A j \in ChargesOf(s) : j <= i) /\ standing[s] = StandingAt(i)

\* An answer of Stripe's that set the record right may be ahead of what came.
AccountFollows ==
    \A s \in Subscriptions \ off :
        /\ account.held = NoSub => ChargesOf(s) \intersect seen = {}
        /\ account.held = s =>
              \E i \in ChargesOf(s) :
                  /\ Reflects(i)
                  /\ \A j \in ChargesOf(s) : i < j => j \notin seen
                  /\ i \in seen \/ StandingAt(i) = "active"

InTurn == StandingIsLatest /\ AccountFollows

LEMMA ChargesAre ==
  ASSUME IInv
  PROVE  /\ Events \subseteq Nat
         /\ \A s : \A i : i \in ChargesOf(s) <=>
               i \in Events /\ published[i].sub = s /\ published[i].kind # "checkout"
         /\ \A s \in Subscriptions : standing[s] = "none" => ChargesOf(s) = {}
<1>1. Events \subseteq Nat
  BY DEF Events
<1>2. \A s : \A i : i \in ChargesOf(s) <=>
          i \in Events /\ published[i].sub = s /\ published[i].kind # "checkout"
  BY DEF ChargesOf, CheckoutOf, About
<1>3. \A i \in Events : standing[published[i].sub] # "none"
  BY AboutOne
<1>4. \A s \in Subscriptions : standing[s] = "none" => ChargesOf(s) = {}
  BY <1>2, <1>3
<1> QED
  BY <1>1, <1>2, <1>4

LEMMA StripeQuiet ==
  ASSUME UNCHANGED stripe
  PROVE  /\ Events' = Events /\ UNCHANGED <<standing, customerOf, published>>
         /\ \A s : /\ About(s)' = About(s) /\ CheckoutOf(s)' = CheckoutOf(s)
                   /\ ChargesOf(s)' = ChargesOf(s)
         /\ \A i : StandingAt(i)' = StandingAt(i)
<1>1. UNCHANGED <<standing, customerOf, published>> /\ Events' = Events
  BY DEF stripe, Events
<1>2. \A s : About(s)' = About(s)
  BY <1>1 DEF About
<1>3. \A s : CheckoutOf(s)' = CheckoutOf(s)
  BY <1>1, <1>2 DEF CheckoutOf
<1>4. \A s : ChargesOf(s)' = ChargesOf(s)
  BY <1>2, <1>3 DEF ChargesOf
<1>5. \A i : StandingAt(i)' = StandingAt(i)
  BY <1>1, <1>2 DEF StandingAt
<1> QED
  BY <1>1, <1>2, <1>3, <1>4, <1>5

\* No charge came, and the account says what it said.
LEMMA SaysTheSame ==
  ASSUME IInv, InTurn, UNCHANGED stripe,
         account'.held = account.held, account'.suspended = account.suspended,
         account'.status = "cancelled" <=> account.status = "cancelled",
         off \subseteq off', seen \subseteq seen',
         \A s \in Subscriptions : ChargesOf(s) \intersect seen' \subseteq seen
  PROVE  InTurn'
<1>1. /\ UNCHANGED standing
      /\ \A s : ChargesOf(s)' = ChargesOf(s)
      /\ \A i : StandingAt(i)' = StandingAt(i)
  BY StripeQuiet
<1>2. StandingIsLatest'
  BY <1>1 DEF InTurn, StandingIsLatest
<1>3. \A i : Reflects(i)' <=> Reflects(i)
  BY <1>1 DEF Reflects
<1>4. AccountFollows'
  <2> SUFFICES ASSUME NEW s \in Subscriptions, s \notin off'
               PROVE  /\ account'.held = NoSub => ChargesOf(s)' \intersect seen' = {}
                      /\ account'.held = s =>
                            \E i \in ChargesOf(s)' :
                                /\ Reflects(i)'
                                /\ \A j \in ChargesOf(s)' : i < j => j \notin seen'
                                /\ i \in seen' \/ StandingAt(i)' = "active"
    BY DEF AccountFollows
  <2>1. /\ account.held = NoSub => ChargesOf(s) \intersect seen = {}
        /\ account.held = s =>
              \E i \in ChargesOf(s) :
                  /\ Reflects(i)
                  /\ \A j \in ChargesOf(s) : i < j => j \notin seen
                  /\ i \in seen \/ StandingAt(i) = "active"
    BY DEF InTurn, AccountFollows
  <2>2. CASE account.held = s
    <3>1. PICK i \in ChargesOf(s) :
              /\ Reflects(i)
              /\ \A j \in ChargesOf(s) : i < j => j \notin seen
              /\ i \in seen \/ StandingAt(i) = "active"
      BY <2>1, <2>2
    <3>2. /\ Reflects(i)'
          /\ \A j \in ChargesOf(s)' : i < j => j \notin seen'
          /\ i \in seen' \/ StandingAt(i)' = "active"
      BY <1>1, <1>3, <3>1
    <3> QED
      BY <1>1, <2>2, <3>2, SiteSubscriptionAssumption
  <2>3. CASE account.held # s
    BY <1>1, <2>1, <2>3
  <2> QED
    BY <2>2, <2>3
<1> QED
  BY <1>2, <1>4 DEF InTurn

LEMMA AcceptTermsFollows ==
  ASSUME IInv, InTurn, AcceptTerms PROVE InTurn'
<1>1. /\ UNCHANGED <<stripe, seen>> /\ off' = off \union KnownOf
  BY DEF AcceptTerms
<1>2. account'.held = NoSub
  BY DEF AcceptTerms, IInv, TypeOK, Account
<1>3. /\ UNCHANGED standing
      /\ \A s : ChargesOf(s)' = ChargesOf(s)
      /\ \A i : StandingAt(i)' = StandingAt(i)
  BY <1>1, StripeQuiet
<1>4. StandingIsLatest'
  BY <1>3 DEF InTurn, StandingIsLatest
<1>5. \A s \in Subscriptions \ off' : ChargesOf(s) \intersect seen = {}
  BY <1>1 DEF KnownOf, ChargesOf
<1>6. AccountFollows'
  BY <1>1, <1>2, <1>3, <1>5, SiteSubscriptionAssumption DEF AccountFollows
<1> QED
  BY <1>4, <1>6 DEF InTurn

LEMMA SetUpFollows ==
  ASSUME IInv, InTurn, NEW s \in Subscriptions,
         \/ OpenPage(s) \/ \E c \in Customers : StartSetup(s, c)
         \/ FinishSetup(s) \/ BeginReturn(s) \/ StartTrial \/ IssueKey
  PROVE  InTurn'
<1>1. UNCHANGED <<stripe, seen, off>>
  BY DEF OpenPage, StartSetup, FinishSetup, BeginReturn, StartTrial, IssueKey, history
<1>2. /\ account'.held = account.held /\ account'.suspended = account.suspended
      /\ account'.status = "cancelled" <=> account.status = "cancelled"
  BY DEF OpenPage, StartSetup, FinishSetup, BeginReturn, StartTrial, IssueKey,
     IInv, TypeOK, Account
<1> QED
  BY <1>1, <1>2, SaysTheSame

\* The account takes s: if its record is not set right, it is off.
LEMMA TakenFollows ==
  ASSUME IInv, InTurn, NEW s \in Subscriptions, standing[s] # "none", UNCHANGED stripe,
         account'.held = s, off \ {s} \subseteq off', seen \subseteq seen',
         \A t \in Subscriptions : ChargesOf(t) \intersect seen' \subseteq seen,
         \/ s \in off'
         \/ /\ standing[s] = "active"
            /\ ~account'.suspended /\ account'.status # "cancelled"
  PROVE  InTurn'
<1>1. /\ UNCHANGED standing
      /\ \A t : ChargesOf(t)' = ChargesOf(t)
      /\ \A i : StandingAt(i)' = StandingAt(i)
  BY StripeQuiet
<1>2. StandingIsLatest'
  BY <1>1 DEF InTurn, StandingIsLatest
<1>3. ASSUME s \notin off'
      PROVE  \E i \in ChargesOf(s) :
                /\ Reflects(i)'
                /\ \A j \in ChargesOf(s) : i < j => j \notin seen'
                /\ StandingAt(i)' = "active"
  <2>1. PICK i \in ChargesOf(s) :
            (\A j \in ChargesOf(s) : j <= i) /\ standing[s] = StandingAt(i)
    BY DEF InTurn, StandingIsLatest
  <2>2. StandingAt(i)' = "active"
    BY <1>1, <1>3, <2>1
  <2>3. Reflects(i)'
    BY <1>3, <2>2 DEF Reflects
  <2>4. \A j \in ChargesOf(s) : ~(i < j)
    <3>1. ChargesOf(s) \subseteq Nat
      BY ChargesAre
    <3> QED
      BY <2>1, <3>1
  <2> QED
    BY <2>2, <2>3, <2>4
<1>4. AccountFollows'
  <2> SUFFICES ASSUME NEW t \in Subscriptions, t \notin off'
               PROVE  /\ account'.held = NoSub => ChargesOf(t)' \intersect seen' = {}
                      /\ account'.held = t =>
                            \E i \in ChargesOf(t)' :
                                /\ Reflects(i)'
                                /\ \A j \in ChargesOf(t)' : i < j => j \notin seen'
                                /\ i \in seen' \/ StandingAt(i)' = "active"
    BY DEF AccountFollows
  <2>1. account'.held # NoSub
    BY SiteSubscriptionAssumption
  <2>2. CASE t = s
    BY <1>1, <1>3, <2>1, <2>2
  <2> QED
    BY <2>1, <2>2
<1> QED
  BY <1>2, <1>4 DEF InTurn

LEMMA FinishReturnFollows ==
  ASSUME IInv, OneInv, InTurn, NEW s \in Subscriptions, FinishReturn(s) PROVE InTurn'
<1>1. s \in returning /\ UNCHANGED <<stripe, seen>>
  BY DEF FinishReturn
<1>2. CASE MayReturn(s)
  <2>1. /\ account' = [status |-> ReturnedStatus, held |-> s,
                       customer |-> customerOf[s], suspended |-> FALSE,
                       trialStarted |-> TRUE]
        /\ off' = IF standing[s] = "active" THEN off \ {s} ELSE off \union {s}
    BY <1>2 DEF FinishReturn
  <2>2. account'.held = s /\ ~account'.suspended /\ account'.status # "cancelled"
    BY <2>1 DEF ReturnedStatus
  <2>3. standing[s] # "none"
    BY <1>1 DEF OneInv, FromItsPage
  <2> QED
    BY <1>1, <2>1, <2>2, <2>3, TakenFollows
<1>3. CASE ~MayReturn(s)
  <2>1. UNCHANGED <<account, off>>
    BY <1>3 DEF FinishReturn
  <2> QED
    BY <1>1, <2>1, SaysTheSame
<1> QED
  BY <1>2, <1>3

LEMMA BeginLinkFollows ==
  ASSUME IInv, InTurn, NEW s \in Subscriptions, BeginLink(s) PROVE InTurn'
<1>1. /\ UNCHANGED <<stripe, account, off>>
      /\ seen' = seen \/ seen' = seen \union CheckoutOf(s)
  BY DEF BeginLink, history
<1>2. \A t \in Subscriptions : ChargesOf(t) \intersect seen' \subseteq seen
  BY <1>1 DEF ChargesOf, CheckoutOf, About
<1> QED
  BY <1>1, <1>2, SaysTheSame

LEMMA FinishLinkFollows ==
  ASSUME IInv, OneInv, InTurn, NEW s \in Subscriptions, FinishLink(s) PROVE InTurn'
<1>1. /\ linking[s] # "nothing" /\ seen' = seen \union CheckoutOf(s)
      /\ UNCHANGED stripe
  BY DEF FinishLink
<1>2. \A t \in Subscriptions : ChargesOf(t) \intersect seen' \subseteq seen
  BY <1>1 DEF ChargesOf, CheckoutOf, About
<1>3. standing[s] # "none"
  BY <1>1 DEF OneInv, FromItsPage
<1>4. CASE CheckoutOf(s) \subseteq seen \/ ~MayLink(s)
  <2>1. UNCHANGED <<account, off>>
    BY <1>4 DEF FinishLink
  <2> QED
    BY <1>1, <1>2, <2>1, SaysTheSame
<1>5. CASE ~(CheckoutOf(s) \subseteq seen \/ ~MayLink(s))
  <2>1. ApplyCheckoutCompletion(s) /\ NoteLink(s)
    BY <1>5 DEF FinishLink
  <2>2. /\ Linked(s) \in Account /\ Linked(s).held = s
        /\ Linked(s).status = account.status
        /\ Linked(s).suspended = account.suspended
    <3>1. account \in Account
      BY DEF IInv, TypeOK
    <3> QED
      BY <3>1, CustomerKnown DEF Linked, Account
  <2>3. CASE Unlocks(s)
    <3>1. /\ account'.held = s /\ ~account'.suspended
          /\ account'.status \in {"active", "trialing"}
      <4> HIDE DEF Linked
      <4>1. \/ account' = [Linked(s) EXCEPT !.status = "active", !.suspended = FALSE]
            \/ account' = [Linked(s) EXCEPT !.status = "trialing", !.suspended = FALSE,
                                            !.trialStarted = TRUE]
        BY <2>1, <2>3 DEF ApplyCheckoutCompletion, Unlocks
      <4> QED
        BY <2>2, <4>1 DEF Account
    <3>2. off' = IF standing[s] = "active" THEN off \ {s} ELSE off \union {s}
      BY <2>1, <2>3 DEF NoteLink
    <3> QED
      BY <1>1, <1>2, <1>3, <3>1, <3>2, TakenFollows
  <2>4. CASE ~Unlocks(s)
    <3>1. account' = Linked(s)
      BY <2>1, <2>4 DEF ApplyCheckoutCompletion, Unlocks
    <3>2. off' = IF account.held # s THEN off \union {s} ELSE off
      BY <2>1, <2>4 DEF NoteLink
    <3>3. CASE account.held = s
      BY <1>1, <1>2, <2>2, <3>1, <3>2, <3>3, SaysTheSame
    <3>4. CASE account.held # s
      BY <1>1, <1>2, <1>3, <2>2, <3>1, <3>2, <3>4, TakenFollows
    <3> QED
      BY <3>3, <3>4
  <2> QED
    BY <2>3, <2>4
<1> QED
  BY <1>4, <1>5

LEMMA DeliverFollows ==
  ASSUME IInv, InTurn, NEW i \in Events, Deliver(i) PROVE InTurn'
<1> PICK s : s = published[i].sub
  OBVIOUS
<1>1. /\ i \notin seen /\ published[i].kind # "checkout" /\ seen' = seen \union {i}
      /\ UNCHANGED stripe
      /\ account' = IF Mine(i) THEN Changed(i) ELSE account
      /\ off' = IF OutOfTurn(i) \/ ~Mine(i) THEN off \union {s} ELSE off
  BY DEF Deliver
<1>2. s \in Subscriptions /\ s # NoSub
  BY AboutOne, SiteSubscriptionAssumption
<1>3. /\ \A t : ChargesOf(t)' = ChargesOf(t)
      /\ \A j : StandingAt(j)' = StandingAt(j)
      /\ UNCHANGED standing
  BY <1>1, StripeQuiet
<1>4. /\ Events \subseteq Nat
      /\ \A t : \A j : j \in ChargesOf(t) <=>
            j \in Events /\ published[j].sub = t /\ published[j].kind # "checkout"
  BY ChargesAre
<1>5. i \in ChargesOf(s) /\ \A t \in Subscriptions \ {s} : i \notin ChargesOf(t)
  BY <1>1, <1>4
<1>6. StandingIsLatest'
  BY <1>3 DEF InTurn, StandingIsLatest
<1>7. CASE ~Mine(i)
  <2>1. account' = account /\ off' = off \union {s}
    BY <1>1, <1>7
  <2>2. AccountFollows'
    <3> SUFFICES ASSUME NEW t \in Subscriptions, t \notin off'
                 PROVE  /\ account.held = NoSub => ChargesOf(t) \intersect seen' = {}
                        /\ account.held = t =>
                              \E j \in ChargesOf(t) :
                                  /\ Reflects(j)'
                                  /\ \A k \in ChargesOf(t) : j < k => k \notin seen'
                                  /\ j \in seen' \/ StandingAt(j) = "active"
      BY <1>3, <2>1 DEF AccountFollows
    <3>1. t \notin off /\ t # s
      BY <2>1
    <3>2. \A j \in ChargesOf(t) : j \in seen' <=> j \in seen
      BY <1>1, <1>5, <3>1
    <3>3. \A j : Reflects(j)' <=> Reflects(j)
      BY <1>3, <2>1 DEF Reflects
    <3> QED
      BY <3>1, <3>2, <3>3 DEF InTurn, AccountFollows
  <2> QED
    BY <1>6, <2>2 DEF InTurn
<1>8. CASE Mine(i)
  <2>1. /\ account' = Changed(i) /\ account.held \in {NoSub, s}
        /\ off \subseteq off' /\ (s \notin off' => ~OutOfTurn(i))
    BY <1>1, <1>8 DEF Mine
  <2>2. account \in Account /\ (account.held = NoSub => account.status # "cancelled")
    BY DEF IInv, TypeOK, NothingHeldNothingEnded
  <2>3. account'.held = s
    BY <1>2, <2>1, <2>2 DEF Changed, Reactivated, Named, Account
  <2>4. /\ published[i].kind = "failed" =>
               account'.suspended /\ account'.status = account.status
        /\ published[i].kind = "ended" =>
               account'.suspended /\ account'.status = "cancelled"
        /\ published[i].kind \notin {"failed", "ended"} =>
               /\ account'.suspended <=> account.suspended /\ account.status = "cancelled"
               /\ account'.status = account.status
    BY <1>2, <2>1, <2>2 DEF Changed, Reactivated, Named, Account
  <2>5. ASSUME s \notin off'
        PROVE  Reflects(i)' /\ \A j \in ChargesOf(s) : i < j => j \notin seen'
    <3>1. s \notin off /\ ~OutOfTurn(i)
      BY <2>1, <2>5
    <3>2. \A j \in ChargesOf(s) : j # i => (j < i <=> j \in seen)
      BY <3>1 DEF OutOfTurn, ChargesOf
    <3>3. \A j \in ChargesOf(s) : i < j => j \notin seen'
      <4>1. i \in Nat /\ ChargesOf(s) \subseteq Nat
        BY <1>4
      <4> QED
        BY <1>1, <3>2, <4>1
    <3>4. \A j : j \in About(s) /\ published[j].kind = "ended" <=>
                  j \in ChargesOf(s) /\ published[j].kind = "ended"
      BY <1>4 DEF About
    <3>5. /\ account.status = "cancelled" <=>
                \E j \in About(s) : j < i /\ published[j].kind = "ended"
          /\ account.status = "cancelled" => account.suspended
      <4>1. CASE account.held = NoSub
        <5>1. ChargesOf(s) \intersect seen = {}
          BY <1>2, <3>1, <4>1 DEF InTurn, AccountFollows
        <5>2. ~\E j \in About(s) : j < i /\ published[j].kind = "ended"
          <6> SUFFICES ASSUME NEW j \in ChargesOf(s), j < i PROVE FALSE
            BY <3>4
          <6>1. j # i
            BY <1>4
          <6> QED
            BY <3>2, <5>1, <6>1
        <5> QED
          BY <2>2, <4>1, <5>2
      <4>2. CASE account.held = s
        <5>1. PICK p \in ChargesOf(s) :
                  /\ Reflects(p)
                  /\ \A j \in ChargesOf(s) : p < j => j \notin seen
                  /\ p \in seen \/ StandingAt(p) = "active"
          BY <1>2, <3>1, <4>2 DEF InTurn, AccountFollows
        <5>2. p \in Nat /\ i \in Nat /\ published[p].sub = s /\ ChargesOf(s) \subseteq Nat
          BY <1>4
        <5>3. StandingAt(p) = "canceled" <=>
                  \E j \in ChargesOf(s) : j <= p /\ published[j].kind = "ended"
          BY <3>4, <5>2 DEF StandingAt
        <5>4. ASSUME account.status = "cancelled"
              PROVE  account.suspended
                     /\ \E j \in About(s) : j < i /\ published[j].kind = "ended"
          <6>1. StandingAt(p) = "canceled"
            BY <5>1, <5>4 DEF Reflects
          <6>2. account.suspended
            BY <5>1, <6>1 DEF Reflects
          <6>3. p \in seen /\ p # i
            BY <1>1, <5>1, <6>1
          <6>4. p < i
            BY <3>2, <6>3
          <6>5. PICK j \in ChargesOf(s) : j <= p /\ published[j].kind = "ended"
            BY <5>3, <6>1
          <6>6. j \in Nat /\ j < i
            BY <5>2, <6>4, <6>5
          <6> QED
            BY <3>4, <6>2, <6>5, <6>6
        <5>5. ASSUME NEW j \in About(s), j < i, published[j].kind = "ended"
              PROVE  account.status = "cancelled"
          <6>1. j \in ChargesOf(s) /\ j \in Nat
            BY <3>4, <5>2, <5>5
          <6>2. j # i
            BY <5>2, <5>5, <6>1
          <6>3. j \in seen
            BY <3>2, <5>5, <6>1, <6>2
          <6>4. ~(p < j)
            BY <5>1, <6>1, <6>3
          <6>5. j <= p
            BY <5>2, <6>1, <6>4
          <6>6. StandingAt(p) = "canceled"
            BY <5>3, <5>5, <6>1, <6>5
          <6> QED
            BY <5>1, <6>6 DEF Reflects
        <5> QED
          BY <5>4, <5>5
      <4> QED
        BY <2>1, <4>1, <4>2
    <3>6. (\E j \in About(s) : j <= i /\ published[j].kind = "ended") <=>
              \/ published[i].kind = "ended"
              \/ \E j \in About(s) : j < i /\ published[j].kind = "ended"
      <4>1. About(s) \subseteq Nat /\ i \in About(s) /\ i \in Nat
        BY <1>4, <1>5 DEF About
      <4>2. \A j \in About(s) : j <= i <=> j < i \/ j = i
        BY <4>1
      <4> QED
        BY <4>1, <4>2
    <3>7. /\ StandingAt(i) = "canceled" <=>
                account.status = "cancelled" \/ published[i].kind = "ended"
          /\ StandingAt(i) # "active" <=>
                \/ account.status = "cancelled"
                \/ published[i].kind \in {"ended", "failed"}
      BY <3>5, <3>6 DEF StandingAt
    <3>8. Reflects(i)'
      <4>1. /\ account'.suspended <=> StandingAt(i) # "active"
            /\ account'.status = "cancelled" <=> StandingAt(i) = "canceled"
        BY <2>4, <3>5, <3>7
      <4> QED
        BY <1>3, <4>1 DEF Reflects
    <3> QED
      BY <3>3, <3>8
  <2>6. AccountFollows'
    <3> SUFFICES ASSUME s \notin off'
                 PROVE  \E j \in ChargesOf(s)' :
                            /\ Reflects(j)'
                            /\ \A k \in ChargesOf(s)' : j < k => k \notin seen'
                            /\ j \in seen' \/ StandingAt(j)' = "active"
      BY <1>2, <2>3 DEF AccountFollows
    <3> QED
      BY <1>1, <1>3, <1>5, <2>5
  <2> QED
    BY <1>6, <2>6 DEF InTurn
<1> QED
  BY <1>7, <1>8

\* The last of the events that Stripe publishes is a charge, and Stripe says of s
\* what it says.
Says(s) ==
    LET last == Len(published')
    IN  /\ last \in Events' \ Events /\ last \in Nat
        /\ published'[last].kind # "checkout"
        /\ \A i \in Events' \ Events : i # last => published'[i].kind = "checkout"
        /\ \A i \in Events' : i <= last
        /\ \A i \in Events, j \in Events' \ Events : i < j
        /\ standing'[s] =
              IF standing[s] = "canceled" \/ published'[last].kind = "ended" THEN "canceled"
              ELSE IF published'[last].kind = "failed" THEN "past_due" ELSE "active"

LEMMA LastPublished ==
  ASSUME NEW events \in Seq(EventRecord), published \in Seq(EventRecord),
         Publish(events), Len(events) # 0
  PROVE  LET last == Len(published')
         IN  /\ last \in Events' \ Events /\ last \in Nat
             /\ published'[last] = events[Len(events)]
             /\ \A i \in Events' \ Events : i # last =>
                   \E j \in 1 .. Len(events) : j # Len(events) /\ published'[i] = events[j]
             /\ \A i \in Events' : i <= last
             /\ \A i \in Events, j \in Events' \ Events : i < j
<1> DEFINE n == Len(published)
           m == Len(events)
           joined == published \o events
<1>1. published' = joined
  BY DEF Publish
<1>2. n \in Nat /\ m \in Nat \ {0}
  OBVIOUS
<1>3. /\ Len(joined) = n + m
      /\ \A i \in 1 .. n + m :
            joined[i] = IF i <= n THEN published[i] ELSE events[i - n]
  BY ConcatProperties
<1>4. Events = 1 .. n /\ Events' = 1 .. n + m /\ Len(published') = n + m
  BY <1>1, <1>3 DEF Events
<1> HIDE DEF n, m, joined
<1>5. n + m \in Events' \ Events /\ joined[n + m] = events[m]
  <2>1. n + m \in 1 .. n + m /\ ~(n + m <= n) /\ (n + m) - n = m
    BY <1>2
  <2> QED
    BY <1>2, <1>3, <1>4, <2>1
<1>6. ASSUME NEW i \in Events' \ Events, i # n + m
      PROVE  \E j \in 1 .. m : j # m /\ joined[i] = events[j]
  <2>1. i \in 1 .. n + m /\ ~(i <= n)
    BY <1>2, <1>4, <1>6
  <2>2. i - n \in 1 .. m /\ i - n # m
    BY <1>2, <1>6, <2>1
  <2> QED
    BY <1>3, <2>1, <2>2
<1>7. /\ \A i \in Events' : i <= n + m
      /\ \A i \in Events, j \in Events' \ Events : i < j
      /\ n + m \in Nat
  BY <1>2, <1>4
<1> QED
  BY <1>1, <1>4, <1>5, <1>6, <1>7 DEF m

LEMMA SaysTheLast ==
  ASSUME NEW events \in Seq(EventRecord), published \in Seq(EventRecord),
         Publish(events), Len(events) # 0, NEW s \in Subscriptions,
         \A j \in 1 .. Len(events) : j # Len(events) => events[j].kind = "checkout",
         events[Len(events)].kind # "checkout",
         standing'[s] =
            IF standing[s] = "canceled" \/ events[Len(events)].kind = "ended"
            THEN "canceled"
            ELSE IF events[Len(events)].kind = "failed" THEN "past_due" ELSE "active"
  PROVE  Says(s)
<1> PICK last : last = Len(published')
  OBVIOUS
<1> PICK e : e = events[Len(events)]
  OBVIOUS
<1>1. /\ last \in Events' \ Events /\ last \in Nat
      /\ published'[last] = e
      /\ \A i \in Events' \ Events : i # last =>
            \E j \in 1 .. Len(events) : j # Len(events) /\ published'[i] = events[j]
      /\ \A i \in Events' : i <= last
      /\ \A i \in Events, j \in Events' \ Events : i < j
  BY LastPublished
<1>2. \A i \in Events' \ Events : i # last => published'[i].kind = "checkout"
  BY <1>1
<1> QED
  BY <1>1, <1>2 DEF Says

LEMMA CheckoutSays ==
  ASSUME StripeTypeOK, NEW c \in Customers \union {NoCustomer},
         NEW s \in Subscriptions, CompleteCheckout(c, s)
  PROVE  Says(s)
<1> DEFINE done == Event("checkout", s)
           paid == Event("paid", s)
           both == <<done, paid>>
<1>1. /\ done \in EventRecord /\ done.kind = "checkout"
      /\ paid \in EventRecord /\ paid.kind = "paid"
  BY DEF Event, EventRecord, Kinds
<1>2. Publish(both)
  BY DEF CompleteCheckout
<1>3. standing[s] = "none" /\ standing'[s] = "active"
  BY DEF CompleteCheckout, StripeTypeOK
<1> HIDE DEF done, paid
<1>4. /\ both \in Seq(EventRecord) /\ Len(both) = 2
      /\ both[1] = done /\ both[2] = paid
  BY <1>1
<1> HIDE DEF both
<1>5. \A j \in 1 .. Len(both) : j # Len(both) => both[j] = done
  BY <1>4
<1>6. published \in Seq(EventRecord)
  BY DEF StripeTypeOK, EventRecord
<1>7. standing'[s] = IF standing[s] = "canceled" THEN "canceled" ELSE "active"
  BY <1>3
<1> QED
  BY <1>1, <1>2, <1>4, <1>5, <1>6, <1>7, SaysTheLast

LEMMA StepSays ==
  ASSUME StripeTypeOK, NEW s \in Subscriptions, StripeStep(s, {"paid"})
  PROVE  Says(s)
<1>1. ASSUME NEW kind \in Kinds \ {"checkout"}, Publish(<<Event(kind, s)>>),
             standing'[s] =
                IF standing[s] = "canceled" \/ kind = "ended" THEN "canceled"
                ELSE IF kind = "failed" THEN "past_due" ELSE "active"
      PROVE  Says(s)
  <2> DEFINE e == Event(kind, s)
             one == <<e>>
  <2>1. e \in EventRecord /\ e.kind = kind
    BY DEF Event, EventRecord
  <2>2. Publish(one)
    BY <1>1
  <2> HIDE DEF e
  <2>3. one \in Seq(EventRecord) /\ Len(one) = 1 /\ one[1] = e
    BY <2>1
  <2> HIDE DEF one
  <2>4. published \in Seq(EventRecord)
    BY DEF StripeTypeOK, EventRecord
  <2>5. \A j \in 1 .. Len(one) : j # Len(one) => one[j].kind = "checkout"
    BY <2>3
  <2>6. one[Len(one)].kind = kind /\ Len(one) # 0
    BY <2>1, <2>3
  <2> QED
    BY <1>1, <2>2, <2>3, <2>4, <2>5, <2>6, SaysTheLast
<1>2. CASE FailInvoice(s)
  BY <1>1, <1>2 DEF FailInvoice, StripeTypeOK, Kinds
<1>3. CASE PayInvoice(s, "paid")
  BY <1>1, <1>3 DEF PayInvoice, StripeTypeOK, Kinds
<1>4. CASE EndSubscription(s)
  BY <1>1, <1>4 DEF EndSubscription, StripeTypeOK, Kinds
<1>5. CASE PayFinalInvoice(s)
  BY <1>1, <1>5 DEF PayFinalInvoice, StripeTypeOK, Kinds
<1> QED
  BY <1>2, <1>3, <1>4, <1>5 DEF StripeStep

\* Stripe publishes about s; the account is told of it later.
LEMMA StripeFollows ==
  ASSUME IInv, OneInv, InTurn, NEW s \in Subscriptions, Moves(s), Says(s),
         UNCHANGED <<account, seen, off>>
  PROVE  InTurn'
<1> PICK last : last = Len(published')
  OBVIOUS
<1>1. /\ last \in Events' \ Events /\ last \in Nat
      /\ published'[last].kind # "checkout"
      /\ \A i \in Events' \ Events : i # last => published'[i].kind = "checkout"
      /\ \A i \in Events' : i <= last
      /\ \A i \in Events, j \in Events' \ Events : i < j
      /\ standing'[s] =
            IF standing[s] = "canceled" \/ published'[last].kind = "ended" THEN "canceled"
            ELSE IF published'[last].kind = "failed" THEN "past_due" ELSE "active"
  BY DEF Says
<1>2. /\ \A t \in Subscriptions \ {s} : standing'[t] = standing[t]
      /\ \A i \in Events : i \in Events' /\ published'[i] = published[i]
      /\ \A i \in Events' \ Events : published'[i].sub = s
  BY DEF Moves
<1>3. /\ seen \subseteq Events /\ Events \subseteq Nat /\ Events' \subseteq Nat
      /\ \A i \in Events : published[i].sub \in Subscriptions
      /\ \A t : ChargesOf(t) \subseteq Events
      /\ \A t : \A i \in ChargesOf(t) : published[i].sub = t
  BY AboutOne, ChargesAre DEF Events
<1>4. \A t : /\ About(t) \subseteq About(t)'
             /\ \A i \in About(t)' : i \in About(t) \/ i \in Events' \ Events
  BY <1>2 DEF About
<1>5. \A t : ChargesOf(t)' = IF t = s THEN ChargesOf(s) \union {last} ELSE ChargesOf(t)
  <2> SUFFICES ASSUME NEW t
               PROVE  ChargesOf(t)' = IF t = s THEN ChargesOf(s) \union {last}
                                      ELSE ChargesOf(t)
    OBVIOUS
  <2>1. \A i : i \in ChargesOf(t)' <=>
            i \in Events' /\ published'[i].sub = t /\ published'[i].kind # "checkout"
    BY DEF ChargesOf, CheckoutOf, About
  <2>2. \A i : i \in ChargesOf(t) <=>
            i \in Events /\ published[i].sub = t /\ published[i].kind # "checkout"
    BY DEF ChargesOf, CheckoutOf, About
  <2>3. \A i \in Events : i \in ChargesOf(t)' <=> i \in ChargesOf(t)
    BY <1>2, <2>1, <2>2
  <2>4. \A i \in Events' \ Events : i \in ChargesOf(t)' <=> t = s /\ i = last
    BY <1>1, <1>2, <2>1
  <2>5. \A i : i \in ChargesOf(t)' <=> i \in ChargesOf(t) \/ (t = s /\ i = last)
    BY <1>1, <1>2, <2>1, <2>2, <2>3, <2>4
  <2> QED
    BY <2>5
<1>6. \A i \in Events : StandingAt(i)' = StandingAt(i)
  <2> SUFFICES ASSUME NEW i \in Events PROVE StandingAt(i)' = StandingAt(i)
    OBVIOUS
  <2> PICK t : t = published[i].sub
    OBVIOUS
  <2>1. published'[i] = published[i]
    BY <1>2
  <2>2. \A j \in Events' \ Events : ~(j <= i)
    BY <1>1, <1>3
  <2>3. (\E j \in About(t)' : j <= i /\ published'[j].kind = "ended") <=>
            \E j \in About(t) : j <= i /\ published[j].kind = "ended"
    <3>1. \A j \in About(t) : j \in Events
      BY DEF About
    <3> QED
      BY <1>2, <1>4, <2>2, <3>1
  <2> QED
    BY <2>1, <2>3 DEF StandingAt
<1>7. StandingAt(last)' = standing'[s]
  <2>1. (\E j \in About(s) : published[j].kind = "ended") <=> standing[s] = "canceled"
    BY <1>3 DEF About, IInv, EndsAreFinal, OneInv, FromItsPage
  <2>2. (\E j \in About(s)' : j <= last /\ published'[j].kind = "ended") <=>
            \/ published'[last].kind = "ended"
            \/ \E j \in About(s) : published[j].kind = "ended"
    <3>1. /\ \A j \in About(s) : j \in Events /\ j \in Events'
          /\ last \in About(s)'
          /\ \A j \in About(s)' : j \in Events'
      BY <1>1, <1>2 DEF About
    <3>2. \A j \in About(s)' : j <= last
      BY <1>1, <3>1
    <3>3. \A j \in Events' \ Events : published'[j].kind = "ended" => j = last
      BY <1>1
    <3> QED
      BY <1>2, <1>4, <3>1, <3>2, <3>3
  <2>3. published'[last].sub = s
    BY <1>1, <1>2
  <2> QED
    BY <1>1, <2>1, <2>2, <2>3 DEF StandingAt
<1>8. StandingIsLatest'
  <2> SUFFICES ASSUME NEW t \in Subscriptions, standing'[t] # "none"
               PROVE  \E i \in ChargesOf(t)' :
                          /\ \A j \in ChargesOf(t)' : j <= i
                          /\ standing'[t] = StandingAt(i)'
    BY DEF StandingIsLatest
  <2>1. CASE t = s
    <3>1. \A j \in ChargesOf(s)' : j <= last
      BY <1>1, <1>2, <1>3, <1>5
    <3> QED
      BY <1>5, <1>7, <2>1, <3>1
  <2>2. CASE t # s
    <3>1. standing'[t] = standing[t] /\ ChargesOf(t)' = ChargesOf(t)
      BY <1>2, <1>5, <2>2
    <3>2. PICK i \in ChargesOf(t) :
              (\A j \in ChargesOf(t) : j <= i) /\ standing[t] = StandingAt(i)
      BY <3>1 DEF InTurn, StandingIsLatest
    <3>3. StandingAt(i)' = StandingAt(i)
      BY <1>3, <1>6
    <3> QED
      BY <3>1, <3>2, <3>3
  <2> QED
    BY <2>1, <2>2
<1>9. AccountFollows'
  <2> SUFFICES ASSUME NEW t \in Subscriptions, t \notin off
               PROVE  /\ account.held = NoSub => ChargesOf(t)' \intersect seen = {}
                      /\ account.held = t =>
                            \E i \in ChargesOf(t)' :
                                /\ Reflects(i)'
                                /\ \A j \in ChargesOf(t)' : i < j => j \notin seen
                                /\ i \in seen \/ StandingAt(i)' = "active"
    BY DEF AccountFollows
  <2>1. last \notin seen
    BY <1>1, <1>3
  <2>2. CASE account.held = NoSub
    BY <1>5, <2>1, <2>2, SiteSubscriptionAssumption DEF InTurn, AccountFollows
  <2>3. CASE account.held = t
    <3>1. PICK i \in ChargesOf(t) :
              /\ Reflects(i)
              /\ \A j \in ChargesOf(t) : i < j => j \notin seen
              /\ i \in seen \/ StandingAt(i) = "active"
      BY <2>3 DEF InTurn, AccountFollows
    <3>2. StandingAt(i)' = StandingAt(i)
      BY <1>3, <1>6
    <3>3. Reflects(i)'
      BY <3>1, <3>2 DEF Reflects
    <3>4. i \in ChargesOf(t)' /\ \A j \in ChargesOf(t)' : i < j => j \notin seen
      BY <1>5, <2>1, <3>1
    <3> QED
      BY <2>3, <3>1, <3>2, <3>3, <3>4, SiteSubscriptionAssumption
  <2> QED
    BY <2>2, <2>3
<1> QED
  BY <1>8, <1>9 DEF InTurn

LEMMA InitInTurn == Init => InTurn
BY SiteSubscriptionAssumption
   DEF Init, StripeInit, InTurn, StandingIsLatest, AccountFollows, ChargesOf, About, Events

LEMMA NextInTurn ==
  ASSUME IInv, OneInv, InTurn, [Next]_vars PROVE InTurn'
<1>1. CASE AcceptTerms
  BY <1>1, AcceptTermsFollows
<1>2. CASE StartTrial \/ IssueKey
  <2>1. UNCHANGED <<stripe, seen, off>>
    BY <1>2 DEF StartTrial, IssueKey, history
  <2>2. /\ account'.held = account.held /\ account'.suspended = account.suspended
        /\ account'.status = "cancelled" <=> account.status = "cancelled"
    BY <1>2 DEF StartTrial, IssueKey, IInv, TypeOK, Account
  <2> QED
    BY <2>1, <2>2, SaysTheSame
<1>3. ASSUME NEW s \in Subscriptions, OpenPage(s) \/ FinishSetup(s) \/ BeginReturn(s)
      PROVE  InTurn'
  BY <1>3, SetUpFollows
<1>4. ASSUME NEW s \in Subscriptions, Checkout(s) PROVE InTurn'
  <2>1. /\ StripeTypeOK /\ page[s].customer \in Customers \union {NoCustomer}
        /\ CompleteCheckout(page[s].customer, s)
    BY <1>4 DEF Checkout, IInv, TypeOK, Page
  <2>2. Moves(s) /\ Says(s)
    BY <2>1, CheckoutMoves, CheckoutSays
  <2> QED
    BY <1>4, <2>2, StripeFollows DEF Checkout, history
<1>5. ASSUME NEW s \in Subscriptions, FinishReturn(s) \/ BeginLink(s) \/ FinishLink(s)
      PROVE  InTurn'
  BY <1>5, FinishReturnFollows, BeginLinkFollows, FinishLinkFollows
<1>6. ASSUME NEW s \in Subscriptions, NEW c \in Customers, StartSetup(s, c)
      PROVE  InTurn'
  BY <1>6, SetUpFollows
<1>7. ASSUME NEW s \in Subscriptions,
             StripeStep(s, {"paid"}),
             UNCHANGED <<account, card, liveKey, page, seen, returning, linking,
                         history>>
      PROVE  InTurn'
  <2>1. Moves(s) /\ Says(s)
    BY <1>7, StepMoves, StepSays DEF IInv, TypeOK
  <2> QED
    BY <1>7, <2>1, StripeFollows DEF history
<1>8. ASSUME NEW i \in Events, Deliver(i) PROVE InTurn'
  BY <1>8, DeliverFollows
<1>9. CASE UNCHANGED vars
  BY <1>9, SaysTheSame DEF vars
<1> QED
  BY <1>1, <1>2, <1>3, <1>4, <1>5, <1>6, <1>7, <1>8, <1>9 DEF Next

LEMMA InTurnInductive == Spec => []InTurn
<1>1. Init => InTurn
  BY InitInTurn
<1>2. IInv /\ OneInv /\ InTurn /\ [Next]_vars => InTurn'
  BY NextInTurn
<1> QED
  BY <1>1, <1>2, Inductive, OneInductive, PTL DEF Spec

\* When all is known of the subscription that the account holds, and none of it
\* came out of turn, the account is suspended and cancelled as Stripe says
\* (handleBillingWebhook, handleBillingReturn).
THEOREM FollowsStripe == Spec => []InStepWithStripe
<1>1. ASSUME IInv, InTurn PROVE InStepWithStripe
  <2> SUFFICES ASSUME NEW s \in Subscriptions \ off, account.held = s, About(s) \subseteq seen
               PROVE  /\ account.suspended <=> standing[s] # "active"
                      /\ account.status = "cancelled" <=> standing[s] = "canceled"
    BY DEF InStepWithStripe
  <2>1. PICK i \in ChargesOf(s) :
            Reflects(i) /\ \A j \in ChargesOf(s) : i < j => j \notin seen
    BY <1>1 DEF InTurn, AccountFollows
  <2>2. standing[s] # "none"
    BY <1>1, <2>1, ChargesAre
  <2>3. PICK k \in ChargesOf(s) :
            (\A j \in ChargesOf(s) : j <= k) /\ standing[s] = StandingAt(k)
    BY <1>1, <2>2 DEF InTurn, StandingIsLatest
  <2>4. k = i
    <3>1. ChargesOf(s) \subseteq Nat /\ ChargesOf(s) \subseteq seen
      BY <1>1, ChargesAre DEF ChargesOf
    <3>2. ~(i < k) /\ i <= k /\ i \in Nat /\ k \in Nat
      BY <2>1, <2>3, <3>1
    <3> QED
      BY <3>2
  <2> QED
    BY <2>1, <2>3, <2>4 DEF Reflects
<1> QED
  BY <1>1, Inductive, InTurnInductive, PTL

=============================================================================
