\* Two subscriptions of two customers, five events.
CONSTANTS
    Subscriptions = {s1, s2}
    Customers = {c1, c2}
    NoSub = NoSub
    NoCustomer = NoCustomer
    MaxEvents = 5
SPECIFICATION Spec
INVARIANTS TypeOK CancelledUntilResubscribed InStepWithStripe TrialKeyLivesThroughTheTerm OneSubscription
SYMMETRY Symmetry
CHECK_DEADLOCK FALSE
