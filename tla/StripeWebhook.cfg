\* Two subscriptions of two customers, five events, one stop of the process.
CONSTANTS
    Subscriptions = {s1, s2}
    Customers = {c1, c2}
    NoSub = NoSub
    NoCustomer = NoCustomer
    MaxEvents = 5
    MaxCrashes = 1
SPECIFICATION Spec
INVARIANTS TypeOK DeadStaysDead InStepWithStripe
PROPERTY NoWebhookSubscribesBack
SYMMETRY Symmetry
CHECK_DEADLOCK FALSE
