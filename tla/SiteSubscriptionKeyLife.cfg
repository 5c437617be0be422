\* Two subscriptions of one customer, five events.
CONSTANTS
    Subscriptions = {s1, s2}
    Customers = {c1}
    NoSub = NoSub
    NoCustomer = NoCustomer
    MaxEvents = 5
SPECIFICATION Spec
INVARIANT KeyLivesThroughTheTerm
CHECK_DEADLOCK FALSE
