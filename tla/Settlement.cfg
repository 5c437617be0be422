\* Two processes, balances of up to four cents, a memory of two payments.
CONSTANTS
    Processes = {p1, p2}
    NoCharge = NoCharge
    Prices = {1, 2}
    PaymentMemory = 2
    MaxBilled = 4
SPECIFICATION Spec
SYMMETRY ProcessSymmetry
INVARIANTS TypeOK EachPaymentCountsOnce NothingForgiven CollectedOnceInOrder
CHECK_DEADLOCK FALSE
