\* One process: the retry of a charge whose answer was lost.
CONSTANTS
    Processes = {p1}
    NoCharge = NoCharge
    Prices = {1, 2}
    PaymentMemory = 2
    MaxBilled = 3
SPECIFICATION Spec
INVARIANT CollectedAtMostBilled
CHECK_DEADLOCK FALSE
