\* Two denials in flight; accruals that fit under the cap and some that do not, and
\* hours worked and used that are negative.
CONSTANTS
    b1 = b1
    b2 = b2
    t1 = t1
    t2 = t2
    t3 = t3
    Balances = {b1, b2}
    Tickets = {t1, t2, t3}
    BalanceOf <- MCBalanceOf
    Hours <- MCHours
    Accruals <- MCAccruals
    CapOf <- MCCapOf
    NoCap = NoCap
    Requests = {q1, q2}
    MaxHours = 1
    MaxCrashes = 1
SPECIFICATION Spec
SYMMETRY PtoSymmetry
INVARIANTS TypeOK HoursTakenOnce DecisionsStand
CHECK_DEADLOCK FALSE
