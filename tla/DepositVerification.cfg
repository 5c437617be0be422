\* One account, three requests in flight, one guess more than allowed.
CONSTANTS
    Accounts = {a1}
    MaxAttempts = 3
    Requests = {q1, q2, q3}
    MaxGuesses = 4
SPECIFICATION DepositSpec
SYMMETRY DepositSymmetry
INVARIANTS DepositTypeOK GuessesDecide
CHECK_DEADLOCK FALSE
