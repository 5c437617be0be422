\* Two calls, two flushes at once, one of them cut short.
CONSTANTS
    Calls = {c1, c2}
    Flushers = {f1, f2}
    NoCall = NoCall
    MaxAborts = 1
SPECIFICATION Spec
INVARIANTS TypeOK DeadAndBilledIfAnswerLost
PROPERTIES ImplementsLedger GivenUpForGood
CHECK_DEADLOCK FALSE
