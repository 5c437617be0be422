\* The trades layer drafts the runs.
CONSTANTS
    e1 = e1
    e2 = e2
    r1 = r1
    r2 = r2
    r3 = r3
    NotTerminated = NotTerminated
    Employees = {e1, e2}
    RunIds = {r1, r2, r3}
    Dates = {1, 2, 3}
    YearOf <- MCYearOf
    FirstYear = 2026
    Wages = {1, 3}
    HireDate <- MCHireDate
    TerminationDate <- MCTerminationDate
    Layer = "trades"
    SSWageBase = 5
    SuiWageBase = 2
    AddlThreshold = 4
SPECIFICATION Spec
INVARIANT TelescopesToWageBases
CHECK_DEADLOCK FALSE
