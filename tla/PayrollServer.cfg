\* Two requests in flight, two companies, two edits, one stop of the process.
CONSTANTS
    c1 = c1
    c2 = c2
    e1 = e1
    e2 = e2
    e3 = e3
    Companies = {c1, c2}
    Employees = {e1, e2, e3}
    Seeded = {e1}
    Applicants = {e3}
    CompanyOf <- MCCompanyOf
    Dates = {1, 2}
    Fields = {"federalW4"}
    Orders = {"o1"}
    Requests = {q1, q2}
    NoDate = NoDate
    MaxEdits = 2
    MaxCrashes = 1
SPECIFICATION Spec
SYMMETRY RequestSymmetry
INVARIANTS TypeOK TotalsCoverSavedChecks TotalsAheadByCrashesOnly OneRunPerCheckDate NoPeriodSkipped EditsSurvive
PROPERTY OnlyStaffIsPaid
CHECK_DEADLOCK FALSE
