\* Three processes, three calls, two crashes.
CONSTANTS
    Processes = {p1, p2, p3}
    Changes = {c1, c2, c3}
    NoLock = NoLock
    MaxCrashes = 2
SPECIFICATION Spec
SYMMETRY LockSymmetry
INVARIANTS TypeOK MutualExclusion ReturnedChangesSurvive
PROPERTIES ChangesAreAtomic OnlyShortWritesDamage
CHECK_DEADLOCK FALSE
