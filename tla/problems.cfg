CONSTANTS
    Staff = {a1, a2}
    Titles = {t1, t2}
    Versions = {v1, v2}
    MaxId = 2
    Overlap = FALSE
    MaxFaults = 2
    MaxCrashes = 1
SPECIFICATION Spec
INVARIANTS
    TypeOK
    TestsNeverLost
    FailedUpdateKeepsTests
    NothingLeftBehind
SYMMETRY Symmetry
CHECK_DEADLOCK FALSE
