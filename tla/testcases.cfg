CONSTANTS
    Staff = {a1, a2}
    Cases = {c1, c2, c3}
    Times = {t1, t2}
    Memories = {m1}
    MaxNum = 3
    Gaps = TRUE
    Overlap = "additions"
    MaxRequests = 2
    MaxFaults = 1
    MaxCrashes = 1
SPECIFICATION Spec
INVARIANTS
    TypeOK
    PairsNeverMixed
    CompleteCasesSurvive
    ScoresFollowCases
    AdditionsMixNoReader
    LimitsAsLastAsked
PROPERTIES
    EditsAreListSteps
CONSTRAINT SoundReaders
SYMMETRY Symmetry
CHECK_DEADLOCK FALSE
