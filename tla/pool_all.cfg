CONSTANTS
    Workers = {w1, w2}
    Submissions = {s1, s2}
    Handlers = {h1, h2}
    NoSid = NoSid
    CompileVerdicts = {"COMPILE_ERROR"}
    TestVerdicts = {"WA", "TLE"}
    MaxTests = 2
    MaxRejudges = 1
    MaxFaults = 1
    MaxCrashes = 1
SPECIFICATION Spec
INVARIANTS
    TypeOK
    NothingForgotten
    SoleJudge
PROPERTIES
    StatusMachine
    ServiceSteps
SYMMETRY Symmetry
CHECK_DEADLOCK FALSE
