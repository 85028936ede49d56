CONSTANTS
    Workers = {w1, w2}
    Submissions = {s1, s2}
    Handlers = {h1}
    NoSid = NoSid
    CompileVerdicts = {"COMPILE_ERROR"}
    TestVerdicts = {"WA"}
    MaxTests = 1
    MaxRejudges = 1
    MaxFaults = 0
    MaxCrashes = 0
SPECIFICATION Spec
PROPERTIES
    ImplementsService
    StopReturns
CHECK_DEADLOCK FALSE
