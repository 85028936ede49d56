CONSTANTS
    Workers = {w1}
    Submissions = {s1, s2}
    Handlers = {h1}
    NoSid = NoSid
    CompileVerdicts = {"COMPILE_ERROR"}
    TestVerdicts = {"WA"}
    MaxTests = 1
    MaxRejudges = 0
    MaxFaults = 0
    MaxCrashes = 1
SPECIFICATION Spec
PROPERTY CrashedAreJudged
CHECK_DEADLOCK FALSE
