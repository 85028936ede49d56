SPECIFICATION Spec
CONSTANTS
    j1 = j1
    j2 = j2
    j3 = j3
    r1 = r1
    r2 = r2
    good = good
    bad = bad
    Programs = {good, bad}
    Expected <- ExpectedTexts
    Output <- OutputTexts
    Fails <- FailsOf
    Checks <- NoChecks
    Prog <- ProgOfJudges
    Judges = {j1, j3}
    Runs = {}
    NTests = 2
    Overlap = TRUE
    Chars = {"x", " ", "nl", "cr"}
    MaxLength = 4
INVARIANTS VerdictIsOwn
CHECK_DEADLOCK FALSE
