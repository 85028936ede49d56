SPECIFICATION Spec
CONSTANTS
    j1 = j1
    j2 = j2
    j3 = j3
    r1 = r1
    r2 = r2
    good = good
    bad = bad
    Programs = {good, bad}
    Expected <- ExpectedTexts
    Output <- OutputTexts
    Fails <- FailsOf
    Checks <- ChecksOf
    Prog <- ProgOf
    Judges = {j1, j2, j3}
    Runs = {r1, r2}
    NTests = 2
    Overlap = FALSE
    Chars = {"x", " ", "nl", "cr"}
    MaxLength = 4
INVARIANTS TypeOK VerdictIsOwn
CHECK_DEADLOCK FALSE
