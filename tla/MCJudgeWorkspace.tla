-------------------------- MODULE MCJudgeWorkspace --------------------------
(* A correct and a wrong program: judged, rejudged and run by hand.  The     *)
(* correct one lays its outputs out in its own way; the wrong one has a line *)
(* break in place of a blank, then crashes.  The run of the correct one      *)
(* gives no expected output for its second case.                             *)
EXTENDS JudgeWorkspace, TLC

CONSTANTS j1, j2, j3, r1, r2, good, bad

ProgOf == (j1 :> good) @@ (j2 :> bad) @@ (j3 :> good) @@ (r1 :> good) @@ (r2 :> bad)

ProgOfJudges == (j1 :> good) @@ (j3 :> good)

ExpectedTexts == << <<"x", " ", "x", "nl">>, <<"x", "nl">> >>

OutputTexts ==
    (good :> << <<"nl", "x", " ", "x">>, <<" ", "x", "cr", "nl">> >>)
        @@ (bad :> << <<"x", "nl", "x", "nl">>, <<>> >>)

FailsOf == (good :> <<"none", "none">>) @@ (bad :> <<"none", "RE">>)

ChecksOf == (r1 :> {1}) @@ (r2 :> {1, 2})

NoChecks == [r \in {} |-> {}]

\* The comparison agrees with its definition on every pair of short texts.
ASSUME ComparisonIsLoose == ComparesEssence
=============================================================================
