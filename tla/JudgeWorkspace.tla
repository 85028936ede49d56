--------------------------- MODULE JudgeWorkspace ---------------------------
(***************************************************************************)
(* The files a judging works with.  judge_one (judge/worker.cpp) uses      *)
(* data/submissions/<sid>/ with fixed names main.cpp, main, run.out and    *)
(* never removes it; run_custom_cases (judge/run.cpp) uses a /tmp          *)
(* directory with a fresh sequence number and removes it on return.  Jobs  *)
(* are the judgings and custom runs in flight on the worker and HTTP       *)
(* threads; one action is one access to a file another job might share.    *)
(*                                                                         *)
(* A program is its source, its binary and what it does on every test      *)
(* point: fail in some way, or write a text, which is judged by the        *)
(* comparison of module Comparison.                                        *)
(***************************************************************************)
EXTENDS Naturals, FiniteSets, Comparison

CONSTANTS
    Judges,   \* calls of judge_one
    Runs,     \* calls of run_custom_cases
    Programs, \* submissions: a program stands for its submission id too
    Prog,     \* [Judges \cup Runs -> Programs]
    NTests,   \* test points (custom cases have the same inputs and answers)
    Expected, \* the expected output of every test point
    Output,   \* [Programs -> [1..NTests -> Texts]], what a program writes
    Fails,    \* how a program fails on a test point, "none" when it does not
    Checks,   \* the cases for which a custom run gives an expected output
    Overlap   \* may two judgings of one submission run at the same time?

Jobs == Judges \cup Runs

ASSUME JobsAssumption ==
    /\ Judges \cap Runs = {}
    /\ IsFiniteSet(Runs)
    /\ "none" \notin Programs
    /\ Prog \in [Jobs -> Programs]
    /\ NTests \in Nat \ {0}
    /\ Expected \in [1..NTests -> Texts]
    /\ Output \in [Programs -> [1..NTests -> Texts]]
    /\ Fails \in [Programs -> [1..NTests -> {"none", "RE", "MLE", "TLE"}]]
    /\ Checks \in [Runs -> SUBSET (1..NTests)]
    /\ Overlap \in BOOLEAN

VARIABLES
    src, bin, out,  \* directory -> content of main.cpp, main, run.out
    seq,            \* the static counter of make_work_dir
    pc, dir, test,  \* of a job: next step, work directory, test point
    held,           \* what the compiler has read, then what the child runs
    worst           \* worst verdict so far; the result once pc is "done"

files == <<src, bin, out>>
vars == <<files, seq, pc, dir, test, held, worst>>

NoDir == <<"none", 0>>
Dirs == {<<"sub", p>> : p \in Programs} \cup {<<"run", n>> : n \in 0..Cardinality(Runs)}
Verdicts == {"NONE", "AC", "WA", "RE", "MLE", "TLE", "COMPILE_ERROR"}

\* A judging checks every output, a custom run those it knows the answer to.
Checked(j, n) == j \in Judges \/ n \in Checks[j]

\* Mutant: one scratch directory for all judgings.
SharedDir(j) == <<"run", 0>>

\* The work directory a job picks.
WorkDir(j) == IF j \in Judges THEN <<"sub", Prog[j]>> ELSE <<"run", seq>>

Init ==
    /\ src = [d \in Dirs |-> "none"]
    /\ bin = [d \in Dirs |-> "none"]
    /\ out = [d \in Dirs |-> <<>>]
    /\ seq = 0
    /\ pc = [j \in Jobs |-> "idle"]
    /\ dir = [j \in Jobs |-> NoDir]
    /\ test = [j \in Jobs |-> 1]
    /\ held = [j \in Jobs |-> "none"]
    /\ worst = [j \in Jobs |-> IF j \in Judges THEN "AC" ELSE "NONE"]

InFlight(j) == pc[j] \notin {"idle", "done"}

GoTo(j, next) == pc' = [pc EXCEPT ![j] = next]
-----------------------------------------------------------------------------
\* Pick the directory and open the source file for writing, truncating it.
OpenSource(j) ==
    /\ pc[j] = "idle"
    /\ Overlap \/ \A k \in Judges : InFlight(k) => dir[k] # WorkDir(j)
    /\ dir' = [dir EXCEPT ![j] = WorkDir(j)]
    /\ seq' = IF j \in Runs THEN seq + 1 ELSE seq
    /\ src' = [src EXCEPT ![WorkDir(j)] = "none"]
    /\ GoTo(j, "source")
    /\ UNCHANGED <<bin, out, test, held, worst>>

CloseSource(j) ==
    /\ pc[j] = "source"
    /\ src' = [src EXCEPT ![dir[j]] = Prog[j]]
    /\ GoTo(j, "compile")
    /\ UNCHANGED <<bin, out, seq, dir, test, held, worst>>

\* A compiler that finds no source, or an empty one, reports an error.
ReadSource(j) ==
    /\ pc[j] = "compile"
    /\ UNCHANGED <<files, seq, dir, test>>
    /\ IF src[dir[j]] \notin Programs
       THEN /\ worst' = [worst EXCEPT ![j] = "COMPILE_ERROR"]
            /\ GoTo(j, "end")
            /\ UNCHANGED held
       ELSE /\ held' = [held EXCEPT ![j] = src[dir[j]]]
            /\ GoTo(j, "link")
            /\ UNCHANGED worst

\* The linker removes the old binary, then has a new one in place.
RemoveBinary(j) ==
    /\ pc[j] = "link"
    /\ bin' = [bin EXCEPT ![dir[j]] = "none"]
    /\ GoTo(j, "linking")
    /\ UNCHANGED <<src, out, seq, dir, test, held, worst>>

WriteBinary(j) ==
    /\ pc[j] = "linking"
    /\ bin' = [bin EXCEPT ![dir[j]] = held[j]]
    /\ GoTo(j, "exec")
    /\ UNCHANGED <<src, out, seq, dir, test, held, worst>>

\* verdict_rank.
Rank(v) ==
    CASE v = "SYSTEM_ERROR" -> 7 [] v = "TLE" -> 6 [] v = "MLE" -> 5 [] v = "RE" -> 4
      [] v = "WA" -> 3 [] v = "AC" -> 2 [] OTHER -> 1

WorseOf(a, b) == IF Rank(b) > Rank(a) THEN b ELSE a

\* Mutant: the loop over the tests does not end after the last one.
SettleForever(j, v) ==
    /\ worst' = [worst EXCEPT ![j] = WorseOf(@, v)]
    /\ GoTo(j, IF j \in Judges /\ v # "AC" THEN "end" ELSE "next")

\* A test point has its verdict: a judging ends at its first failure, a custom
\* run goes on through all its cases and keeps the worst verdict.
Settle(j, v) ==
    /\ worst' = [worst EXCEPT ![j] = WorseOf(@, v)]
    /\ GoTo(j, IF test[j] = NTests \/ (j \in Judges /\ v # "AC") THEN "end" ELSE "next")

\* The child truncates run.out and calls execvp; when there is no binary it
\* exits with 127, which run_testcase reports as a runtime error.
Exec(j) ==
    /\ pc[j] = "exec"
    /\ out' = [out EXCEPT ![dir[j]] = <<>>]
    /\ held' = [held EXCEPT ![j] = bin[dir[j]]]
    /\ IF bin[dir[j]] = "none"
       THEN Settle(j, "RE")
       ELSE /\ GoTo(j, "running")
            /\ UNCHANGED worst
    /\ UNCHANGED <<src, bin, seq, dir, test>>

\* The child writes its answer and exits.
ChildWrites(j) ==
    /\ pc[j] = "running" /\ Fails[held[j]][test[j]] = "none"
    /\ out' = [out EXCEPT ![dir[j]] = Output[held[j]][test[j]]]
    /\ GoTo(j, "compare")
    /\ UNCHANGED <<src, bin, seq, dir, test, held, worst>>

\* The child fails, which the parent looks at before any output.
ChildFails(j) ==
    /\ pc[j] = "running" /\ Fails[held[j]][test[j]] # "none"
    /\ Settle(j, Fails[held[j]][test[j]])
    /\ UNCHANGED <<files, seq, dir, test, held>>

\* The parent reads run.out and compares it, if there is an expected output.
Compare(j) ==
    LET same == LooseCompare(Expected[test[j]], out[dir[j]])
    IN  /\ pc[j] = "compare"
        /\ Settle(j, IF ~Checked(j, test[j]) THEN "NONE"
                     ELSE IF same THEN "AC" ELSE "WA")
        /\ UNCHANGED <<files, seq, dir, test, held>>

NextTest(j) ==
    /\ pc[j] = "next"
    /\ test' = [test EXCEPT ![j] = @ + 1]
    /\ GoTo(j, "exec")
    /\ UNCHANGED <<files, seq, dir, held, worst>>

\* The result is final; a custom run removes its directory.
Finish(j) ==
    /\ pc[j] = "end"
    /\ GoTo(j, "done")
    /\ IF j \in Runs
       THEN /\ src' = [src EXCEPT ![dir[j]] = "none"]
            /\ bin' = [bin EXCEPT ![dir[j]] = "none"]
            /\ out' = [out EXCEPT ![dir[j]] = <<>>]
       ELSE UNCHANGED files
    /\ UNCHANGED <<seq, dir, test, held, worst>>

Step(j) ==
    \/ OpenSource(j) \/ CloseSource(j) \/ ReadSource(j)
    \/ RemoveBinary(j) \/ WriteBinary(j)
    \/ Exec(j) \/ ChildWrites(j) \/ ChildFails(j) \/ Compare(j) \/ NextTest(j)
    \/ Finish(j)

Next == \E j \in Jobs : Step(j)

Spec == Init /\ [][Next]_vars
-----------------------------------------------------------------------------
TypeOK ==
    /\ src \in [Dirs -> {"none"} \cup Programs]
    /\ bin \in [Dirs -> {"none"} \cup Programs]
    /\ out \in [Dirs -> Texts]
    /\ seq \in 0..Cardinality(Runs)
    /\ pc \in [Jobs -> {"idle", "source", "compile", "link", "linking", "exec",
                        "running", "compare", "next", "end", "done"}]
    /\ dir \in [Jobs -> Dirs \cup {NoDir}]
    /\ test \in [Jobs -> 1..NTests]
    /\ held \in [Jobs -> {"none"} \cup Programs]
    /\ worst \in [Jobs -> Verdicts]

\* What a job should find of its own program on every test point, by what the
\* outputs say (compare.cpp:12), however they are laid out.
Deserved(j) ==
    [n \in 1..NTests |->
        IF Fails[Prog[j]][n] # "none" THEN Fails[Prog[j]][n]
        ELSE IF ~Checked(j, n) THEN "NONE"
        ELSE IF Essence(Output[Prog[j]][n]) = Essence(Expected[n]) THEN "AC" ELSE "WA"]

\* A judging's verdict is its first failure, a custom run's the worst of all.
SumsUp(j, vs, v) ==
    IF j \in Judges
    THEN \/ v = "AC" /\ \A n \in 1..NTests : vs[n] = "AC"
         \/ \E n \in 1..NTests : vs[n] = v /\ v # "AC" /\ \A i \in 1..(n - 1) : vs[i] = "AC"
    ELSE \E n \in 1..NTests : vs[n] = v /\ \A i \in 1..NTests : Rank(vs[i]) <= Rank(v)

\* No cross-talk (SPEC.md:443): whatever else is judged or run meanwhile, a
\* finished job's verdict is the one its own program deserves, and a custom run
\* judges by the same comparison as the judging of that program (run.h:5).
VerdictIsOwn ==
    \A j \in Jobs : pc[j] = "done" => SumsUp(j, Deserved(j), worst[j])
=============================================================================
