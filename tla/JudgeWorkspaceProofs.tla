------------------------- MODULE JudgeWorkspaceProofs -------------------------
(***************************************************************************)
(* No cross-talk between judgings and custom runs, for any number of them. *)
(* Types hold however judgings overlap.  When no two judgings of one       *)
(* submission run at the same time, every job in flight has a directory to *)
(* itself (Apart), finds in it what it wrote (Finds), and its verdict so   *)
(* far is what its own program's test points amount to (Judged), by the     *)
(* comparison of the code: Seen, where the property has Deserved.          *)
(***************************************************************************)
EXTENDS JudgeWorkspace, FiniteSetTheorems, TLAPS

Started == {r \in Runs : pc[r] # "idle"}

\* TypeOK, with what it rests on: the counter counts the runs that were given
\* a directory, and a child that runs was given a binary.
Types ==
    /\ TypeOK
    /\ seq = Cardinality(Started)
    /\ \A j \in Jobs :
        /\ pc[j] # "idle" => dir[j] \in Dirs
        /\ pc[j] = "running" => held[j] \in Programs
        /\ pc[j] = "next" => test[j] < NTests

\* Where each job works.
Located ==
    \A j \in Jobs : pc[j] # "idle" =>
        IF j \in Judges THEN dir[j] = <<"sub", Prog[j]>>
                        ELSE \E n \in 0..Cardinality(Runs) : n < seq /\ dir[j] = <<"run", n>>

Apart ==
    \A j, k \in Jobs : j # k /\ InFlight(j) /\ InFlight(k) => dir[j] # dir[k]

\* What the job finds at its next access.
Finds(j) ==
    /\ pc[j] = "compile" => src[dir[j]] = Prog[j]
    /\ pc[j] \in {"link", "linking", "running"} => held[j] = Prog[j]
    /\ pc[j] \in {"exec", "running", "compare", "next"} => bin[dir[j]] = Prog[j]
    /\ pc[j] = "compare" => /\ Fails[Prog[j]][test[j]] = "none"
                             /\ out[dir[j]] = Output[Prog[j]][test[j]]

\* What a job finds of its own program on every test point, by the comparison
\* that the code makes.
Seen(j) ==
    [n \in 1..NTests |->
        IF Fails[Prog[j]][n] # "none" THEN Fails[Prog[j]][n]
        ELSE IF ~Checked(j, n) THEN "NONE"
        ELSE IF LooseCompare(Expected[n], Output[Prog[j]][n]) THEN "AC" ELSE "WA"]

\* The verdict v after the first n test points of vs, when the job goes on.
SoFar(j, vs, n, v) ==
    IF j \in Judges
    THEN v = "AC" /\ \A i \in 1..n : vs[i] = "AC"
    ELSE /\ \A i \in 1..n : Rank(vs[i]) <= Rank(v)
         /\ (n = 0 /\ v = "NONE") \/ \E i \in 1..n : vs[i] = v

\* How far the job is, and its verdict so far.
Judged(j) ==
    /\ pc[j] \in {"idle", "source", "compile", "link", "linking"} => test[j] = 1
    /\ pc[j] \in {"idle", "source", "compile", "link", "linking", "exec", "running",
                  "compare"} => SoFar(j, Seen(j), test[j] - 1, worst[j])
    /\ pc[j] = "next" => SoFar(j, Seen(j), test[j], worst[j])
    /\ pc[j] \in {"end", "done"} => SumsUp(j, Seen(j), worst[j])

IInv == /\ Types
        /\ Located
        /\ Apart
        /\ \A j \in Jobs : Finds(j) /\ Judged(j)

\* The verdict, by the comparison the code makes.
VerdictByComparison ==
    \A j \in Jobs : pc[j] = "done" => SumsUp(j, Seen(j), worst[j])
-----------------------------------------------------------------------------
(* Types.                                                                  *)

Pcs == {"idle", "source", "compile", "link", "linking", "exec", "running", "compare",
        "next", "end", "done"}

LEMMA EmptyText == <<>> \in Texts
<1>1. 0 \in 0..MaxLength /\ 1..0 = {}
  BY TextsAssumption
<1>2. <<>> \in [1..0 -> Chars]
  BY <1>1
<1> QED
  BY <1>1, <1>2 DEF Texts

\* The counter never passes the number of custom runs.
LEMMA SeqBound ==
    /\ IsFiniteSet(Started) /\ Cardinality(Started) \in 0..Cardinality(Runs)
    /\ IsFiniteSet(Started') /\ Cardinality(Started') \in 0..Cardinality(Runs)
    /\ Cardinality(Runs) \in Nat
<1>1. IsFiniteSet(Runs) /\ Cardinality(Runs) \in Nat
  BY JobsAssumption, FS_CardinalityType
<1>2. ASSUME NEW S \in SUBSET Runs
      PROVE  IsFiniteSet(S) /\ Cardinality(S) \in 0..Cardinality(Runs)
  <2>1. IsFiniteSet(S) /\ Cardinality(S) <= Cardinality(Runs)
    BY <1>1, FS_Subset
  <2>2. Cardinality(S) \in Nat
    BY <2>1, FS_CardinalityType
  <2> QED
    BY <1>1, <2>1, <2>2
<1>3. Started \in SUBSET Runs /\ Started' \in SUBSET Runs
  BY DEF Started
<1> QED
  BY <1>1, <1>2, <1>3

\* A job's directory is one of the directories.
LEMMA DirsOfJobs ==
    ASSUME NEW j \in Jobs, seq \in 0..Cardinality(Runs)
    PROVE  WorkDir(j) \in Dirs
BY JobsAssumption DEF WorkDir, Dirs, Jobs

\* A step of a job that has started keeps the count of the started ones.
LEMMA SeqStays ==
    ASSUME Types, NEW j \in Jobs, pc[j] # "idle", NEW p, p # "idle",
           pc' = [pc EXCEPT ![j] = p], seq' = seq
    PROVE  seq' = Cardinality(Started') /\ seq' \in 0..Cardinality(Runs)
<1>1. pc \in [Jobs -> Pcs]
  BY DEF Types, TypeOK, Pcs
<1>2. \A r \in Jobs : pc'[r] # "idle" <=> pc[r] # "idle"
  BY <1>1
<1>3. Started' = Started
  BY <1>2 DEF Started, Jobs
<1> QED
  BY <1>3 DEF Types, TypeOK

LEMMA OpenSourceTypes ==
    ASSUME Types, NEW j \in Jobs, OpenSource(j)
    PROVE  Types'
<1>1. pc[j] = "idle" /\ pc' = [pc EXCEPT ![j] = "source"] /\ WorkDir(j) \in Dirs
  BY DirsOfJobs DEF Types, TypeOK, OpenSource, GoTo
<1>2. pc \in [Jobs -> Pcs] /\ dir \in [Jobs -> Dirs \cup {NoDir}]
  BY DEF Types, TypeOK, Pcs
<1>3. \A k \in Jobs : pc'[k] = IF k = j THEN "source" ELSE pc[k]
  BY <1>1, <1>2
<1>4. dir' = [dir EXCEPT ![j] = WorkDir(j)]
  BY DEF OpenSource
<1>5. seq' = Cardinality(Started')
  <2>1. CASE j \in Runs
    <3>1. Started' = Started \cup {j} /\ j \notin Started
      BY <1>1, <1>3, <2>1 DEF Started, Jobs
    <3>2. Cardinality(Started') = Cardinality(Started) + 1
      BY <3>1, SeqBound, FS_AddElement
    <3> QED
      BY <2>1, <3>2 DEF Types, OpenSource
  <2>2. CASE j \notin Runs
    <3>1. Started' = Started
      BY <1>3, <2>2 DEF Started, Jobs
    <3> QED
      BY <2>2, <3>1 DEF Types, OpenSource
  <2> QED
    BY <2>1, <2>2
<1>6. \A k \in Jobs : pc'[k] # "idle" => dir'[k] \in Dirs
  BY <1>1, <1>2, <1>3, <1>4 DEF Types
<1>7. UNCHANGED <<bin, out, test, held, worst>>
  BY DEF OpenSource
<1>8. src' \in [Dirs -> {"none"} \cup Programs]
  BY <1>1 DEF Types, TypeOK, OpenSource
<1>9. TypeOK'
  BY <1>1, <1>2, <1>4, <1>5, <1>7, <1>8, SeqBound DEF Types, TypeOK
<1> QED
  BY <1>3, <1>5, <1>6, <1>7, <1>9 DEF Types

LEMMA StepTypes ==
    ASSUME Types, NEW j \in Jobs, Step(j)
    PROVE  Types'
<1>0. /\ pc \in [Jobs -> Pcs] /\ dir \in [Jobs -> Dirs \cup {NoDir}]
      /\ src \in [Dirs -> {"none"} \cup Programs]
      /\ bin \in [Dirs -> {"none"} \cup Programs]
      /\ out \in [Dirs -> Texts]
      /\ test \in [Jobs -> 1..NTests]
      /\ held \in [Jobs -> {"none"} \cup Programs]
      /\ worst \in [Jobs -> Verdicts]
      /\ pc[j] # "idle" => dir[j] \in Dirs
      /\ Prog[j] \in Programs
      /\ NTests \in Nat
  BY JobsAssumption DEF Types, TypeOK, Pcs
\* What every step of a started job has in common.
<1>1. ASSUME NEW p \in Pcs \ {"idle"}, pc[j] # "idle", GoTo(j, p), UNCHANGED <<seq, dir>>,
             src' \in [Dirs -> {"none"} \cup Programs],
             bin' \in [Dirs -> {"none"} \cup Programs],
             out' \in [Dirs -> Texts],
             test' \in [Jobs -> 1..NTests],
             held' \in [Jobs -> {"none"} \cup Programs],
             worst' \in [Jobs -> Verdicts],
             \A k \in Jobs \ {j} : test'[k] = test[k] /\ held'[k] = held[k],
             p = "running" => held'[j] \in Programs,
             p = "next" => test'[j] < NTests
      PROVE  Types'
  <2>1. \A k \in Jobs : pc'[k] = IF k = j THEN p ELSE pc[k]
    BY <1>0, <1>1 DEF GoTo
  <2>2. seq' = Cardinality(Started') /\ seq' \in 0..Cardinality(Runs)
    BY <1>1, SeqStays DEF GoTo
  <2>3. pc' \in [Jobs -> Pcs]
    BY <1>0, <1>1 DEF GoTo
  <2>4. TypeOK'
    BY <1>0, <1>1, <2>2, <2>3 DEF TypeOK, Pcs
  <2> QED
    BY <1>1, <2>1, <2>2, <2>4 DEF Types
<1>2. CASE CloseSource(j)
  <2>1. src' \in [Dirs -> {"none"} \cup Programs]
    BY <1>0, <1>2 DEF CloseSource
  <2> QED
    BY <1>0, <1>1, <1>2, <2>1 DEF CloseSource, Pcs
<1>3. CASE ReadSource(j)
  <2>1. CASE src[dir[j]] \notin Programs
    BY <1>0, <1>1, <1>3, <2>1 DEF ReadSource, Pcs, Verdicts, files
  <2>2. CASE src[dir[j]] \in Programs
    BY <1>0, <1>1, <1>3, <2>2 DEF ReadSource, Pcs, files
  <2> QED
    BY <2>1, <2>2
<1>4. CASE RemoveBinary(j)
  BY <1>0, <1>1, <1>4 DEF RemoveBinary, Pcs
<1>5. CASE WriteBinary(j)
  BY <1>0, <1>1, <1>5 DEF WriteBinary, Pcs
<1>5a. ASSUME NEW v \in Verdicts, pc[j] # "idle", Settle(j, v), UNCHANGED <<seq, dir, test>>,
              src' \in [Dirs -> {"none"} \cup Programs],
              bin' \in [Dirs -> {"none"} \cup Programs],
              out' \in [Dirs -> Texts],
              held' \in [Jobs -> {"none"} \cup Programs],
              \A k \in Jobs \ {j} : held'[k] = held[k]
       PROVE  Types'
  <2>1. WorseOf(worst[j], v) \in Verdicts
    BY <1>0, <1>5a DEF WorseOf
  <2>2. worst' \in [Jobs -> Verdicts]
    BY <1>0, <1>5a, <2>1 DEF Settle
  <2>3. CASE GoTo(j, "end")
    BY <1>0, <1>1, <1>5a, <2>2, <2>3 DEF Pcs
  <2>4. CASE GoTo(j, "next") /\ test[j] # NTests
    <3>1. test[j] < NTests
      BY <1>0, <2>4
    <3> QED
      BY <1>0, <1>1, <1>5a, <2>2, <2>4, <3>1 DEF Pcs
  <2> QED
    BY <1>5a, <2>3, <2>4 DEF Settle
<1>6. CASE Exec(j)
  <2>1. /\ dir[j] \in Dirs /\ bin[dir[j]] \in {"none"} \cup Programs
        /\ held' \in [Jobs -> {"none"} \cup Programs] /\ held'[j] = bin[dir[j]]
        /\ \A k \in Jobs \ {j} : held'[k] = held[k]
        /\ out' \in [Dirs -> Texts]
    BY <1>0, <1>6, EmptyText DEF Exec
  <2>2. CASE bin[dir[j]] = "none"
    <3>1. Settle(j, "RE") /\ "RE" \in Verdicts
      BY <1>6, <2>2 DEF Exec, Verdicts
    <3> QED
      BY <1>0, <1>5a, <1>6, <2>1, <3>1 DEF Exec
  <2>3. CASE bin[dir[j]] # "none"
    BY <1>0, <1>1, <1>6, <2>1, <2>3 DEF Exec, Pcs
  <2> QED
    BY <2>2, <2>3
<1>7. CASE ChildWrites(j)
  <2>1. Output[held[j]][test[j]] \in Texts
    BY <1>0, <1>7, JobsAssumption DEF Types, ChildWrites
  <2>2. out' \in [Dirs -> Texts]
    BY <1>0, <1>7, <2>1 DEF ChildWrites
  <2> QED
    BY <1>0, <1>1, <1>7, <2>2 DEF ChildWrites, Pcs
<1>7a. CASE ChildFails(j)
  <2>1. Fails[held[j]][test[j]] \in Verdicts
    BY <1>0, <1>7a, JobsAssumption DEF Types, ChildFails, Verdicts
  <2> QED
    BY <1>0, <1>5a, <1>7a, <2>1 DEF ChildFails, files
<1>8. CASE Compare(j)
  <2>1. PICK v \in Verdicts : Settle(j, v)
    BY <1>8 DEF Compare, Verdicts
  <2> QED
    BY <1>0, <1>5a, <1>8, <2>1 DEF Compare, files
<1>9. CASE NextTest(j)
  <2>1. test[j] < NTests
    BY <1>9 DEF Types, NextTest
  <2>2. test' \in [Jobs -> 1..NTests]
    BY <1>0, <1>9, <2>1 DEF NextTest
  <2> QED
    BY <1>0, <1>1, <1>9, <2>2 DEF NextTest, Pcs, files
<1>10. CASE Finish(j)
  <2>1. /\ src' \in [Dirs -> {"none"} \cup Programs]
        /\ bin' \in [Dirs -> {"none"} \cup Programs]
        /\ out' \in [Dirs -> Texts]
    BY <1>0, <1>10, EmptyText DEF Finish, files
  <2> QED
    BY <1>0, <1>1, <1>10, <2>1 DEF Finish, Pcs
<1> QED
  BY <1>2, <1>3, <1>4, <1>5, <1>6, <1>7, <1>7a, <1>8, <1>9, <1>10, OpenSourceTypes DEF Step

LEMMA NextTypes == Types /\ [Next]_vars => Types'
<1> SUFFICES ASSUME Types, [Next]_vars PROVE Types'
  OBVIOUS
<1>1. CASE UNCHANGED vars
  BY <1>1 DEF vars, files, Types, TypeOK, Started
<1> QED
  BY <1>1, StepTypes DEF Next

LEMMA InitTypes == Init => Types
<1> SUFFICES ASSUME Init PROVE Types
  OBVIOUS
<1>1. Started = {}
  BY DEF Init, Started, Jobs
<1>2. seq = Cardinality(Started) /\ seq \in 0..Cardinality(Runs)
  BY <1>1, SeqBound, FS_EmptySet DEF Init
<1>3. TypeOK
  BY <1>2, JobsAssumption, EmptyText DEF Init, TypeOK, Verdicts
<1> QED
  BY <1>2, <1>3 DEF Types, Init

\* Files, directories and jobs keep their types however judgings overlap; the
\* sequence number of custom runs never passes their number (judge_one,
\* worker.cpp; run_custom_cases, run.cpp).
THEOREM WorkspaceTypes == Spec => []TypeOK
<1>1. Types => TypeOK
  BY DEF Types
<1> QED
  BY <1>1, InitTypes, NextTypes, PTL DEF Spec
-----------------------------------------------------------------------------
(* Verdicts.                                                               *)

\* Ranks tell the verdicts of test points apart.
LEMMA RankTellsApart ==
    /\ \A v \in {"NONE", "AC", "WA", "RE", "MLE", "TLE"} : Rank(v) \in Nat
    /\ \A v \in {"AC", "WA", "RE", "MLE", "TLE"} : Rank(v) > Rank("NONE")
    /\ \A v \in {"WA", "RE", "MLE", "TLE"} : Rank(v) > Rank("AC")
BY DEF Rank

\* What a test point can give.
LEMMA SeenVerdicts ==
    ASSUME NEW j \in Jobs, NEW n \in 1..NTests
    PROVE  /\ Seen(j)[n] \in {"NONE", "AC", "WA", "RE", "MLE", "TLE"}
           /\ j \in Judges => Seen(j)[n] # "NONE"
           /\ Fails[Prog[j]][n] # "none" => Seen(j)[n] = Fails[Prog[j]][n]
           /\ Fails[Prog[j]][n] = "none" =>
                Seen(j)[n] = IF ~Checked(j, n) THEN "NONE"
                             ELSE IF LooseCompare(Expected[n], Output[Prog[j]][n])
                                  THEN "AC" ELSE "WA"
<1>1. Prog[j] \in Programs
  BY JobsAssumption
<1>2. Fails[Prog[j]][n] \in {"none", "RE", "MLE", "TLE"}
  BY <1>1, JobsAssumption
<1> QED
  BY <1>2 DEF Seen, Checked

\* One more test point of vs, with verdict v: the job goes on or is done.
LEMMA OneMore ==
    ASSUME NEW j \in Jobs, NEW n \in 1..NTests, NTests \in Nat \ {0},
           NEW vs, \A i \in 1..NTests : vs[i] \in {"NONE", "AC", "WA", "RE", "MLE", "TLE"},
           j \in Judges => vs[n] # "NONE",
           NEW w \in Verdicts \ {"COMPILE_ERROR"}, SoFar(j, vs, n - 1, w),
           NEW x, x = WorseOf(w, vs[n])
    PROVE  /\ j \notin Judges \/ vs[n] = "AC" => SoFar(j, vs, n, x)
           /\ n = NTests \/ (j \in Judges /\ vs[n] # "AC") => SumsUp(j, vs, x)
<1>1. 1..n = (1..(n - 1)) \cup {n} /\ 1..n \subseteq 1..NTests
  OBVIOUS
<1>2. CASE j \in Judges
  <2>1. w = "AC" /\ \A i \in 1..(n - 1) : vs[i] = "AC"
    BY <1>2 DEF SoFar
  <2>2. x = vs[n]
    BY <1>2, <2>1, RankTellsApart DEF WorseOf
  <2>3. CASE vs[n] = "AC"
    <3>1. \A i \in 1..n : vs[i] = "AC"
      BY <1>1, <2>1, <2>3
    <3> QED
      BY <1>2, <2>2, <2>3, <3>1 DEF SoFar, SumsUp
  <2>4. CASE vs[n] # "AC"
    BY <1>2, <2>1, <2>2, <2>4 DEF SumsUp
  <2> QED
    BY <2>3, <2>4
<1>3. CASE j \notin Judges
  <2>0. /\ \A i \in 1..NTests : Rank(vs[i]) \in Nat
        /\ Rank(w) \in Nat
        /\ \A i \in 1..NTests : Rank(vs[i]) >= Rank("NONE")
        /\ vs[n] # "NONE" => Rank(vs[n]) > Rank("NONE")
        /\ Rank("NONE") \in Nat
    BY RankTellsApart DEF Verdicts
  <2>1. /\ \A i \in 1..(n - 1) : Rank(vs[i]) <= Rank(w)
        /\ (n - 1 = 0 /\ w = "NONE") \/ \E i \in 1..(n - 1) : vs[i] = w
    BY <1>3 DEF SoFar
  <2>2. \A i \in 1..n : Rank(vs[i]) <= Rank(x)
    BY <1>1, <2>0, <2>1 DEF WorseOf
  <2>3. \E i \in 1..n : vs[i] = x
    <3>1. CASE Rank(vs[n]) > Rank(w)
      BY <3>1 DEF WorseOf
    <3>2. CASE ~(Rank(vs[n]) > Rank(w))
      <4>1. x = w
        BY <3>2 DEF WorseOf
      <4>2. CASE n - 1 = 0 /\ w = "NONE"
        <5>1. vs[n] = "NONE"
          BY <2>0, <3>2, <4>2
        <5> QED
          BY <4>1, <4>2, <5>1
      <4>3. CASE \E i \in 1..(n - 1) : vs[i] = w
        BY <1>1, <4>1, <4>3
      <4> QED
        BY <2>1, <4>2, <4>3
    <3> QED
      BY <3>1, <3>2
  <2>4. SoFar(j, vs, n, x)
    BY <1>3, <2>2, <2>3 DEF SoFar
  <2>5. n = NTests => SumsUp(j, vs, x)
    BY <1>3, <2>2, <2>3 DEF SumsUp
  <2> QED
    BY <1>3, <2>4, <2>5
<1> QED
  BY <1>2, <1>3
-----------------------------------------------------------------------------
(* A step of one job leaves what the others find alone.                    *)

\* What a step of j may change.
OnlyOf(j) ==
    /\ \A k \in Jobs \ {j} : /\ pc'[k] = pc[k] /\ dir'[k] = dir[k] /\ test'[k] = test[k]
                             /\ held'[k] = held[k] /\ worst'[k] = worst[k]
    /\ \A d \in Dirs \ {dir'[j]} :
            src'[d] = src[d] /\ bin'[d] = bin[d] /\ out'[d] = out[d]

LEMMA OthersFind ==
    ASSUME IInv, NEW j \in Jobs, OnlyOf(j), NEW k \in Jobs \ {j},
           InFlight(k) => dir[k] # dir'[j]
    PROVE  (Finds(k) /\ Judged(k))'
<1>1. Finds(k) /\ Judged(k)
  BY DEF IInv
<1>2. /\ pc'[k] = pc[k] /\ dir'[k] = dir[k] /\ test'[k] = test[k]
      /\ held'[k] = held[k] /\ worst'[k] = worst[k]
  BY DEF OnlyOf
<1>3. Judged(k)'
  BY <1>1, <1>2 DEF Judged, Seen, SoFar, SumsUp
<1>4. Finds(k)'
  <2>1. CASE InFlight(k)
    <3>1. dir[k] \in Dirs \ {dir'[j]}
      BY <2>1 DEF IInv, Types, InFlight
    <3>2. /\ src'[dir[k]] = src[dir[k]] /\ bin'[dir[k]] = bin[dir[k]]
          /\ out'[dir[k]] = out[dir[k]]
      BY <3>1 DEF OnlyOf
    <3> QED
      BY <1>1, <1>2, <3>2 DEF Finds
  <2>2. CASE ~InFlight(k)
    BY <1>2, <2>2 DEF Finds, InFlight
  <2> QED
    BY <2>1, <2>2
<1> QED
  BY <1>3, <1>4

\* A step of a job in its own directory keeps the invariant when the job finds
\* what it should afterwards.
LEMMA OneJob ==
    ASSUME IInv, Types', NEW j \in Jobs, InFlight(j), pc'[j] # "idle", dir' = dir,
           seq' = seq, OnlyOf(j), (Finds(j) /\ Judged(j))'
    PROVE  IInv'
<1>1. \A k \in Jobs : (pc'[k] # "idle" <=> pc[k] # "idle") /\ (InFlight(k)' => InFlight(k))
  BY DEF OnlyOf, InFlight
<1>2. Located' /\ Apart'
  BY <1>1 DEF IInv, Located, Apart
<1>3. \A k \in Jobs \ {j} : (Finds(k) /\ Judged(k))'
  BY OthersFind DEF IInv, Apart
<1> QED
  BY <1>2, <1>3 DEF IInv

\* The directory a job picks belongs to no other job in flight.
LEMMA FreshDir ==
    ASSUME IInv, ~Overlap, NEW j \in Jobs, OpenSource(j), NEW k \in Jobs \ {j},
           InFlight(k)
    PROVE  dir[k] # WorkDir(j)
<1>1. pc[k] # "idle"
  BY DEF InFlight
<1>2. CASE k \in Judges
  BY <1>2 DEF OpenSource
<1>3. CASE k \notin Judges
  <2>1. PICK n \in 0..Cardinality(Runs) : n < seq /\ dir[k] = <<"run", n>>
    BY <1>1, <1>3 DEF IInv, Located
  <2>2. seq \in Nat
    BY SeqBound DEF IInv, Types
  <2> QED
    BY <2>1, <2>2 DEF WorkDir
<1> QED
  BY <1>2, <1>3

LEMMA OpenSourceKeeps ==
    ASSUME IInv, Types', ~Overlap, NEW j \in Jobs, OpenSource(j)
    PROVE  IInv'
<1>0. /\ pc \in [Jobs -> Pcs] /\ dir \in [Jobs -> Dirs \cup {NoDir}]
      /\ src \in [Dirs -> {"none"} \cup Programs]
      /\ seq \in Nat
  BY SeqBound DEF IInv, Types, TypeOK, Pcs
<1>1. /\ pc[j] = "idle" /\ pc'[j] = "source" /\ dir'[j] = WorkDir(j)
      /\ \A k \in Jobs \ {j} : pc'[k] = pc[k] /\ dir'[k] = dir[k]
      /\ seq' = IF j \in Runs THEN seq + 1 ELSE seq
      /\ UNCHANGED <<bin, out, test, held, worst>>
  BY <1>0 DEF OpenSource, GoTo
<1>2. OnlyOf(j)
  BY <1>0, <1>1 DEF OnlyOf, OpenSource
<1>3. \A k \in Jobs \ {j} : InFlight(k) => dir[k] # dir'[j]
  BY <1>1, FreshDir
<1>4. \A k \in Jobs \ {j} : (Finds(k) /\ Judged(k))'
  BY <1>2, <1>3, OthersFind
<1>5. (Finds(j) /\ Judged(j))'
  BY <1>1 DEF IInv, Finds, Judged, Seen, SoFar, SumsUp
<1>6. Apart'
  <2> SUFFICES ASSUME NEW k \in Jobs, NEW l \in Jobs, k # l, InFlight(k)', InFlight(l)'
               PROVE  dir'[k] # dir'[l]
    BY DEF Apart
  <2>1. CASE k # j /\ l # j
    BY <1>1, <2>1 DEF IInv, Apart, InFlight
  <2>2. CASE k = j
    BY <1>1, <1>3, <2>2 DEF InFlight
  <2>3. CASE l = j
    BY <1>1, <1>3, <2>3 DEF InFlight
  <2> QED
    BY <2>1, <2>2, <2>3
<1>7. Located'
  <2> SUFFICES ASSUME NEW k \in Jobs, pc'[k] # "idle"
               PROVE  IF k \in Judges
                      THEN dir'[k] = <<"sub", Prog[k]>>
                      ELSE \E n \in 0..Cardinality(Runs) : n < seq' /\ dir'[k] = <<"run", n>>
    BY DEF Located
  <2>1. CASE k # j
    <3>1. pc[k] # "idle" /\ dir'[k] = dir[k] /\ seq' >= seq /\ seq' \in Nat
      BY <1>0, <1>1, <2>1
    <3> QED
      BY <1>0, <3>1 DEF IInv, Located
  <2>2. CASE k = j
    <3>1. seq \in 0..Cardinality(Runs)
      BY DEF IInv, Types, TypeOK
    <3>2. j \in Judges \/ (j \in Runs /\ j \notin Judges)
      BY JobsAssumption DEF Jobs
    <3> QED
      BY <1>0, <1>1, <2>2, <3>1, <3>2 DEF WorkDir
  <2> QED
    BY <2>1, <2>2
<1> QED
  BY <1>4, <1>5, <1>6, <1>7 DEF IInv
-----------------------------------------------------------------------------
(* Each step keeps the invariant.                                          *)

\* What is known of a job in flight.
LEMMA AtWork ==
    ASSUME IInv, NEW j \in Jobs
    PROVE  /\ pc \in [Jobs -> Pcs] /\ dir \in [Jobs -> Dirs \cup {NoDir}]
           /\ src \in [Dirs -> {"none"} \cup Programs]
           /\ bin \in [Dirs -> {"none"} \cup Programs]
           /\ out \in [Dirs -> Texts]
           /\ test \in [Jobs -> 1..NTests] /\ NTests \in Nat \ {0}
           /\ held \in [Jobs -> {"none"} \cup Programs]
           /\ worst \in [Jobs -> Verdicts]
           /\ pc[j] # "idle" => dir[j] \in Dirs
           /\ Prog[j] \in Programs /\ Prog[j] # "none"
           /\ Fails[Prog[j]][test[j]] \in {"none", "RE", "MLE", "TLE"}
           /\ Finds(j) /\ Judged(j)
<1>1. Prog[j] \in Programs /\ test[j] \in 1..NTests
  BY JobsAssumption DEF IInv, Types, TypeOK
<1>2. Fails[Prog[j]][test[j]] \in {"none", "RE", "MLE", "TLE"}
  BY <1>1, JobsAssumption
<1> QED
  BY <1>1, <1>2, JobsAssumption DEF IInv, Types, TypeOK, Pcs

\* The next test point of a job's own program is settled.
LEMMA SettleKeeps ==
    ASSUME IInv, Types', NEW j \in Jobs, pc[j] \in {"running", "compare"},
           Settle(j, Seen(j)[test[j]]), UNCHANGED <<files, seq, dir, test, held>>
    PROVE  IInv'
<1>0. PICK n \in 1..NTests : n = test[j]
  BY AtWork
<1>1. PICK v : v = Seen(j)[n]
  OBVIOUS
<1>2. /\ bin[dir[j]] = Prog[j] /\ SoFar(j, Seen(j), n - 1, worst[j])
      /\ NTests \in Nat \ {0}
  BY <1>0, AtWork DEF Finds, Judged
<1>3. worst'[j] = WorseOf(worst[j], v) /\ \A k \in Jobs \ {j} : worst'[k] = worst[k]
  BY <1>0, <1>1, AtWork DEF Settle
<1>4. worst[j] \in Verdicts \ {"COMPILE_ERROR"}
  <2>1. CASE j \in Judges
    BY <1>2, <2>1 DEF SoFar, Verdicts
  <2>2. CASE j \notin Judges
    <3>1. \A i \in 1..(n - 1) : Seen(j)[i] \in {"NONE", "AC", "WA", "RE", "MLE", "TLE"}
      BY <1>0, <1>2, SeenVerdicts
    <3> QED
      BY <1>2, <2>2, <3>1 DEF SoFar, Verdicts
  <2> QED
    BY <2>1, <2>2
<1>5. /\ j \notin Judges \/ v = "AC" => SoFar(j, Seen(j), n, worst'[j])
      /\ n = NTests \/ (j \in Judges /\ v # "AC") => SumsUp(j, Seen(j), worst'[j])
  <2>1. PICK vs : vs = Seen(j)
    OBVIOUS
  <2>2. /\ \A i \in 1..NTests : vs[i] \in {"NONE", "AC", "WA", "RE", "MLE", "TLE"}
        /\ j \in Judges => vs[n] # "NONE"
    BY <2>1, SeenVerdicts
  <2>3. PICK w \in Verdicts \ {"COMPILE_ERROR"} : w = worst[j]
    BY <1>4
  <2>4. PICK x : x = worst'[j]
    OBVIOUS
  <2>5. SoFar(j, vs, n - 1, w) /\ x = WorseOf(w, vs[n]) /\ v = vs[n]
    BY <1>1, <1>2, <1>3, <2>1, <2>3, <2>4
  <2>6. /\ j \notin Judges \/ vs[n] = "AC" => SoFar(j, vs, n, x)
        /\ n = NTests \/ (j \in Judges /\ vs[n] # "AC") => SumsUp(j, vs, x)
    BY <1>2, <2>2, <2>5, OneMore
  <2> QED
    BY <2>1, <2>4, <2>5, <2>6
<1>6. IF n = NTests \/ (j \in Judges /\ v # "AC")
      THEN pc' = [pc EXCEPT ![j] = "end"] ELSE pc' = [pc EXCEPT ![j] = "next"]
  BY <1>0, <1>1 DEF Settle, GoTo
<1>7. OnlyOf(j) /\ InFlight(j)
  BY <1>3, <1>6, AtWork DEF OnlyOf, InFlight, files
<1>8. \/ pc'[j] = "end" /\ SumsUp(j, Seen(j), worst'[j])
      \/ pc'[j] = "next" /\ SoFar(j, Seen(j), n, worst'[j])
  BY <1>5, <1>6, AtWork
<1>9. (Finds(j) /\ Judged(j))'
  BY <1>0, <1>2, <1>8 DEF Finds, Judged, Seen, SoFar, SumsUp, files
<1>10. pc'[j] # "idle"
  BY <1>8
<1> QED
  BY <1>7, <1>9, <1>10, OneJob

LEMMA BuildKeeps ==
    ASSUME IInv, Types', NEW j \in Jobs,
           CloseSource(j) \/ ReadSource(j) \/ RemoveBinary(j) \/ WriteBinary(j)
    PROVE  IInv'
<1>1. CASE CloseSource(j)
  <2>1. /\ pc[j] = "source" /\ pc'[j] = "compile" /\ dir' = dir /\ seq' = seq
        /\ src'[dir[j]] = Prog[j]
        /\ UNCHANGED <<test, worst>>
    BY <1>1, AtWork DEF CloseSource, GoTo
  <2>2. OnlyOf(j) /\ InFlight(j)
    BY <1>1, <2>1, AtWork DEF OnlyOf, CloseSource, GoTo, InFlight
  <2>3. (Finds(j) /\ Judged(j))'
    BY <2>1, AtWork DEF Finds, Judged
  <2> QED
    BY <2>1, <2>2, <2>3, OneJob
<1>2. CASE ReadSource(j)
  <2>1. /\ pc[j] = "compile" /\ pc'[j] = "link" /\ dir' = dir /\ seq' = seq
        /\ held'[j] = Prog[j]
        /\ UNCHANGED <<files, test, worst>>
    BY <1>2, AtWork DEF ReadSource, GoTo, Finds
  <2>2. OnlyOf(j) /\ InFlight(j)
    BY <1>2, <2>1, AtWork DEF OnlyOf, ReadSource, GoTo, InFlight, files, Finds
  <2>3. (Finds(j) /\ Judged(j))'
    BY <2>1, AtWork DEF Finds, Judged
  <2> QED
    BY <2>1, <2>2, <2>3, OneJob
<1>3. CASE RemoveBinary(j)
  <2>1. /\ pc[j] = "link" /\ pc'[j] = "linking" /\ dir' = dir /\ seq' = seq
        /\ UNCHANGED <<held, test, worst>>
    BY <1>3, AtWork DEF RemoveBinary, GoTo
  <2>2. OnlyOf(j) /\ InFlight(j)
    BY <1>3, <2>1, AtWork DEF OnlyOf, RemoveBinary, GoTo, InFlight
  <2>3. (Finds(j) /\ Judged(j))'
    BY <2>1, AtWork DEF Finds, Judged
  <2> QED
    BY <2>1, <2>2, <2>3, OneJob
<1>4. CASE WriteBinary(j)
  <2>1. /\ pc[j] = "linking" /\ pc'[j] = "exec" /\ dir' = dir /\ seq' = seq
        /\ bin'[dir[j]] = Prog[j]
        /\ UNCHANGED <<test, worst>>
    BY <1>4, AtWork DEF WriteBinary, GoTo, Finds
  <2>2. OnlyOf(j) /\ InFlight(j)
    BY <1>4, <2>1, AtWork DEF OnlyOf, WriteBinary, GoTo, InFlight
  <2>3. (Finds(j) /\ Judged(j))'
    BY <2>1, AtWork DEF Finds, Judged
  <2> QED
    BY <2>1, <2>2, <2>3, OneJob
<1> QED
  BY <1>1, <1>2, <1>3, <1>4

LEMMA ExecKeeps ==
    ASSUME IInv, Types', NEW j \in Jobs, Exec(j)
    PROVE  IInv'
<1>1. /\ pc[j] = "exec" /\ bin[dir[j]] = Prog[j] /\ bin[dir[j]] # "none"
  BY AtWork DEF Exec, Finds
<1>2. /\ pc'[j] = "running" /\ dir' = dir /\ seq' = seq
      /\ held'[j] = Prog[j]
      /\ UNCHANGED <<bin, test, worst>>
  BY <1>1, AtWork DEF Exec, GoTo
<1>3. OnlyOf(j) /\ InFlight(j)
  BY <1>1, <1>2, AtWork DEF OnlyOf, Exec, GoTo, InFlight
<1>4. (Finds(j) /\ Judged(j))'
  BY <1>1, <1>2, AtWork DEF Finds, Judged
<1> QED
  BY <1>2, <1>3, <1>4, OneJob

LEMMA ChildWritesKeeps ==
    ASSUME IInv, Types', NEW j \in Jobs, ChildWrites(j)
    PROVE  IInv'
<1>1. /\ pc[j] = "running" /\ held[j] = Prog[j] /\ bin[dir[j]] = Prog[j]
      /\ Fails[Prog[j]][test[j]] = "none"
  BY AtWork DEF ChildWrites, Finds
<1>2. /\ pc'[j] = "compare" /\ dir' = dir /\ seq' = seq
      /\ out'[dir[j]] = Output[Prog[j]][test[j]]
      /\ UNCHANGED <<bin, test, worst>>
  BY <1>1, AtWork DEF ChildWrites, GoTo
<1>3. OnlyOf(j) /\ InFlight(j)
  BY <1>1, <1>2, AtWork DEF OnlyOf, ChildWrites, GoTo, InFlight
<1>4. (Finds(j) /\ Judged(j))'
  BY <1>1, <1>2, AtWork DEF Finds, Judged
<1> QED
  BY <1>2, <1>3, <1>4, OneJob

LEMMA ChildFailsKeeps ==
    ASSUME IInv, Types', NEW j \in Jobs, ChildFails(j)
    PROVE  IInv'
<1>1. pc[j] = "running" /\ held[j] = Prog[j] /\ test[j] \in 1..NTests
  BY AtWork DEF ChildFails, Finds
<1>2. Seen(j)[test[j]] = Fails[held[j]][test[j]]
  BY <1>1, SeenVerdicts DEF ChildFails
<1> QED
  BY <1>1, <1>2, SettleKeeps DEF ChildFails

\* The parent compares the output of the job's own program.
LEMMA CompareKeeps ==
    ASSUME IInv, Types', NEW j \in Jobs, Compare(j)
    PROVE  IInv'
<1>1. PICK n \in 1..NTests : n = test[j]
  BY AtWork
<1>2. /\ pc[j] = "compare" /\ out[dir[j]] = Output[Prog[j]][n]
      /\ Fails[Prog[j]][n] = "none"
  BY <1>1, AtWork DEF Compare, Finds
<1>3. Seen(j)[n] = IF ~Checked(j, n) THEN "NONE"
                   ELSE IF LooseCompare(Expected[n], out[dir[j]]) THEN "AC" ELSE "WA"
  BY <1>2, SeenVerdicts
<1>4. Settle(j, Seen(j)[test[j]])
  BY <1>1, <1>3 DEF Compare
<1> QED
  BY <1>2, <1>4, SettleKeeps DEF Compare

LEMMA NextTestKeeps ==
    ASSUME IInv, Types', NEW j \in Jobs, NextTest(j)
    PROVE  IInv'
<1>1. /\ pc[j] = "next" /\ bin[dir[j]] = Prog[j]
      /\ SoFar(j, Seen(j), test[j], worst[j])
      /\ test[j] \in Nat
  BY AtWork DEF NextTest, Finds, Judged
<1>2. /\ pc'[j] = "exec" /\ dir' = dir /\ seq' = seq
      /\ test'[j] = test[j] + 1
      /\ UNCHANGED <<bin, worst>>
  BY <1>1, AtWork DEF NextTest, GoTo, files
<1>3. OnlyOf(j) /\ InFlight(j)
  BY <1>1, <1>2, AtWork DEF OnlyOf, NextTest, GoTo, InFlight, files
<1>4. test'[j] - 1 = test[j]
  BY <1>1, <1>2
<1>5. SoFar(j, Seen(j), test'[j] - 1, worst'[j])
  BY <1>1, <1>2, <1>4
<1>6. (Finds(j) /\ Judged(j))'
  BY <1>1, <1>2, <1>5 DEF Finds, Judged, Seen, SoFar, SumsUp
<1> QED
  BY <1>2, <1>3, <1>6, OneJob

LEMMA FinishKeeps ==
    ASSUME IInv, Types', NEW j \in Jobs, Finish(j)
    PROVE  IInv'
<1>1. pc[j] = "end" /\ SumsUp(j, Seen(j), worst[j])
  BY AtWork DEF Finish, Judged
<1>2. pc'[j] = "done" /\ dir' = dir /\ seq' = seq /\ UNCHANGED <<test, worst>>
  BY <1>1, AtWork DEF Finish, GoTo
<1>3. OnlyOf(j) /\ InFlight(j)
  BY <1>1, <1>2, AtWork DEF OnlyOf, Finish, GoTo, InFlight, files
<1>4. (Finds(j) /\ Judged(j))'
  BY <1>1, <1>2 DEF Finds, Judged, Seen, SoFar, SumsUp
<1> QED
  BY <1>2, <1>3, <1>4, OneJob

LEMMA NextKeeps == ~Overlap /\ IInv /\ [Next]_vars => IInv'
<1> SUFFICES ASSUME ~Overlap, IInv, [Next]_vars PROVE IInv'
  OBVIOUS
<1>0. Types'
  BY NextTypes DEF IInv
<1>1. CASE UNCHANGED vars
  <2>1. \A j \in Jobs : (Finds(j) /\ Judged(j))'
    BY <1>1 DEF IInv, vars, files, Finds, Judged, Seen, SoFar, SumsUp
  <2>2. Located' /\ Apart'
    BY <1>1 DEF IInv, vars, Located, Apart, InFlight
  <2> QED
    BY <1>0, <2>1, <2>2 DEF IInv
<1>2. ASSUME NEW j \in Jobs, Step(j) PROVE IInv'
  BY <1>0, <1>2, OpenSourceKeeps, BuildKeeps, ExecKeeps, ChildWritesKeeps, ChildFailsKeeps,
     CompareKeeps, NextTestKeeps, FinishKeeps DEF Step
<1> QED
  BY <1>1, <1>2 DEF Next

LEMMA InitKeeps == Init => IInv
<1> SUFFICES ASSUME Init PROVE IInv
  OBVIOUS
<1>1. \A j \in Jobs : /\ pc[j] = "idle" /\ test[j] = 1
                       /\ worst[j] = IF j \in Judges THEN "AC" ELSE "NONE"
  BY DEF Init
<1>2. \A j \in Jobs : Finds(j) /\ Judged(j)
  BY <1>1 DEF Finds, Judged, SoFar
<1>3. Located /\ Apart
  BY <1>1 DEF Located, Apart, InFlight
<1> QED
  BY <1>2, <1>3, InitTypes DEF IInv
-----------------------------------------------------------------------------
(* The theorems.                                                           *)

\* When no two judgings of one submission overlap, jobs never meet in a
\* directory and each finds there what it left (worker.cpp:219-331, run.cpp:64-225).
THEOREM WorkspaceInvariant == ASSUME ~Overlap PROVE Spec => []IInv
<1>1. Init => IInv
  BY InitKeeps
<1>2. IInv /\ [Next]_vars => IInv'
  BY NextKeeps
<1> QED
  BY <1>1, <1>2, PTL DEF Spec

\* A judging's verdict is its program's first failure and a custom run's the
\* worst of its program's cases, by the comparison of the code and whatever else
\* is judged or run meanwhile, when no two judgings of one submission overlap
\* (worker.cpp:219-331, run.cpp:64-225).
THEOREM VerdictsByComparison == ASSUME ~Overlap PROVE Spec => []VerdictByComparison
<1>1. IInv => VerdictByComparison
  BY DEF IInv, Judged, VerdictByComparison
<1> QED
  BY <1>1, WorkspaceInvariant, PTL

\* What the comparison sees is what the program deserves, if the comparison keeps
\* exactly the essence of a text.
LEMMA SeenIsDeserved ==
    ASSUME ComparesEssence, NEW j \in Jobs
    PROVE  Seen(j) = Deserved(j)
<1>0. Prog[j] \in Programs
  BY JobsAssumption
<1>1. ASSUME NEW n \in 1..NTests
      PROVE  LooseCompare(Expected[n], Output[Prog[j]][n])
                <=> Essence(Output[Prog[j]][n]) = Essence(Expected[n])
  <2>1. <<Expected[n], Output[Prog[j]][n]>> \in Texts \X Texts
    BY <1>0, <1>1, JobsAssumption
  <2>2. <<Expected[n], Output[Prog[j]][n]>> \notin Disagreements
    BY DEF ComparesEssence
  <2>3. ~(LooseCompare(Expected[n], Output[Prog[j]][n])
            # (Essence(Expected[n]) = Essence(Output[Prog[j]][n])))
    BY <2>1, <2>2 DEF Disagreements
  <2> QED
    BY <2>3 DEF LooseCompare
<1> QED
  BY <1>1 DEF Seen, Deserved

\* No cross-talk between judgings and custom runs: a finished job's verdict is
\* the one its own program deserves by what its outputs say (worker.cpp:219-331,
\* run.cpp:64-225, compare.cpp:12), when no two judgings of one submission overlap and
\* the comparison keeps the essence of texts, as the run checks of all texts of
\* up to four characters.
THEOREM VerdictsAreOwn == ASSUME ~Overlap, ComparesEssence PROVE Spec => []VerdictIsOwn
<1>1. VerdictByComparison => VerdictIsOwn
  BY SeenIsDeserved DEF VerdictByComparison, VerdictIsOwn
<1> QED
  BY <1>1, VerdictsByComparison, PTL
=============================================================================
