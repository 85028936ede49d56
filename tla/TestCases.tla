------------------------------ MODULE TestCases ------------------------------
(***************************************************************************)
(* Maintenance of one problem's hidden test cases and limits while others  *)
(* read them (admin/admin_problem.cpp, update_problem of problem.cpp, and  *)
(* the loop of judge_one over the same directory).  The directory holds    *)
(* <n>.in, <n>.out and a file named score with one line per case; nothing  *)
(* locks it, so each file operation is an action, and an edit is several.  *)
(*                                                                         *)
(* The contents of a file are the case they belong to: every addition and  *)
(* replacement brings cases of its own, so that a mixture of two shows.    *)
(* The requests modelled have passed check_problem_owner and found the     *)
(* row.                                                                    *)
(***************************************************************************)
EXTENDS SequencesExt

CONSTANTS
    Staff,      \* HTTP threads serving staff requests
    Cases,
    Times, Memories, \* values of the two limits
    MaxNum,     \* bound on the number of a case
    Gaps,       \* may the imported numbering have gaps?
    Overlap,    \* which edits of the directory overlap: "none", "additions", "any"
    MaxRequests, \* bound on requests
    MaxFaults,  \* bound on failing file operations
    MaxCrashes  \* bound on process crashes

ASSUME TestCasesAssumption ==
    /\ Cases \cap {"absent", "torn", "zero", "stray"} = {}
    /\ MaxNum \in Nat
    /\ Gaps \in BOOLEAN
    /\ Overlap \in {"none", "additions", "any"}
    /\ {MaxRequests, MaxFaults} \subseteq Nat
    /\ MaxCrashes \in Nat

VARIABLES
    input, answer,  \* number -> contents of <n>.in and <n>.out
    score,          \* whether the file is there, and its lines
    backup,         \* what is in <id>.bak
    limits,         \* the two columns of the row
    req,            \* thread -> the request it serves
    reader,         \* a judging or a listing in progress
    base,           \* history: the cases, in order, when an edit began
    promised,       \* history: complete cases the last edits must not touch
    aligned,        \* history: every edit by number has begun on a regular directory
    crossed,        \* history: two edits have overlapped
    slipped,        \* history: a removal, a rename or a listing has failed
    wanted,         \* history: the values last asked for
    reverted,       \* history: columns an overtaken request has put back since
    requests, faults, crashes

files == <<input, answer, score>>
began == <<base, promised, aligned, crossed>>
asked == <<wanted, reverted>>
history == <<began, slipped, asked>>
vars == <<files, backup, limits, req, reader, history, requests, faults, crashes>>

Nums == 1..MaxNum

\* "torn": opened, and so truncated, but not written.
Contents == Cases \cup {"absent", "torn"}

\* A line of the score file is the case whose points it holds, 0, or a line
\* of an imported file beyond its last case.
Lines == Cases \cup {"zero", "stray"}
NoScores == [file |-> FALSE, lines |-> <<>>]
Columns == {"time", "memory"}
Limits == [time : Times, memory : Memories]

ScoreFiles == [file : BOOLEAN, lines : Seq(Lines)]
Directories == [input : [Nums -> Contents], answer : [Nums -> Contents], score : ScoreFiles]
NoDirectory == [input |-> [n \in Nums |-> "absent"], answer |-> [n \in Nums |-> "absent"],
                score |-> NoScores]

\* What a limits request asks for: at least one of the two.
Asked == [time : Times] \cup [memory : Memories] \cup Limits

Idle == [pc |-> "idle"]
Requests ==
    {Idle}
    \cup [pc : {"openIn", "fillIn", "openOut", "fillOut", "addScore"},
          num : Nums, count : 0..MaxNum, case : Cases, pointed : BOOLEAN]
    \cup [pc : {"rmIn", "rmOut", "rescan", "renIn", "renOut", "cutScore"},
          num : Nums, todo : SUBSET Nums]
    \cup [pc : {"writeLimits"}, ask : Asked, read : Limits, raced : SUBSET Columns]
    \cup [pc : {"backup", "swap", "restore", "dropBak"}, tmp : Directories]

\* ran is the input the program has been run on; verdict "mixed" is a
\* comparison with another case's answer; shaky, that a deletion or a
\* replacement overlapped.
NoReader == [pc |-> "idle"]
Verdicts == {"none", "fair", "mixed", "torn", "missing"}
Readers ==
    {NoReader}
    \cup [pc : {"score", "look", "input", "answer", "done"}, kind : {"judge", "list"},
          nums : SUBSET Nums, todo : SUBSET Nums, lines : Seq(Lines), ran : Contents,
          verdict : Verdicts, shaky : BOOLEAN]
-----------------------------------------------------------------------------
(* The directory                                                           *)

\* scan_case_nums and scan_test_cases: the numbers of the .in files.
Scan == {n \in Nums : input[n] # "absent"}

Position(S, n) == Cardinality({m \in S : m <= n})

\* The numbers in ascending order are visited one by one.
Least(S) == CHOOSE n \in S : \A m \in S : n <= m

\* Mutant: the first free number, as if the numbering had no gap.
NextCount(S) == Cardinality(S) + 1

\* Mutant: the last number itself.
NextIsLast(S) == CHOOSE n \in 1..MaxNum : /\ \A m \in S : m <= n
                                          /\ n = 1 \/ n \in S

\* The number after the last one.
NextNum(S) == CHOOSE n \in 1..(MaxNum + 1) :
                /\ \A m \in S : m < n
                /\ n = 1 \/ n - 1 \in S

\* The numbering has no gap, and the score file no line to spare.
Regular ==
    /\ Scan = 1..Cardinality(Scan)
    /\ Len(score.lines) <= Cardinality(Scan)

\* The cases as a reader at rest finds them.
Listing == [i \in 1..Cardinality(Scan) |->
                input[CHOOSE n \in Scan : Position(Scan, n) = i]]

Complete == {c \in Cases : \E n \in Nums : input[n] = c /\ answer[n] = c}

\* Mutant: the added lines get no points.
ResizedUnset(s, k) == [i \in 1..k |-> IF i <= Len(s) THEN s[i] ELSE "absent"]

Resized(s, k) == [i \in 1..k |-> IF i <= Len(s) THEN s[i] ELSE "zero"]

ImportedLines(k) == [i \in 1..k |-> IF i <= Cardinality(Scan) THEN Listing[i] ELSE "stray"]

\* What an import leaves: write_inline_cases numbers the cases from 1;
\* copy_test_dir keeps the numbers of its source, gaps included, and takes
\* the score file as it is, however many lines it has.
Imported ==
    \E S \in (SUBSET Nums) \ {{}} :
        /\ Gaps \/ S = 1..Cardinality(S)
        /\ input \in {f \in [Nums -> Cases \cup {"absent"}] :
                        /\ \A n \in Nums : (f[n] # "absent") = (n \in S)
                        /\ \A m, n \in S : m # n => f[m] # f[n]}
        /\ answer = input
        /\ \/ score = NoScores
           \/ \E k \in 0..MaxNum : score = [file |-> TRUE, lines |-> ImportedLines(k)]

Init ==
    /\ Imported
    /\ backup = NoDirectory
    /\ limits \in Limits
    /\ req = [s \in Staff |-> Idle]
    /\ reader = NoReader
    /\ base = Listing
    /\ promised = Complete
    /\ aligned = TRUE
    /\ crossed = FALSE
    /\ slipped = FALSE
    /\ wanted = limits
    /\ reverted = {}
    /\ requests = 0 /\ faults = 0 /\ crashes = 0

At(s, pc) == req[s].pc = pc
GoTo(s, pc) == req' = [req EXCEPT ![s].pc = pc]
Reply(s) == req' = [req EXCEPT ![s] = Idle]

Fault ==
    /\ faults < MaxFaults
    /\ faults' = faults + 1

\* A thread without a request takes the next one.
Accept(s) ==
    /\ At(s, "idle")
    /\ requests < MaxRequests
    /\ requests' = requests + 1

Adding(s) == req[s].pc \in {"openIn", "fillIn", "openOut", "fillOut", "addScore"}
Deleting(s) == req[s].pc \in {"rmIn", "rmOut", "rescan", "renIn", "renOut", "cutScore"}
Replacing(s) == req[s].pc \in {"backup", "swap", "restore", "dropBak"}
Editing(s) == Adding(s) \/ Deleting(s) \/ Replacing(s)
Quiet == ~\E s \in Staff : Editing(s)

\* The history at the start of an edit that deletes the cases of D.
Began(D) ==
    /\ \/ Quiet
       \/ Overlap = "any"
       \/ Overlap = "additions" /\ D = {} /\ \A s \in Staff : Editing(s) => Adding(s)
    /\ base' = Listing
    /\ promised' = (IF Quiet THEN Complete ELSE promised) \ D
    /\ aligned' = (aligned /\ Regular)
    /\ crossed' = (crossed \/ ~Quiet)

\* scan_case_nums and scan_test_cases return what they have found when the
\* iterator of the directory fails; nobody is told.
Listed(S) ==
    \/ S = Scan /\ UNCHANGED faults
    \/ S # Scan /\ S \subseteq Scan /\ Fault

\* A deletion or a replacement shakes the reader at work.
Shaken == IF reader = NoReader THEN reader ELSE [reader EXCEPT !.shaky = TRUE]
-----------------------------------------------------------------------------
(* add_test_case                                                           *)

Mentioned(c, d) ==
    \/ \E n \in Nums : c \in {d.input[n], d.answer[n]}
    \/ \E i \in DOMAIN d.score.lines : d.score.lines[i] = c

\* A case no file and no other request has.
Fresh(c) ==
    /\ \A n \in Nums : input[n] # c /\ answer[n] # c
    /\ \A i \in DOMAIN score.lines : score.lines[i] # c
    /\ ~Mentioned(c, backup)
    /\ \A s \in Staff : /\ Adding(s) => req[s].case # c
                       /\ Replacing(s) => ~Mentioned(c, req[s].tmp)

AddScan(s, S, c, pointed) ==
    /\ Accept(s) /\ Fresh(c) /\ NextNum(S) \in Nums
    /\ Listed(S) /\ slipped' = (slipped \/ S # Scan)
    /\ Began({})
    /\ req' = [req EXCEPT ![s] = [pc |-> "openIn", num |-> NextNum(S),
                                  count |-> Cardinality(S), case |-> c,
                                  pointed |-> pointed]]
    /\ UNCHANGED <<files, backup, limits, reader, asked, crashes>>

\* write_file truncates the file and writes it; an error is not reported, so
\* after a failed open the file is as it was, after a failed write it is torn.
AddOpenIn(s) ==
    /\ At(s, "openIn")
    /\ \/ /\ input' = [input EXCEPT ![req[s].num] = "torn"]
          /\ GoTo(s, "fillIn")
          /\ UNCHANGED faults
       \/ Fault /\ GoTo(s, "openOut") /\ UNCHANGED input
    /\ UNCHANGED <<answer, score, backup, limits, reader, history, requests, crashes>>

AddFillIn(s) ==
    /\ At(s, "fillIn")
    /\ GoTo(s, "openOut")
    /\ \/ input' = [input EXCEPT ![req[s].num] = req[s].case] /\ UNCHANGED faults
       \/ Fault /\ UNCHANGED input
    /\ UNCHANGED <<answer, score, backup, limits, reader, history, requests, crashes>>

AddOpenOut(s) ==
    /\ At(s, "openOut")
    /\ \/ /\ answer' = [answer EXCEPT ![req[s].num] = "torn"]
          /\ GoTo(s, "fillOut")
          /\ UNCHANGED faults
       \/ Fault /\ GoTo(s, "addScore") /\ UNCHANGED answer
    /\ UNCHANGED <<input, score, backup, limits, reader, history, requests, crashes>>

AddFillOut(s) ==
    /\ At(s, "fillOut")
    /\ GoTo(s, "addScore")
    /\ \/ answer' = [answer EXCEPT ![req[s].num] = req[s].case] /\ UNCHANGED faults
       \/ Fault /\ UNCHANGED answer
    /\ UNCHANGED <<input, score, backup, limits, reader, history, requests, crashes>>

\* A write of the score file fails when it is opened or after that.
Unwritten == score' \in {score, [file |-> TRUE, lines |-> <<>>]}

\* The score file is read and written back when it exists or the request has
\* points.  The lines are resized to the number of cases that the scan at the
\* start found.
AddScore(s) ==
    /\ At(s, "addScore") /\ Reply(s)
    /\ IF req[s].pointed \/ score.file
       THEN \/ /\ score' = [file |-> TRUE,
                            lines |-> Append(Resized(score.lines, req[s].count),
                                             IF req[s].pointed THEN req[s].case ELSE "zero")]
               /\ UNCHANGED faults
            \/ Fault /\ Unwritten
       ELSE UNCHANGED <<score, faults>>
    /\ UNCHANGED <<input, answer, backup, limits, reader, history, requests, crashes>>
-----------------------------------------------------------------------------
(* delete_test_case                                                        *)

\* <num>.in is there; otherwise an error changes nothing.
DeleteFind(s, n) ==
    /\ Accept(s) /\ n \in Scan
    /\ Began({input[n]})
    /\ req' = [req EXCEPT ![s] = [pc |-> "rmIn", num |-> n, todo |-> {}]]
    /\ reader' = Shaken
    /\ UNCHANGED <<files, backup, limits, slipped, asked, faults, crashes>>

Slip == Fault /\ slipped' = TRUE

\* The errors of the two removals and of all renames are ignored.
DeleteIn(s) ==
    /\ At(s, "rmIn") /\ GoTo(s, "rmOut")
    /\ \/ input' = [input EXCEPT ![req[s].num] = "absent"] /\ UNCHANGED <<faults, slipped>>
       \/ Slip /\ UNCHANGED input
    /\ UNCHANGED <<answer, score, backup, limits, reader, began, asked, requests, crashes>>

\* Mutant: the answer of the deleted case is left to be overwritten.
DeleteOutSkipped(s) ==
    /\ At(s, "rmOut") /\ GoTo(s, "rescan")
    /\ UNCHANGED <<files, backup, limits, reader, history, requests, faults, crashes>>

DeleteOut(s) ==
    /\ At(s, "rmOut") /\ GoTo(s, "rescan")
    /\ \/ answer' = [answer EXCEPT ![req[s].num] = "absent"] /\ UNCHANGED <<faults, slipped>>
       \/ Slip /\ UNCHANGED answer
    /\ UNCHANGED <<input, score, backup, limits, reader, began, asked, requests, crashes>>

\* The numbers above the deleted one are to move down by one.
DeleteRescan(s, S) ==
    LET above == {n \in S : n > req[s].num}
    IN  /\ At(s, "rescan")
        /\ Listed(S) /\ slipped' = (slipped \/ S # Scan)
        /\ req' = [req EXCEPT ![s].pc = IF above = {} THEN "cutScore" ELSE "renIn",
                              ![s].todo = above]
        /\ UNCHANGED <<files, backup, limits, reader, began, asked, requests, crashes>>

\* Mutant: the highest number moves first.
FirstToMoveLast(S) == CHOOSE n \in S : \A m \in S : m <= n

\* Ascending, so that every number moves into a free place.
FirstToMove(S) == Least(S)

\* rename fails without its source and replaces its target.
Renamed(f, n) ==
    IF f[n] = "absent" THEN f ELSE [f EXCEPT ![n - 1] = f[n], ![n] = "absent"]

RenameIn(s) ==
    /\ At(s, "renIn") /\ GoTo(s, "renOut")
    /\ \/ input' = Renamed(input, FirstToMove(req[s].todo)) /\ UNCHANGED <<faults, slipped>>
       \/ Slip /\ UNCHANGED input
    /\ UNCHANGED <<answer, score, backup, limits, reader, began, asked, requests, crashes>>

RenameOut(s) ==
    LET n == FirstToMove(req[s].todo)
        rest == req[s].todo \ {n}
    IN  /\ At(s, "renOut")
        /\ req' = [req EXCEPT ![s].pc = IF rest = {} THEN "cutScore" ELSE "renIn",
                              ![s].todo = rest]
        /\ \/ answer' = Renamed(answer, n) /\ UNCHANGED <<faults, slipped>>
           \/ Slip /\ UNCHANGED answer
        /\ UNCHANGED <<input, score, backup, limits, reader, began, asked, requests, crashes>>

\* Mutant: the file is only shortened.
CutLinesAtEnd(lines, n, k) == Resized(lines, k)

\* The line at the deleted number goes, and the rest is resized.
CutLines(lines, n, k) ==
    Resized(IF n <= Len(lines) THEN RemoveAt(lines, n) ELSE lines, k)

\* An empty score file is removed.
ScoresCut(s, S) ==
    LET lines == CutLines(score.lines, req[s].num, Cardinality(S))
    IN  [file |-> lines # <<>>, lines |-> lines]

DeleteScore(s, S) ==
    /\ At(s, "cutScore") /\ Reply(s)
    /\ IF score.file
       THEN \/ Listed(S) /\ score' = ScoresCut(s, S)
            \/ Fault /\ Unwritten
       ELSE UNCHANGED <<score, faults>>
    /\ UNCHANGED <<input, answer, backup, limits, reader, history, requests, crashes>>
-----------------------------------------------------------------------------
(* update_problem_limits                                                   *)

LimitsRead(s, ask) ==
    /\ Accept(s)
    /\ req' = [req EXCEPT ![s] = [pc |-> "writeLimits", ask |-> ask,
                                  read |-> limits, raced |-> {}]]
    /\ UNCHANGED <<files, backup, limits, reader, history, faults, crashes>>

\* Mutant: the other column's value is written back.
LimitsToWriteSwapped(r) ==
    [c \in Columns |-> IF c \in DOMAIN r.ask THEN r.ask[c]
                       ELSE r.read[CHOOSE d \in Columns : d # c]]

\* The columns that are not asked for are written back as they were read.
LimitsToWrite(r) ==
    [c \in Columns |-> IF c \in DOMAIN r.ask THEN r.ask[c] ELSE r.read[c]]

\* What is left of request r once a write has overtaken it that may have
\* changed the columns of C.
Overtaken(r, C) == IF r.pc = "writeLimits" THEN [r EXCEPT !.raced = @ \cup C] ELSE r

\* The columns r writes back although others have been given values since.
Stale(r) == r.raced \ DOMAIN r.ask

\* The UPDATE writes both columns.
LimitsWrite(s) ==
    LET r == req[s]
    IN  /\ At(s, "writeLimits")
        /\ limits' = LimitsToWrite(r)
        /\ wanted' = [c \in Columns |-> IF c \in DOMAIN r.ask THEN r.ask[c] ELSE wanted[c]]
        /\ reverted' = (reverted \cup Stale(r)) \ DOMAIN r.ask
        /\ req' = [t \in Staff |-> IF t = s THEN Idle
                                   ELSE Overtaken(req[t], r.raced \cup DOMAIN r.ask)]
        /\ UNCHANGED <<files, backup, reader, began, slipped, requests, faults, crashes>>
-----------------------------------------------------------------------------
(* update_problem: the row, and with test cases the whole directory        *)

\* One UPDATE sets both columns; then thread s goes on as r.
RowSet(s, new, r) ==
    /\ limits' = new
    /\ wanted' = new
    /\ reverted' = {}
    /\ req' = [t \in Staff |-> IF t = s THEN r ELSE Overtaken(req[t], Columns)]

\* Without test cases, or when <id>.tmp cannot be written, which is reported.
UpdateRow(s, new) ==
    /\ Accept(s)
    /\ RowSet(s, new, Idle)
    /\ UNCHANGED faults \/ Fault
    /\ UNCHANGED <<files, backup, reader, began, slipped, crashes>>

NewCases ==
    {c \in UNION {[1..k -> Cases] : k \in Nums} :
        /\ \A i \in DOMAIN c : Fresh(c[i])
        /\ \A i, j \in DOMAIN c : c[i] = c[j] => i = j}

\* write_inline_cases: the new cases c, numbered from 1, and a score file if
\* any of them has points.
Written(c, pointed) ==
    LET file == [n \in Nums |-> IF n \in DOMAIN c THEN c[n] ELSE "absent"]
    IN  [input |-> file, answer |-> file,
         score |-> IF pointed = {} THEN NoScores
                   ELSE [file |-> TRUE,
                         lines |-> [i \in DOMAIN c |-> IF i \in pointed THEN c[i] ELSE "zero"]]]

Prepared == UNION {{Written(c, pointed) : pointed \in SUBSET DOMAIN c} : c \in NewCases}

\* A file of d whose last flush failed unnoticed (problem.cpp:39).
Flawed(d) ==
    {[d EXCEPT !.input[n] = "torn"] : n \in {n \in Nums : d.input[n] # "absent"}}
    \cup {[d EXCEPT !.answer[n] = "torn"] : n \in {n \in Nums : d.answer[n] # "absent"}}
    \cup {[d EXCEPT !.score.lines = <<>>]}

\* The new directory is written as <id>.tmp, which nobody else looks at.
\* Two replacements of one problem's cases would share it: they are assumed
\* not to overlap.
UpdateCases(s, new) ==
    /\ Accept(s)
    /\ Quiet \/ (Overlap = "any" /\ ~\E t \in Staff : Replacing(t))
    /\ \E d \in Prepared :
        \/ RowSet(s, new, [pc |-> "backup", tmp |-> d]) /\ UNCHANGED faults
        \/ Fault /\ \E tmp \in Flawed(d) : RowSet(s, new, [pc |-> "backup", tmp |-> tmp])
    /\ base' = Listing
    /\ promised' = {}
    /\ crossed' = (crossed \/ ~Quiet)
    /\ reader' = Shaken
    /\ UNCHANGED <<files, backup, aligned, slipped, crashes>>

Live == [input |-> input, answer |-> answer, score |-> score]
Becomes(d) == input' = d.input /\ answer' = d.answer /\ score' = d.score

\* An older <id>.bak is removed and the directory takes its place.  A
\* directory without files may be there or not, and is renamed or skipped; a
\* failing rename is reported.
Backup(s) ==
    /\ At(s, "backup")
    /\ \/ /\ GoTo(s, "swap")
          /\ IF Live = NoDirectory
             THEN backup' \in {backup, NoDirectory} /\ UNCHANGED files
             ELSE backup' = Live /\ Becomes(NoDirectory)
          /\ UNCHANGED faults
       \/ Fault /\ Reply(s) /\ backup' \in {backup, NoDirectory} /\ UNCHANGED files
    /\ UNCHANGED <<limits, reader, history, requests, crashes>>

\* <id>.tmp takes the place of the directory, unless that has files again.
Swap(s) ==
    /\ At(s, "swap")
    /\ \/ /\ Live = NoDirectory
          /\ Becomes(req[s].tmp)
          /\ GoTo(s, "dropBak")
          /\ UNCHANGED faults
       \/ /\ (Live # NoDirectory /\ UNCHANGED faults) \/ Fault
          /\ GoTo(s, "restore")
          /\ UNCHANGED files
    /\ UNCHANGED <<backup, limits, reader, history, requests, crashes>>

\* The error of the rename back is ignored, that of the swap is reported.
Restore(s) ==
    /\ At(s, "restore") /\ Reply(s)
    /\ \/ Live = NoDirectory /\ Becomes(backup) /\ backup' = NoDirectory /\ UNCHANGED faults
       \/ Live # NoDirectory /\ UNCHANGED <<files, backup, faults>>
       \/ Fault /\ UNCHANGED <<files, backup>>
    /\ UNCHANGED <<limits, reader, history, requests, crashes>>

DropBackup(s) ==
    /\ At(s, "dropBak") /\ Reply(s)
    /\ \/ backup' = NoDirectory /\ UNCHANGED faults
       \/ Fault /\ UNCHANGED backup
    /\ UNCHANGED <<files, limits, reader, history, requests, crashes>>
-----------------------------------------------------------------------------
(* The readers: judge_one, steps 8 and 9, and list_test_cases              *)

ReaderScan(kind, S) ==
    /\ reader = NoReader
    /\ Listed(S)
    /\ reader' = [pc |-> IF kind = "list" THEN "score"
                         ELSE IF S = {} THEN "done" ELSE "look",
                  kind |-> kind, nums |-> S, todo |-> S, lines |-> <<>>,
                  ran |-> "absent",
                  verdict |-> IF kind = "judge" /\ S = {} THEN "missing" ELSE "none",
                  shaky |-> \E s \in Staff : Deleting(s) \/ Replacing(s)]
    /\ UNCHANGED <<files, backup, limits, req, history, requests, crashes>>

ListScores ==
    /\ reader.pc = "score"
    /\ reader' = [reader EXCEPT !.lines = score.lines,
                                !.pc = IF reader.todo = {} THEN "done" ELSE "input"]
    /\ UNCHANGED <<files, backup, limits, req, history, requests, faults, crashes>>

\* A judging ends with SYSTEM_ERROR when <n>.out is not there.
JudgeLook ==
    /\ reader.pc = "look"
    /\ reader' = IF answer[Least(reader.todo)] = "absent"
                 THEN [reader EXCEPT !.pc = "done", !.verdict = "missing"]
                 ELSE [reader EXCEPT !.pc = "input"]
    /\ UNCHANGED <<files, backup, limits, req, history, requests, faults, crashes>>

\* The program is run on <n>.in, or the file is read for its preview; without
\* the file the run fails, the preview is empty.
ReadInput ==
    LET found == input[Least(reader.todo)]
    IN  /\ reader.pc = "input"
        /\ reader' = IF found = "absent" /\ reader.kind = "judge"
                     THEN [reader EXCEPT !.pc = "done", !.verdict = "missing"]
                     ELSE [reader EXCEPT !.pc = "answer", !.ran = found]
        /\ UNCHANGED <<files, backup, limits, req, history, requests, faults, crashes>>

\* What the answer at hand makes of the input and the points: a file that is
\* absent or torn reads as empty, points are matched by position.
Matched(ran, found, lines, pos) ==
    IF {ran, found} \cap {"absent", "torn"} # {} THEN "torn"
    ELSE IF \/ ran # found
            \/ pos <= Len(lines) /\ lines[pos] \notin {ran, "zero"} THEN "mixed"
    ELSE "fair"

\* <n>.out is compared with what the program printed, resp. shown beside its
\* input; a judging ends at the first case that differs.
ReadAnswer ==
    LET n == Least(reader.todo)
        got == Matched(reader.ran, answer[n], reader.lines, Position(reader.nums, n))
        rest == reader.todo \ {n}
        stop == rest = {} \/ (reader.kind = "judge" /\ got # "fair")
    IN  /\ reader.pc = "answer"
        /\ reader' = [reader EXCEPT
                !.pc = IF stop THEN "done" ELSE IF reader.kind = "judge" THEN "look" ELSE "input",
                !.todo = rest,
                !.ran = "absent",
                !.verdict = IF @ \in {"none", "fair"} THEN got ELSE @]
        /\ UNCHANGED <<files, backup, limits, req, history, requests, faults, crashes>>

ReaderEnds ==
    /\ reader.pc = "done"
    /\ reader' = NoReader
    /\ UNCHANGED <<files, backup, limits, req, history, requests, faults, crashes>>

\* The process dies: files and row stay.
Crash ==
    /\ crashes < MaxCrashes
    /\ crashes' = crashes + 1
    /\ req' = [s \in Staff |-> Idle]
    /\ reader' = NoReader
    /\ UNCHANGED <<files, backup, limits, history, requests, faults>>
-----------------------------------------------------------------------------
Add(s) ==
    \/ \E S \in SUBSET Nums, c \in Cases, pointed \in BOOLEAN : AddScan(s, S, c, pointed)
    \/ AddOpenIn(s) \/ AddFillIn(s) \/ AddOpenOut(s) \/ AddFillOut(s) \/ AddScore(s)

Delete(s) ==
    \/ \E n \in Nums : DeleteFind(s, n)
    \/ DeleteIn(s) \/ DeleteOut(s)
    \/ \E S \in SUBSET Nums : DeleteRescan(s, S)
    \/ RenameIn(s) \/ RenameOut(s)
    \/ \E S \in SUBSET Nums : DeleteScore(s, S)

SetLimits(s) == (\E ask \in Asked : LimitsRead(s, ask)) \/ LimitsWrite(s)

Update(s) ==
    \/ \E new \in Limits : UpdateRow(s, new) \/ UpdateCases(s, new)
    \/ Backup(s) \/ Swap(s) \/ Restore(s) \/ DropBackup(s)

Read ==
    \/ \E kind \in {"judge", "list"}, S \in SUBSET Nums : ReaderScan(kind, S)
    \/ ListScores \/ JudgeLook \/ ReadInput \/ ReadAnswer \/ ReaderEnds

Next == (\E s \in Staff : Add(s) \/ Delete(s) \/ SetLimits(s) \/ Update(s)) \/ Read \/ Crash

Spec == Init /\ [][Next]_vars
-----------------------------------------------------------------------------
TypeOK ==
    /\ input \in [Nums -> Contents]
    /\ answer \in [Nums -> Contents]
    /\ score \in ScoreFiles
    /\ backup \in Directories
    /\ limits \in Limits
    /\ req \in [Staff -> Requests]
    /\ reader \in Readers
    /\ base \in Seq(Contents)
    /\ promised \subseteq Cases
    /\ aligned \in BOOLEAN
    /\ crossed \in BOOLEAN
    /\ slipped \in BOOLEAN
    /\ wanted \in Limits
    /\ reverted \subseteq Columns
    /\ requests \in 0..MaxRequests
    /\ faults \in 0..MaxFaults
    /\ crashes \in 0..MaxCrashes

\* No operation has failed, no crash has cut an edit off, no edits have overlapped.
Undamaged == faults = 0 /\ crashes = 0 /\ ~crossed

\* At every moment of every edit, and wherever a crash cuts it off, no number
\* has the input of one case and the answer of another (the order of the
\* removals and renames from admin_problem.cpp:261 on) - unless a failed
\* operation went unnoticed, an edit came upon what a crash had left, or two
\* additions had found the same number free (admin_problem.cpp:225).
PairsNeverMixed ==
    Undamaged =>
        \A n \in Nums : {input[n], answer[n]} \subseteq Cases => input[n] = answer[n]

\* An addition loses nothing, a deletion nothing but its case: both files of
\* every other case that was complete when it began are there at every later
\* moment, also after a crash in its middle, though perhaps under different
\* numbers.  Failing writes cost at most the new case, and overlapping additions
\* each other's.  The errors that are ignored are excepted: after a failing
\* rename the next one replaces the files left in place, and after a failing
\* listing (admin_problem.cpp:80) an addition takes the number of a case.
CompleteCasesSurvive ==
    ~slipped =>
        \A c \in promised : /\ \E n \in Nums : input[n] = c
                            /\ \E n \in Nums : answer[n] = c

\* Between edits the lines of the score file are in the order of the cases
\* (admin_problem.cpp:274): no case has the points of another, as long as every
\* addition and deletion began on a numbering without a gap and a score file
\* without a line to spare; after a gap deletion by number cuts another case's
\* line.
ScoresFollowCases ==
    Undamaged /\ aligned /\ Quiet /\ score.file =>
        \A i \in DOMAIN score.lines :
            i <= Cardinality(Scan) => score.lines[i] \in {Listing[i], "zero"}

\* A judging or a listing that meets files of two different cases under one
\* number, or points of another case, overlapped a deletion or a replacement of
\* all cases: additions, which it can meet as well, at worst make it miss a file.
AdditionsMixNoReader ==
    /\ Undamaged /\ reader.pc = "done" /\ ~reader.shaky
    /\ reader.kind = "judge" \/ aligned
    => reader.verdict # "mixed"

\* Whatever the order of limits requests and updates of the problem, each
\* column has the value that the last of them to name it asked for, until a
\* limits request writes it back that had read it before it was given that
\* value (admin_problem.cpp:134, problem.cpp:340).
LimitsAsLastAsked == \A c \in Columns \ reverted : limits[c] = wanted[c]

\* Each edit of the files is one operation on a list of cases, whatever the
\* numbering: the list is the one before the edit until its last step.  A
\* replacement puts new cases in the place of all.
ListNow == IF Quiet THEN Listing ELSE base
CL == INSTANCE CaseList WITH list <- ListNow

EditsAreListSteps ==
    [][Undamaged /\ Undamaged' => [CL!Next]_ListNow]_vars
=============================================================================
