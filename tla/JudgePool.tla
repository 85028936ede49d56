------------------------------ MODULE JudgePool ------------------------------
(***************************************************************************)
(* The asynchronous judging pipeline: HTTP handlers that create and        *)
(* rejudge submissions (server.cpp, submission.cpp), the judge queue       *)
(* (module JudgeQueue), the worker pool (judge/worker.cpp), the stop       *)
(* sequence of the server, and a crash and restart of the process.         *)
(*                                                                         *)
(* The database has one connection and one mutex taken per statement       *)
(* (db.cpp:223), so one SQL statement is one action and everything between *)
(* two statements of a thread can interleave with the other threads.  A    *)
(* step that touches no shared state (compiling, running a test point) is  *)
(* one with the statement that follows it.                                 *)
(***************************************************************************)
EXTENDS Naturals, Sequences, FiniteSets

CONSTANTS
    Workers,      \* threads of the pool: worker_num, clamped to 0..8
    Submissions,  \* ids submissions.id can take; an id is never reused
    NoSid,        \* sid = 0: no submission in hand
    Handlers,     \* HTTP threads that serve submit and rejudge requests
    CompileVerdicts,  \* the verdicts of a failed compilation explored
    TestVerdicts,     \* the verdicts of a failed test point explored
    MaxTests,     \* bound on the test points of a problem
    MaxRejudges,  \* bound on rejudge requests
    MaxFaults,    \* bound on failing SQL statements
    MaxCrashes    \* bound on process crashes

ASSUME WorkersAssumption == IsFiniteSet(Workers)
ASSUME HandlersAssumption == IsFiniteSet(Handlers)
ASSUME NoSidAssumption == NoSid \notin Submissions
ASSUME VerdictsAssumption ==
    /\ CompileVerdicts \subseteq {"COMPILE_ERROR", "COMPILE_TIMEOUT", "SYSTEM_ERROR"}
    /\ TestVerdicts \subseteq {"WA", "RE", "TLE", "MLE", "SYSTEM_ERROR"}
ASSUME BoundsAssumption ==
    /\ MaxTests \in Nat
    /\ MaxRejudges \in Nat
    /\ MaxFaults \in Nat
    /\ MaxCrashes \in Nat

VARIABLES
    \* submissions table
    status,     \* status column per id; "NONE" before INSERT, "DELETED" after
    \* process memory
    items, stop, phase,  \* the queue, see JudgeQueue
    running,    \* running_ of the pool
    wpc,        \* where each worker is in worker_loop / judge_one
    wsid,       \* the id each worker is judging, or NoSid
    wleft,      \* test points the worker still has to run
    hpc,        \* where each HTTP thread is in its handler
    hsid,       \* the id that handler works on, or NoSid
    stopPc,     \* where Server::stop is
    \* bounds and history
    rejudges, faults, crashes,
    abandoned   \* ids whose judging the process gave up: the final write
                \* failed and was only logged, or the process died

queueVars == <<items, stop, phase>>
workerVars == <<wpc, wsid, wleft>>
handlerVars == <<hpc, hsid>>
boundVars == <<rejudges, faults, crashes>>
vars == <<status, queueVars, running, workerVars, handlerVars, stopPc,
          boundVars, abandoned>>

Q == INSTANCE JudgeQueue WITH Consumers <- Workers, Tasks <- Submissions

Live == {"PENDING", "COMPILING", "RUNNING"}
Verdicts == {"AC", "SYSTEM_ERROR"} \cup CompileVerdicts \cup TestVerdicts
Absent == {"NONE", "DELETED"}

\* Inside judge_one, between its first statement and its final write.
Judging == {"start", "load", "problem", "compile", "mark", "scan", "test", "giveup"}

Exists(s) == status[s] \notin Absent

\* Mutant: the write inserts the row when it is missing.
Upserted(s, v) == [status EXCEPT ![s] = v]

\* UPDATE submissions SET status = v WHERE id = s: no row, no effect.
Updated(s, v) == IF Exists(s) THEN [status EXCEPT ![s] = v] ELSE status

\* A statement fails: DBStmt::execute or query reports false.
Fault ==
    /\ faults < MaxFaults
    /\ faults' = faults + 1
-----------------------------------------------------------------------------
\* The pool has been started on an empty submissions table.
Init ==
    /\ status = [s \in Submissions |-> "NONE"]
    /\ Q!Init
    /\ running = TRUE
    /\ wpc = [w \in Workers |-> "loop"]
    /\ wsid = [w \in Workers |-> NoSid]
    /\ wleft = [w \in Workers |-> 0]
    /\ hpc = [h \in Handlers |-> "idle"]
    /\ hsid = [h \in Handlers |-> NoSid]
    /\ stopPc = "up"
    /\ rejudges = 0 /\ faults = 0 /\ crashes = 0
    /\ abandoned = {}
-----------------------------------------------------------------------------
(* HTTP handlers.                                                          *)

\* POST /api/submissions: the checks passed and the INSERT succeeded (a
\* failed check or INSERT changes nothing).  The push is still to come.
Submit(h, s) ==
    /\ hpc[h] = "idle" /\ stopPc # "closed"
    /\ status[s] = "NONE"
    /\ status' = [status EXCEPT ![s] = "PENDING"]
    /\ hpc' = [hpc EXCEPT ![h] = "push"]
    /\ hsid' = [hsid EXCEPT ![h] = s]
    /\ UNCHANGED <<queueVars, running, workerVars, stopPc, boundVars, abandoned>>

\* POST .../rejudge, first statement: SELECT 1 finds the row (when it does
\* not, or fails, the handler answers 404 and nothing changes).
RejudgeSelect(h, s) ==
    /\ hpc[h] = "idle" /\ stopPc # "closed"
    /\ rejudges < MaxRejudges
    /\ Exists(s)
    /\ rejudges' = rejudges + 1
    /\ hpc' = [hpc EXCEPT ![h] = "update"]
    /\ hsid' = [hsid EXCEPT ![h] = s]
    /\ UNCHANGED <<status, queueVars, running, workerVars, stopPc,
                   faults, crashes, abandoned>>

\* Second statement: back to PENDING, whatever the row holds by now and
\* whether or not it is still there.
RejudgeUpdate(h) ==
    /\ hpc[h] = "update"
    /\ status' = Updated(hsid[h], "PENDING")
    /\ abandoned' = abandoned \ {hsid[h]}
    /\ hpc' = [hpc EXCEPT ![h] = "push"]
    /\ UNCHANGED <<queueVars, running, workerVars, hsid, stopPc, boundVars>>

\* The UPDATE fails: the handler returns without pushing.
RejudgeFails(h) ==
    /\ hpc[h] = "update"
    /\ Fault
    /\ hpc' = [hpc EXCEPT ![h] = "idle"]
    /\ hsid' = [hsid EXCEPT ![h] = NoSid]
    /\ UNCHANGED <<status, queueVars, running, workerVars, stopPc,
                   rejudges, crashes, abandoned>>

\* Both handlers end in queue_.push, after their statement has committed.
HandlerPush(h) ==
    /\ hpc[h] = "push"
    /\ Q!Push(hsid[h])
    /\ hpc' = [hpc EXCEPT ![h] = "idle"]
    /\ hsid' = [hsid EXCEPT ![h] = NoSid]
    /\ UNCHANGED <<status, running, workerVars, stopPc, boundVars, abandoned>>

\* Deleting a problem or a user cascades to all its submissions at once
\* (schema.sql), in whatever state their judging is.
CascadeDelete ==
    \E S \in SUBSET Submissions :
        /\ S # {} /\ \A s \in S : Exists(s)
        /\ status' = [s \in Submissions |->
                         IF s \in S THEN "DELETED" ELSE status[s]]
        /\ UNCHANGED <<queueVars, running, workerVars, handlerVars, stopPc,
                       boundVars, abandoned>>
-----------------------------------------------------------------------------
(* A worker thread.                                                        *)

\* while (running_): the flag is read here and nowhere else.
LoopTop(w) ==
    /\ wpc[w] = "loop"
    /\ IF running
       THEN /\ wpc' = [wpc EXCEPT ![w] = "pop"]
            /\ Q!EnterPop(w)
       ELSE /\ wpc' = [wpc EXCEPT ![w] = "off"]
            /\ UNCHANGED queueVars
    /\ UNCHANGED <<status, running, wsid, wleft, handlerVars, stopPc,
                   boundVars, abandoned>>

Pop(w) ==
    /\ wpc[w] = "pop"
    /\ \/ \E s \in Submissions :
            /\ Q!PopTake(w, s)
            /\ wpc' = [wpc EXCEPT ![w] = "start"]
            /\ wsid' = [wsid EXCEPT ![w] = s]
       \/ /\ Q!PopClosed(w)
          /\ wpc' = [wpc EXCEPT ![w] = "off"]
          /\ UNCHANGED wsid
       \/ /\ Q!PopWait(w)
          /\ UNCHANGED <<wpc, wsid>>
    /\ UNCHANGED <<status, running, wleft, handlerVars, stopPc, boundVars, abandoned>>

Wake(w) ==
    /\ wpc[w] = "pop"
    /\ Q!SpuriousWake(w)
    /\ UNCHANGED <<status, running, workerVars, handlerVars, stopPc,
                   boundVars, abandoned>>

\* judge_one moves on to its next statement without writing the row.
GoTo(w, pc) ==
    /\ wpc' = [wpc EXCEPT ![w] = pc]
    /\ UNCHANGED <<queueVars, running, wsid, wleft, handlerVars, stopPc,
                   rejudges, crashes, abandoned>>

\* The two progress updates; their result is ignored, so a failed one leaves
\* the row as it was and the judging goes on.
Mark(w, from, v, to) ==
    /\ wpc[w] = from
    /\ \/ status' = Updated(wsid[w], v) /\ UNCHANGED faults
       \/ Fault /\ UNCHANGED status
    /\ GoTo(w, to)

SetCompiling(w) == Mark(w, "start", "COMPILING", "load")

SetRunning(w) == Mark(w, "mark", "RUNNING", "scan")

\* SELECT of the submission: a missing row or a failed query gives up.
LoadSubmission(w) ==
    /\ wpc[w] = "load"
    /\ UNCHANGED status
    /\ \/ Exists(wsid[w]) /\ UNCHANGED faults /\ GoTo(w, "problem")
       \/ ~Exists(wsid[w]) /\ UNCHANGED faults /\ GoTo(w, "giveup")
       \/ Fault /\ GoTo(w, "giveup")

\* SELECT of the problem.  Its row can be missing only when deleting it has
\* just taken the submission along.  An unsupported language or a work
\* directory that cannot be created gives up too.
LoadProblem(w) ==
    /\ wpc[w] = "problem"
    /\ UNCHANGED status
    /\ \/ UNCHANGED faults /\ GoTo(w, "compile")
       \/ UNCHANGED faults /\ GoTo(w, "giveup")
       \/ Fault /\ GoTo(w, "giveup")

\* write_result and the return to the loop; when the UPDATE fails, the error
\* is only logged.
WriteResult(w, v) ==
    /\ \/ /\ status' = Updated(wsid[w], v)
          /\ UNCHANGED <<faults, abandoned>>
       \/ /\ Fault
          /\ abandoned' = abandoned \cup {wsid[w]}
          /\ UNCHANGED status
    /\ wpc' = [wpc EXCEPT ![w] = "loop"]
    /\ wsid' = [wsid EXCEPT ![w] = NoSid]
    /\ wleft' = [wleft EXCEPT ![w] = 0]
    /\ UNCHANGED <<queueVars, running, handlerVars, stopPc, rejudges, crashes>>

\* compile_source succeeds, or its failure is the verdict.
Compile(w) ==
    /\ wpc[w] = "compile"
    /\ \/ UNCHANGED <<status, faults>> /\ GoTo(w, "mark")
       \/ \E v \in CompileVerdicts : WriteResult(w, v)

\* The directory listing; no *.in file is a SYSTEM_ERROR.
ScanTests(w) ==
    /\ wpc[w] = "scan"
    /\ \/ WriteResult(w, "SYSTEM_ERROR")
       \/ \E n \in 1..MaxTests :
            /\ wleft' = [wleft EXCEPT ![w] = n]
            /\ wpc' = [wpc EXCEPT ![w] = "test"]
            /\ UNCHANGED <<status, queueVars, running, wsid, handlerVars,
                           stopPc, boundVars, abandoned>>

\* Mutant: the loop over the test points runs past its end.
PassTestPastEnd(w) ==
    /\ wpc[w] = "test"
    /\ wleft' = [wleft EXCEPT ![w] = @ - 1]
    /\ UNCHANGED <<status, queueVars, running, wpc, wsid, handlerVars, stopPc,
                   boundVars, abandoned>>

\* One test point passes and is not the last.
PassTest(w) ==
    /\ wpc[w] = "test" /\ wleft[w] > 1
    /\ wleft' = [wleft EXCEPT ![w] = @ - 1]
    /\ UNCHANGED <<status, queueVars, running, wpc, wsid, handlerVars, stopPc,
                   boundVars, abandoned>>

\* The last test point passes, or some test point fails.
FinishTests(w) ==
    /\ wpc[w] = "test"
    /\ \/ wleft[w] = 1 /\ WriteResult(w, "AC")
       \/ \E v \in TestVerdicts : WriteResult(w, v)

\* An exception inside judge_one: worker_loop's catch writes SYSTEM_ERROR.
Throw(w) ==
    /\ wpc[w] \in Judging \ {"giveup"}
    /\ UNCHANGED <<status, faults>>
    /\ GoTo(w, "giveup")

\* Mutant: the catch block logs the exception and writes nothing.
GiveUpSilently(w) ==
    /\ wpc[w] = "giveup"
    /\ wpc' = [wpc EXCEPT ![w] = "loop"]
    /\ wsid' = [wsid EXCEPT ![w] = NoSid]
    /\ wleft' = [wleft EXCEPT ![w] = 0]
    /\ UNCHANGED <<status, queueVars, running, handlerVars, stopPc,
                   boundVars, abandoned>>

\* The paths that gave up, and worker_loop's catch, write SYSTEM_ERROR.
GiveUp(w) ==
    /\ wpc[w] = "giveup"
    /\ WriteResult(w, "SYSTEM_ERROR")

Worker(w) ==
    \/ LoopTop(w) \/ Pop(w)
    \/ SetCompiling(w) \/ LoadSubmission(w) \/ LoadProblem(w)
    \/ Compile(w) \/ SetRunning(w) \/ ScanTests(w)
    \/ PassTest(w) \/ FinishTests(w) \/ Throw(w) \/ GiveUp(w)
-----------------------------------------------------------------------------
(* Server::stop: the pool's stop() first, the listener last.               *)

StopVars(pc) ==
    /\ stopPc' = pc
    /\ UNCHANGED <<status, workerVars, handlerVars, boundVars, abandoned>>

StopClearFlag ==
    /\ stopPc = "up"
    /\ running' = FALSE
    /\ StopVars("flagged")
    /\ UNCHANGED queueVars

StopShutdown ==
    /\ stopPc = "flagged"
    /\ Q!Shutdown
    /\ StopVars("joining")
    /\ UNCHANGED running

StopJoin ==
    /\ stopPc = "joining"
    /\ \A w \in Workers : wpc[w] = "off"
    /\ StopVars("joined")
    /\ UNCHANGED <<queueVars, running>>

CloseListener ==
    /\ stopPc = "joined"
    /\ StopVars("closed")
    /\ UNCHANGED <<queueVars, running>>

\* The process dies anywhere and is started again: main builds a fresh queue
\* and a fresh pool, the table keeps its rows, and start() reads none of them.
CrashRestart ==
    /\ crashes < MaxCrashes
    /\ crashes' = crashes + 1
    /\ abandoned' = abandoned \cup {s \in Submissions : status[s] \in Live}
    /\ items' = <<>> /\ stop' = FALSE
    /\ phase' = [w \in Workers |-> "out"]
    /\ running' = TRUE
    /\ wpc' = [w \in Workers |-> "loop"]
    /\ wsid' = [w \in Workers |-> NoSid]
    /\ wleft' = [w \in Workers |-> 0]
    /\ hpc' = [h \in Handlers |-> "idle"]
    /\ hsid' = [h \in Handlers |-> NoSid]
    /\ stopPc' = "up"
    /\ UNCHANGED <<status, rejudges, faults>>

Handler(h) == RejudgeUpdate(h) \/ RejudgeFails(h) \/ HandlerPush(h)

Stopping == StopShutdown \/ StopJoin \/ CloseListener

Next ==
    \/ \E h \in Handlers, s \in Submissions : Submit(h, s) \/ RejudgeSelect(h, s)
    \/ \E h \in Handlers : Handler(h)
    \/ \E w \in Workers : Worker(w)
    \/ \E w \in Workers : Wake(w)
    \/ CascadeDelete
    \/ StopClearFlag
    \/ Stopping
    \/ CrashRestart

\* Threads are scheduled: a request that has started runs on, a worker takes
\* its next step (compile_source and run_testcase both end by a deadline),
\* and stop(), once called, goes on.  No request, deletion, stop, spurious
\* wakeup or crash has to happen.
Fairness ==
    /\ \A h \in Handlers : WF_vars(Handler(h))
    /\ \A w \in Workers : WF_vars(Worker(w))
    /\ WF_vars(Stopping)

Spec == Init /\ [][Next]_vars /\ Fairness
-----------------------------------------------------------------------------
TypeOK ==
    /\ status \in [Submissions -> Live \cup Verdicts \cup Absent]
    /\ Q!TypeOK
    /\ running \in BOOLEAN
    /\ wpc \in [Workers -> Judging \cup {"loop", "pop", "off"}]
    /\ wsid \in [Workers -> Submissions \cup {NoSid}]
    /\ wleft \in [Workers -> 0..MaxTests]
    /\ hpc \in [Handlers -> {"idle", "update", "push"}]
    /\ hsid \in [Handlers -> Submissions \cup {NoSid}]
    /\ stopPc \in {"up", "flagged", "joining", "joined", "closed"}
    /\ rejudges \in 0..MaxRejudges
    /\ faults \in 0..MaxFaults
    /\ crashes \in 0..MaxCrashes
    /\ abandoned \in SUBSET Submissions

Queued(s) == \E i \in 1..Len(items) : items[i] = s
Owed(s) == \E h \in Handlers : hpc[h] = "push" /\ hsid[h] = s
Held(s) == \E w \in Workers : wpc[w] \in Judging /\ wsid[w] = s

\* A thread has an id in hand exactly while it works on one; part of the
\* inductive invariant.
InHand ==
    /\ \A w \in Workers : wpc[w] \in Judging <=> wsid[w] \in Submissions
    /\ \A h \in Handlers : hpc[h] # "idle" <=> hsid[h] \in Submissions

\* A row that shows progress is in a worker's hands, and a PENDING one has at
\* least its id there, in a handler about to push it or in the queue.  Failing
\* progress updates, rejudges and deletions change nothing about that; the
\* only exceptions are rows whose failed final write was logged and rows that
\* a crash left behind.  Whether somebody takes a queued id is another matter:
\* while the pool runs somebody does (ImplementsService), but stop() lets the
\* workers go with the queue not empty (worker.cpp:154, against the "drain" of
\* worker.h:54).  What it leaves behind is then PENDING and was never begun.
NothingForgotten ==
    \A s \in Submissions \ abandoned :
        /\ status[s] = "PENDING" => Queued(s) \/ Owed(s) \/ Held(s)
        /\ status[s] \in {"COMPILING", "RUNNING"} => Held(s)

\* The places that hold one outstanding request to judge s.
Places(s) ==
    {<<"queue", i>> : i \in {j \in 1..Len(items) : items[j] = s}}
        \cup {<<"handler", h>> : h \in {k \in Handlers : hpc[k] = "push" /\ hsid[k] = s}}
        \cup {<<"worker", w>> : w \in {x \in Workers : wpc[x] \in Judging /\ wsid[x] = s}}

\* As long as nothing has been rejudged, a submission is in one place only:
\* no two workers judge it, so no two share its work directory
\* (worker.cpp:220) or write its row.
SoleJudge ==
    rejudges = 0 => \A s \in Submissions : \A p, q \in Places(s) : p = q

\* The documented status machine (worker.h:7): without a rejudge and without
\* a failed statement a row only moves along these edges, its verdict never
\* changes once written, and a deleted row never comes back.
StatusEdge(old, new) ==
    \/ old = "NONE" /\ new = "PENDING"
    \/ old = "PENDING" /\ new = "COMPILING"
    \/ old = "COMPILING" /\ new \in CompileVerdicts \cup {"RUNNING"}
    \/ old = "RUNNING" /\ new \in {"AC"} \cup TestVerdicts
    \/ old \in Live /\ new = "SYSTEM_ERROR"
    \/ new = "DELETED" /\ old \notin Absent

StatusMachine ==
    [][rejudges' = 0 /\ faults' = 0 =>
        \A s \in Submissions :
            status'[s] # status[s] => StatusEdge(status[s], status'[s])]_status

\* A stop() that is called returns: no worker is left asleep in pop, and none
\* judges for ever.  (A crash ends the stop sequence too.)
StopReturns == (stopPc = "flagged") ~> (stopPc \in {"closed", "up"})

\* What SPEC.md:443 says of a crash: a submission it caught in the middle of
\* its judging ends up with SYSTEM_ERROR, or any other verdict, by itself.
CrashedAreJudged ==
    \A s \in Submissions :
        (crashes > 0 /\ status[s] \in Live) ~> (status[s] \notin Live \/ ~running)

\* Refinement: every request is owed one delivery, wherever it is.
Shown(s) ==
    CASE status[s] = "NONE" -> "none"
      [] status[s] = "DELETED" -> "gone"
      [] status[s] \in Live -> "waiting"
      [] OTHER -> "judged"

Service == INSTANCE JudgingService WITH
    shown <- [s \in Submissions |-> Shown(s)],
    owed <- [s \in Submissions |-> Cardinality(Places(s))],
    open <- running

\* Every step of the pipeline is a step of the service or invisible to it: a
\* request is never dropped, never judged twice, and a verdict is withdrawn
\* only while another request for the row is outstanding.
ServiceSteps == Service!Init /\ [][Service!Next]_(Service!vars)

\* And while the pool runs, every outstanding request is delivered.
ImplementsService == Service!Spec
=============================================================================
