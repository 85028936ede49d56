--------------------------- MODULE JudgePoolProofs ---------------------------
(***************************************************************************)
(* The judging pipeline forgets no submission, for any number of workers,  *)
(* handlers, submissions, test points, rejudges, failing statements and    *)
(* crashes.                                                                *)
(***************************************************************************)
EXTENDS JudgePool, SequenceTheorems, FunctionTheorems, FiniteSetTheorems, TLAPS

LEMMA LiveIsNoVerdict == Live \cap Verdicts = {} /\ Live \cap Absent = {}
BY VerdictsAssumption DEF Live, Verdicts, Absent

\* What pushing and popping do to the set of queued ids.
LEMMA PushQueues ==
  ASSUME items \in Seq(Submissions), NEW t \in Submissions,
         items' = Append(items, t)
  PROVE  /\ items' \in Seq(Submissions)
         /\ \A s : Queued(s)' <=> Queued(s) \/ s = t
<1>1. /\ items' \in Seq(Submissions)
      /\ Len(items') = Len(items) + 1
      /\ Len(items) \in Nat
      /\ \A i \in 1..Len(items) : items'[i] = items[i]
      /\ items'[Len(items) + 1] = t
  BY AppendProperties, LenProperties
<1>2. ASSUME NEW s PROVE Queued(s)' <=> Queued(s) \/ s = t
  <2>1. ASSUME Queued(s)' PROVE Queued(s) \/ s = t
    BY <1>1, <2>1 DEF Queued
  <2>2. ASSUME Queued(s) PROVE Queued(s)'
    BY <1>1, <2>2 DEF Queued
  <2>3. ASSUME s = t PROVE Queued(s)'
    BY <1>1, <2>3 DEF Queued
  <2> QED
    BY <2>1, <2>2, <2>3
<1> QED
  BY <1>1, <1>2

LEMMA PopUnqueues ==
  ASSUME items \in Seq(Submissions), items # <<>>, items' = Tail(items)
  PROVE  /\ items' \in Seq(Submissions)
         /\ Head(items) \in Submissions
         /\ \A s : Queued(s) => Queued(s)' \/ s = Head(items)
<1>1. /\ items' \in Seq(Submissions)
      /\ Head(items) \in Submissions
      /\ Len(items') = Len(items) - 1
      /\ Len(items) \in Nat
      /\ \A i \in 1..Len(items') : items'[i] = items[i + 1]
  BY HeadTailProperties, LenProperties
<1>2. ASSUME NEW s, Queued(s), s # Head(items) PROVE Queued(s)'
  <2>1. PICK i \in 1..Len(items) : items[i] = s
    BY <1>2 DEF Queued
  <2>2. i # 1
    BY <1>2, <2>1
  <2>3. i - 1 \in 1..Len(items') /\ items'[i - 1] = s
    BY <1>1, <2>1, <2>2
  <2> QED
    BY <2>3 DEF Queued
<1> QED
  BY <1>1, <1>2

LEMMA PopQueued ==
  ASSUME items \in Seq(Submissions), items # <<>>, items' = Tail(items)
  PROVE  Queued(Head(items)) /\ \A s : Queued(s)' => Queued(s)
<1>1. /\ Len(items') = Len(items) - 1
      /\ Len(items) \in Nat \ {0} /\ Head(items) = items[1]
      /\ \A i \in 1..Len(items') : items'[i] = items[i + 1]
  BY HeadTailProperties, LenProperties, EmptySeq
<1>2. ASSUME NEW s, Queued(s)' PROVE Queued(s)
  <2>1. PICK i \in 1..Len(items') : items'[i] = s
    BY <1>2 DEF Queued
  <2>2. i + 1 \in 1..Len(items) /\ items[i + 1] = s
    BY <1>1, <2>1
  <2> QED
    BY <2>2 DEF Queued
<1> QED
  BY <1>1, <1>2 DEF Queued

\* UPDATE keeps the status column typed.
LEMMA UpdatedType ==
  ASSUME TypeOK, NEW s, NEW v \in Live \cup Verdicts
  PROVE  Updated(s, v) \in [Submissions -> Live \cup Verdicts \cup Absent]
BY DEF Updated, TypeOK

\* The final write keeps the types and lets go of the submission.
LEMMA WriteResultTypes ==
  ASSUME TypeOK, InHand, NEW w \in Workers, wpc[w] \in Judging,
         NEW v \in Verdicts, WriteResult(w, v)
  PROVE  TypeOK' /\ InHand'
<1>1. status' \in [Submissions -> Live \cup Verdicts \cup Absent]
  BY UpdatedType DEF WriteResult, TypeOK
<1>2. faults' \in 0..MaxFaults /\ abandoned' \in SUBSET Submissions
  BY BoundsAssumption DEF WriteResult, Fault, TypeOK, InHand
<1> QED
  BY <1>1, <1>2, BoundsAssumption, NoSidAssumption
     DEF WriteResult, TypeOK, InHand, Q!TypeOK, queueVars, handlerVars, Judging

\* A step inside judge_one keeps the types and the submission in hand.
LEMMA GoToTypes ==
  ASSUME TypeOK, InHand, NEW w \in Workers, wpc[w] \in Judging,
         NEW pc \in Judging, GoTo(w, pc),
         status' \in [Submissions -> Live \cup Verdicts \cup Absent],
         UNCHANGED faults \/ Fault
  PROVE  TypeOK' /\ InHand'
<1>1. faults' \in 0..MaxFaults
  BY BoundsAssumption DEF Fault, TypeOK
<1> QED
  BY <1>1 DEF GoTo, TypeOK, InHand, Q!TypeOK, queueVars, handlerVars

LEMMA HandlerTypes ==
  ASSUME TypeOK, InHand, NEW h \in Handlers,
         \/ \E s \in Submissions : Submit(h, s) \/ RejudgeSelect(h, s)
         \/ Handler(h)
  PROVE  TypeOK' /\ InHand'
<1> USE DEF TypeOK, InHand, Q!TypeOK, queueVars, workerVars, boundVars
<1>1. ASSUME NEW s \in Submissions, Submit(h, s) PROVE TypeOK' /\ InHand'
  BY <1>1 DEF Submit, Live
<1>2. ASSUME NEW s \in Submissions, RejudgeSelect(h, s) PROVE TypeOK' /\ InHand'
  BY <1>2, BoundsAssumption DEF RejudgeSelect
<1>3. CASE RejudgeUpdate(h)
  BY <1>3, UpdatedType DEF RejudgeUpdate, Live
<1>4. CASE RejudgeFails(h)
  BY <1>4, BoundsAssumption, NoSidAssumption DEF RejudgeFails, Fault
<1>5. CASE HandlerPush(h)
  <2>1. items' \in Seq(Submissions)
    BY <1>5, PushQueues DEF HandlerPush, Q!Push
  <2>2. stop' = stop /\ phase' \in [Workers -> {"out", "check", "wait"}]
    BY <1>5 DEF HandlerPush, Q!Push, Q!NotifyOne, Q!Sleeping
  <2> QED
    BY <1>5, <2>1, <2>2, NoSidAssumption DEF HandlerPush
<1> QED
  BY <1>1, <1>2, <1>3, <1>4, <1>5 DEF Handler

LEMMA WorkerTypes ==
  ASSUME TypeOK, InHand, NEW w \in Workers, Worker(w) \/ Wake(w)
  PROVE  TypeOK' /\ InHand'
<1>1. CASE LoopTop(w)
  <2>1. Q!TypeOK'
    BY <1>1 DEF LoopTop, Q!EnterPop, Q!TypeOK, TypeOK, queueVars
  <2>2. \E pc \in {"pop", "off"} : wpc' = [wpc EXCEPT ![w] = pc]
    BY <1>1 DEF LoopTop
  <2> QED
    BY <1>1, <2>1, <2>2 DEF LoopTop, TypeOK, InHand, handlerVars, boundVars, Judging
<1>2. CASE Pop(w)
  <2>1. ASSUME NEW s \in Submissions, Q!PopTake(w, s)
        PROVE  items' \in Seq(Submissions)
    BY <2>1, PopUnqueues DEF Q!PopTake, TypeOK, Q!TypeOK
  <2>2. Q!TypeOK'
    BY <1>2, <2>1 DEF Pop, TypeOK, Q!TypeOK, Q!PopTake, Q!PopClosed, Q!PopWait
  <2>3. \/ \E s \in Submissions : /\ wpc' = [wpc EXCEPT ![w] = "start"]
                                  /\ wsid' = [wsid EXCEPT ![w] = s]
        \/ \E pc \in {"pop", "off"} : /\ wpc' = [wpc EXCEPT ![w] = pc]
                                     /\ UNCHANGED wsid
    BY <1>2 DEF Pop, TypeOK
  <2> QED
    BY <1>2, <2>2, <2>3 DEF Pop, TypeOK, InHand, handlerVars, boundVars, Judging
<1>3. CASE Wake(w)
  BY <1>3 DEF Wake, TypeOK, InHand, Q!TypeOK, Q!SpuriousWake, workerVars,
              handlerVars, boundVars
<1>4. ASSUME NEW from \in Judging, NEW v \in Live, NEW to \in Judging,
             Mark(w, from, v, to)
      PROVE  TypeOK' /\ InHand'
  <2>1. status' \in [Submissions -> Live \cup Verdicts \cup Absent]
    BY <1>4, UpdatedType DEF Mark, TypeOK
  <2> QED
    BY <1>4, <2>1, GoToTypes DEF Mark
<1>5. CASE SetCompiling(w) \/ SetRunning(w)
  BY <1>4, <1>5 DEF SetCompiling, SetRunning, Judging, Live
<1>6. CASE LoadSubmission(w) \/ LoadProblem(w) \/ Throw(w)
  <2>1. /\ status' \in [Submissions -> Live \cup Verdicts \cup Absent]
        /\ UNCHANGED faults \/ Fault
        /\ wpc[w] \in Judging
    BY <1>6 DEF LoadSubmission, LoadProblem, Throw, TypeOK, Judging
  <2>2. \E pc \in Judging : GoTo(w, pc)
    BY <1>6 DEF LoadSubmission, LoadProblem, Throw, Judging
  <2> QED
    BY <2>1, <2>2, GoToTypes
<1>7. CASE Compile(w)
  <2>1. ASSUME NEW v \in CompileVerdicts, WriteResult(w, v)
        PROVE  TypeOK' /\ InHand'
    BY <1>7, <2>1, WriteResultTypes DEF Compile, Judging, Verdicts
  <2>2. CASE UNCHANGED <<status, faults>> /\ GoTo(w, "mark")
    BY <1>7, <2>2, GoToTypes DEF Compile, Judging, TypeOK
  <2> QED
    BY <1>7, <2>1, <2>2 DEF Compile
<1>8. CASE ScanTests(w)
  <2>1. CASE WriteResult(w, "SYSTEM_ERROR")
    BY <1>8, <2>1, WriteResultTypes DEF ScanTests, Judging, Verdicts
  <2>2. CASE ~WriteResult(w, "SYSTEM_ERROR")
    <3>1. PICK n \in 1..MaxTests : /\ wleft' = [wleft EXCEPT ![w] = n]
                                   /\ wpc' = [wpc EXCEPT ![w] = "test"]
      BY <1>8, <2>2 DEF ScanTests
    <3>2. UNCHANGED <<status, items, stop, phase, running, wsid, hpc, hsid,
                      stopPc, rejudges, faults, crashes, abandoned>>
      BY <1>8, <2>2 DEF ScanTests, queueVars, handlerVars, boundVars
    <3> QED
      BY <1>8, <3>1, <3>2, BoundsAssumption
         DEF ScanTests, TypeOK, InHand, Q!TypeOK, Judging
  <2> QED
    BY <2>1, <2>2
<1>9. CASE PassTest(w)
  BY <1>9, BoundsAssumption
     DEF PassTest, TypeOK, InHand, Q!TypeOK, queueVars, handlerVars, boundVars
<1>10. CASE FinishTests(w) \/ GiveUp(w)
  <2>1. PICK v \in Verdicts : WriteResult(w, v)
    BY <1>10 DEF FinishTests, GiveUp, Verdicts
  <2> QED
    BY <1>10, <2>1, WriteResultTypes DEF FinishTests, GiveUp, Judging
<1> QED
  BY <1>1, <1>2, <1>3, <1>5, <1>6, <1>7, <1>8, <1>9, <1>10 DEF Worker

\* The stop sequence, deletions and a crash keep the types.
LEMMA ServerTypes ==
  ASSUME TypeOK, InHand,
         CascadeDelete \/ StopClearFlag \/ Stopping \/ CrashRestart
  PROVE  TypeOK' /\ InHand'
<1> USE DEF TypeOK, InHand, Q!TypeOK, queueVars, workerVars, handlerVars, boundVars
<1>1. CASE CascadeDelete
  BY <1>1 DEF CascadeDelete, Absent
<1>2. CASE StopClearFlag \/ Stopping
  BY <1>2 DEF StopClearFlag, Stopping, StopShutdown, StopJoin, CloseListener,
              StopVars, Q!Shutdown, Q!NotifyAll
<1>3. CASE CrashRestart
  <2>1. items' \in Seq(Submissions) /\ abandoned' \in SUBSET Submissions
    BY <1>3, EmptySeq DEF CrashRestart
  <2>2. InHand'
    BY <1>3, NoSidAssumption DEF CrashRestart, Judging
  <2>3. Q!TypeOK'
    BY <1>3, <2>1 DEF CrashRestart
  <2>4. /\ wpc' \in [Workers -> Judging \cup {"loop", "pop", "off"}]
        /\ wsid' \in [Workers -> Submissions \cup {NoSid}]
        /\ wleft' \in [Workers -> 0..MaxTests]
        /\ crashes' \in 0..MaxCrashes
    BY <1>3, BoundsAssumption DEF CrashRestart
  <2>5. /\ hpc' \in [Handlers -> {"idle", "update", "push"}]
        /\ hsid' \in [Handlers -> Submissions \cup {NoSid}]
    BY <1>3 DEF CrashRestart
  <2> QED
    BY <1>3, <2>1, <2>2, <2>3, <2>4, <2>5 DEF CrashRestart
<1> QED
  BY <1>1, <1>2, <1>3

LEMMA TypesStep == TypeOK /\ InHand /\ [Next]_vars => TypeOK' /\ InHand'
<1> SUFFICES ASSUME TypeOK, InHand, [Next]_vars PROVE TypeOK' /\ InHand'
  OBVIOUS
<1>1. CASE UNCHANGED vars
  BY <1>1 DEF vars, TypeOK, InHand, Q!TypeOK, queueVars, workerVars,
              handlerVars, boundVars
<1> QED
  BY <1>1, HandlerTypes, WorkerTypes, ServerTypes DEF Next

LEMMA InitTypes ==
  ASSUME Init PROVE TypeOK /\ InHand
<1>1. items \in Seq(Submissions)
  BY EmptySeq DEF Init, Q!Init
<1>2. InHand
  BY NoSidAssumption DEF Init, InHand, Judging
<1>3. Q!TypeOK
  BY <1>1 DEF Init, Q!Init, Q!TypeOK
<1>4. /\ wpc \in [Workers -> Judging \cup {"loop", "pop", "off"}]
      /\ wsid \in [Workers -> Submissions \cup {NoSid}]
      /\ wleft \in [Workers -> 0..MaxTests]
  BY BoundsAssumption DEF Init
<1>5. /\ hpc \in [Handlers -> {"idle", "update", "push"}]
      /\ hsid \in [Handlers -> Submissions \cup {NoSid}]
  BY DEF Init
<1> QED
  BY <1>2, <1>3, <1>4, <1>5, BoundsAssumption DEF Init, TypeOK, Absent

\* Every variable of the pipeline keeps its type, and a thread has an id in
\* hand exactly while it works on one.
THEOREM TypeInvariant == Spec => [](TypeOK /\ InHand)
<1>1. Init => TypeOK /\ InHand
  BY InitTypes
<1> QED
  BY <1>1, TypesStep, PTL DEF Spec
-----------------------------------------------------------------------------
(* NothingForgotten, in two halves.  Attended: a row that is live is safe,  *)
(* somebody has its id; every step that makes or leaves a row live keeps   *)
(* it safe.  InProgress: only a worker that judges a row shows progress.   *)

Safe(s) == Queued(s) \/ Owed(s) \/ Held(s) \/ s \in abandoned
Attended == \A s \in Submissions : status[s] \in Live => Safe(s)
Begun(s) == status[s] \in {"COMPILING", "RUNNING"}
InProgress == \A s \in Submissions : Begun(s) => Held(s) \/ s \in abandoned

\* UPDATE changes one row, and only when it is there.
LEMMA UpdatedRow ==
  ASSUME TypeOK, NEW t, NEW v, NEW s \in Submissions
  PROVE  Updated(t, v)[s] = IF s = t /\ Exists(s) THEN v ELSE status[s]
BY DEF Updated, TypeOK, Exists

\* A step of one worker inside judge_one takes nobody out of safety.
LEMMA GoToKeepsSafe ==
  ASSUME TypeOK, InHand, NEW w \in Workers, wpc[w] \in Judging,
         NEW pc \in Judging, GoTo(w, pc)
  PROVE  /\ \A s \in Submissions : Safe(s) => Safe(s)'
         /\ Held(wsid[w])'
<1>1. UNCHANGED <<items, hpc, hsid, wsid, abandoned>>
  BY DEF GoTo, queueVars, handlerVars
<1>2. \A x \in Workers : wpc[x] \in Judging => wpc'[x] \in Judging
  BY DEF GoTo, TypeOK
<1>3. ASSUME NEW s \in Submissions, Safe(s) PROVE Safe(s)'
  <2>1. CASE Held(s)
    BY <1>1, <1>2, <2>1 DEF Held, Safe
  <2>2. CASE Queued(s) \/ Owed(s) \/ s \in abandoned
    BY <1>1, <2>2 DEF Queued, Owed, Safe
  <2> QED
    BY <1>3, <2>1, <2>2 DEF Safe
<1>4. Held(wsid[w])'
  BY <1>1 DEF GoTo, Held, TypeOK
<1> QED
  BY <1>3, <1>4

\* The final write ends the row's judging or records that it failed; the other
\* rows keep what makes them safe.
LEMMA WriteResultSafe ==
  ASSUME TypeOK, InHand, Attended,
         NEW w \in Workers, wpc[w] \in Judging,
         NEW v \in Verdicts, WriteResult(w, v)
  PROVE  Attended'
<1> SUFFICES ASSUME NEW s \in Submissions, status'[s] \in Live
             PROVE  Safe(s)'
  BY DEF Attended, Safe
<1>1. UNCHANGED <<items, hpc, hsid>>
  BY DEF WriteResult, queueVars, handlerVars
<1>2. CASE s = wsid[w]
  <2>1. CASE status' = Updated(wsid[w], v)
    BY <1>2, <2>1, UpdatedRow, LiveIsNoVerdict DEF Exists
  <2>2. CASE abandoned' = abandoned \cup {wsid[w]}
    BY <1>2, <2>2 DEF Safe
  <2> QED
    BY <2>1, <2>2 DEF WriteResult
<1>3. CASE s # wsid[w]
  <2>1. status[s] \in Live /\ abandoned \subseteq abandoned'
    BY <1>3, UpdatedRow DEF WriteResult
  <2>2. Held(s) => Held(s)'
    BY <1>3 DEF Held, WriteResult, TypeOK
  <2> QED
    BY <1>1, <2>1, <2>2 DEF Attended, Queued, Owed, Safe
<1> QED
  BY <1>2, <1>3

LEMMA HandlerSafe ==
  ASSUME TypeOK, InHand, Attended, NEW h \in Handlers,
         \/ \E s \in Submissions : Submit(h, s) \/ RejudgeSelect(h, s)
         \/ Handler(h)
  PROVE  Attended'
<1> SUFFICES ASSUME NEW s \in Submissions, status'[s] \in Live
             PROVE  Safe(s)'
  BY DEF Attended, Safe
<1> USE DEF queueVars, workerVars
<1>1. ASSUME NEW t \in Submissions, Submit(h, t) PROVE Safe(s)'
  <2>1. CASE s = t
    BY <1>1, <2>1 DEF Submit, TypeOK, Owed, Safe
  <2>2. CASE s # t
    <3>1. Safe(s)
      BY <1>1, <2>2 DEF Submit, TypeOK, Attended, Safe
    <3>2. Owed(s) => Owed(s)'
      BY <1>1 DEF Submit, TypeOK, Owed
    <3> QED
      BY <1>1, <3>1, <3>2 DEF Submit, Queued, Held, Safe
  <2> QED
    BY <2>1, <2>2
<1>2. ASSUME NEW t \in Submissions, RejudgeSelect(h, t) PROVE Safe(s)'
  <2>1. Safe(s)
    BY <1>2 DEF RejudgeSelect, Attended, Safe
  <2>2. Owed(s) => Owed(s)'
    BY <1>2 DEF RejudgeSelect, TypeOK, Owed
  <2> QED
    BY <1>2, <2>1, <2>2 DEF RejudgeSelect, Queued, Held, Safe
<1>3. CASE RejudgeUpdate(h)
  <2>1. CASE s = hsid[h]
    BY <1>3, <2>1 DEF RejudgeUpdate, TypeOK, Owed, Safe
  <2>2. CASE s # hsid[h]
    <3>1. Safe(s)
      BY <1>3, <2>2, UpdatedRow DEF RejudgeUpdate, Attended, Safe
    <3>2. Owed(s) => Owed(s)'
      BY <1>3 DEF RejudgeUpdate, TypeOK, Owed
    <3> QED
      BY <1>3, <2>2, <3>1, <3>2 DEF RejudgeUpdate, Queued, Held, Safe
  <2> QED
    BY <2>1, <2>2
<1>4. CASE RejudgeFails(h)
  <2>1. Safe(s)
    BY <1>4 DEF RejudgeFails, Attended, Safe
  <2>2. Owed(s) => Owed(s)'
    BY <1>4 DEF RejudgeFails, TypeOK, Owed
  <2> QED
    BY <1>4, <2>1, <2>2 DEF RejudgeFails, Queued, Held, Safe
<1>5. CASE HandlerPush(h)
  <2>1. Safe(s)
    BY <1>5 DEF HandlerPush, Attended, Safe
  <2>2. hsid[h] \in Submissions /\ items' = Append(items, hsid[h])
    BY <1>5 DEF HandlerPush, InHand, Q!Push
  <2>3. Queued(s)' <=> Queued(s) \/ s = hsid[h]
    BY <2>2, PushQueues DEF TypeOK, Q!TypeOK
  <2>4. Owed(s) => Owed(s)' \/ s = hsid[h]
    BY <1>5 DEF HandlerPush, TypeOK, Owed
  <2> QED
    BY <1>5, <2>1, <2>3, <2>4 DEF HandlerPush, Held, Safe
<1> QED
  BY <1>1, <1>2, <1>3, <1>4, <1>5 DEF Handler

LEMMA WorkerSafe ==
  ASSUME TypeOK, InHand, Attended,
         NEW w \in Workers, Worker(w) \/ Wake(w)
  PROVE  Attended'
<1>1. CASE LoopTop(w) \/ Wake(w)
  <2>1. UNCHANGED <<status, items, hpc, hsid, wsid, abandoned>>
    BY <1>1 DEF LoopTop, Wake, Q!EnterPop, Q!SpuriousWake, queueVars,
                handlerVars, workerVars
  <2>2. \A x \in Workers : wpc[x] \in Judging => wpc'[x] \in Judging
    BY <1>1 DEF LoopTop, Wake, TypeOK, workerVars, Judging
  <2> QED
    BY <2>1, <2>2 DEF Attended, Safe, Queued, Owed, Held
<1>2. CASE Pop(w)
  <2> SUFFICES ASSUME NEW s \in Submissions, status'[s] \in Live PROVE Safe(s)'
    BY DEF Attended, Safe
  <2>1. UNCHANGED <<status, hpc, hsid, abandoned>> /\ Safe(s)
    BY <1>2 DEF Pop, handlerVars, Attended, Safe
  <2>2. Held(s) => Held(s)'
    BY <1>2 DEF Pop, TypeOK, Held, Judging
  <2>3. Queued(s) => Queued(s)' \/ Held(s)'
    <3>1. CASE UNCHANGED items
      BY <3>1 DEF Queued
    <3>2. ASSUME NEW t \in Submissions, Q!PopTake(w, t),
                 wpc' = [wpc EXCEPT ![w] = "start"],
                 wsid' = [wsid EXCEPT ![w] = t]
          PROVE  Queued(s) => Queued(s)' \/ Held(s)'
      <4>1. Queued(s) => Queued(s)' \/ s = t
        BY <3>2, PopUnqueues DEF Q!PopTake, TypeOK, Q!TypeOK
      <4>2. Held(t)'
        BY <3>2 DEF Held, TypeOK, Judging
      <4> QED
        BY <4>1, <4>2
    <3> QED
      BY <1>2, <3>1, <3>2 DEF Pop, Q!PopClosed, Q!PopWait
  <2> QED
    BY <2>1, <2>2, <2>3 DEF Owed, Safe
<1>3. ASSUME NEW from \in Judging, NEW v \in Live, NEW to \in Judging,
             Mark(w, from, v, to)
      PROVE  Attended'
  <2>1. GoTo(w, to) /\ wpc[w] \in Judging
    BY <1>3 DEF Mark
  <2>2. ASSUME NEW s \in Submissions, status'[s] \in Live PROVE Safe(s)'
    <3>1. CASE s = wsid[w]
      BY <2>1, <3>1, GoToKeepsSafe DEF GoTo, Safe
    <3>2. CASE s # wsid[w]
      <4>1. status[s] \in Live
        BY <1>3, <2>2, <3>2, UpdatedRow DEF Mark
      <4>2. Safe(s)
        BY <4>1 DEF Attended, Safe
      <4> QED
        BY <2>1, <4>2, GoToKeepsSafe
    <3> QED
      BY <3>1, <3>2
  <2> QED
    BY <2>2 DEF Attended, Safe
<1>4. CASE SetCompiling(w) \/ SetRunning(w)
  BY <1>3, <1>4 DEF SetCompiling, SetRunning, Judging, Live
<1>5. ASSUME NEW pc \in Judging, GoTo(w, pc), UNCHANGED status,
             wpc[w] \in Judging
      PROVE  Attended'
  BY <1>5, GoToKeepsSafe DEF Attended, Safe
<1>6. CASE LoadSubmission(w) \/ LoadProblem(w) \/ Throw(w)
  BY <1>5, <1>6 DEF LoadSubmission, LoadProblem, Throw, Judging
<1>7. CASE Compile(w)
  <2>1. ASSUME NEW v \in CompileVerdicts, WriteResult(w, v)
        PROVE  Attended'
    BY <1>7, <2>1, WriteResultSafe DEF Compile, Judging, Verdicts
  <2> QED
    BY <1>5, <1>7, <2>1 DEF Compile, Judging
<1>8. CASE ScanTests(w)
  <2>1. CASE WriteResult(w, "SYSTEM_ERROR")
    BY <1>8, <2>1, WriteResultSafe DEF ScanTests, Judging, Verdicts
  <2>2. CASE ~WriteResult(w, "SYSTEM_ERROR")
    <3>1. /\ UNCHANGED <<status, items, hpc, hsid, wsid, abandoned>>
          /\ wpc' = [wpc EXCEPT ![w] = "test"]
      BY <1>8, <2>2 DEF ScanTests, queueVars, handlerVars
    <3>2. \A x \in Workers : wpc[x] \in Judging => wpc'[x] \in Judging
      BY <3>1 DEF TypeOK, Judging
    <3> QED
      BY <3>1, <3>2 DEF Attended, Safe, Queued, Owed, Held
  <2> QED
    BY <2>1, <2>2
<1>9. CASE PassTest(w)
  BY <1>9 DEF PassTest, queueVars, handlerVars, Attended, Safe, Queued, Owed, Held
<1>10. CASE FinishTests(w) \/ GiveUp(w)
  <2>1. PICK v \in Verdicts : WriteResult(w, v)
    BY <1>10 DEF FinishTests, GiveUp, Verdicts
  <2> QED
    BY <1>10, <2>1, WriteResultSafe DEF FinishTests, GiveUp, Judging
<1> QED
  BY <1>1, <1>2, <1>4, <1>6, <1>7, <1>8, <1>9, <1>10 DEF Worker

LEMMA ServerSafe ==
  ASSUME TypeOK, InHand, Attended,
         CascadeDelete \/ StopClearFlag \/ Stopping \/ CrashRestart
  PROVE  Attended'
<1>1. CASE CascadeDelete
  <2>1. UNCHANGED <<items, hpc, hsid, wpc, wsid, abandoned>>
    BY <1>1 DEF CascadeDelete, queueVars, workerVars, handlerVars
  <2>2. \A s \in Submissions : status'[s] \in Live => status[s] \in Live
    BY <1>1, LiveIsNoVerdict DEF CascadeDelete, Absent
  <2> QED
    BY <2>1, <2>2 DEF Attended, Safe, Queued, Owed, Held
<1>2. CASE StopClearFlag \/ Stopping
  <2>1. UNCHANGED <<status, items, hpc, hsid, wpc, wsid, abandoned>>
    BY <1>2 DEF StopClearFlag, Stopping, StopShutdown, StopJoin, CloseListener,
                StopVars, Q!Shutdown, queueVars, workerVars, handlerVars
  <2> QED
    BY <2>1 DEF Attended, Safe, Queued, Owed, Held
<1>3. CASE CrashRestart
  BY <1>3 DEF CrashRestart, Attended, Safe
<1> QED
  BY <1>1, <1>2, <1>3

LEMMA AttendedStep ==
  ASSUME TypeOK, InHand, Attended, [Next]_vars
  PROVE  Attended'
<1>1. CASE UNCHANGED vars
  BY <1>1 DEF vars, queueVars, workerVars, handlerVars, Attended, Safe,
              Queued, Owed, Held
<1> QED
  BY <1>1, HandlerSafe, WorkerSafe, ServerSafe DEF Next

\* Only a worker that leaves judge_one takes a row out of hands.
LEMMA HeldStays ==
  ASSUME TypeOK, NEW s \in Submissions, Held(s),
         UNCHANGED wsid \/ \E w \in Workers :
            wpc[w] \notin Judging /\ \E t : wsid' = [wsid EXCEPT ![w] = t],
         \A x \in Workers : wpc[x] \in Judging => wpc'[x] \in Judging
  PROVE  Held(s)'
<1>1. PICK x \in Workers : wpc[x] \in Judging /\ wsid[x] = s
  BY DEF Held
<1>2. wpc'[x] \in Judging
  BY <1>1
<1>3. wsid'[x] = s
  BY <1>1 DEF TypeOK
<1> QED
  BY <1>2, <1>3 DEF Held

\* The two progress updates.
LEMMA MarkShowsProgress ==
  ASSUME TypeOK, InHand, InProgress, NEW w \in Workers, NEW from \in Judging,
         NEW v \in Live, NEW to \in Judging, Mark(w, from, v, to)
  PROVE  InProgress'
<1>1. GoTo(w, to) /\ wpc[w] \in Judging
  BY DEF Mark
<1>2. UNCHANGED <<wsid, abandoned>> /\ wpc' = [wpc EXCEPT ![w] = to]
  BY <1>1 DEF GoTo
<1>3. \A x \in Workers : wpc[x] \in Judging => wpc'[x] \in Judging
  BY <1>2 DEF TypeOK
<1>4. ASSUME NEW s \in Submissions, Begun(s)' PROVE Held(s)' \/ s \in abandoned'
  <2>1. CASE s = wsid[w]
    BY <1>1, <1>2, <1>3, <2>1 DEF Held
  <2>2. CASE s # wsid[w]
    <3>1. Begun(s)
      BY <1>4, <2>2, UpdatedRow DEF Mark, Begun
    <3> QED
      BY <1>2, <1>3, <3>1, HeldStays DEF InProgress
  <2> QED
    BY <2>1, <2>2
<1> QED
  BY <1>4 DEF InProgress

\* The final write leaves no progress behind, unless it fails.
LEMMA WriteEndsProgress ==
  ASSUME TypeOK, InHand, InProgress, NEW w \in Workers, wpc[w] \in Judging,
         NEW v \in Verdicts, WriteResult(w, v)
  PROVE  InProgress'
<1> SUFFICES ASSUME NEW s \in Submissions, Begun(s)'
             PROVE  Held(s)' \/ s \in abandoned'
  BY DEF InProgress
<1>1. CASE s = wsid[w]
  <2>1. CASE status' = Updated(wsid[w], v)
    <3>1. v \notin {"COMPILING", "RUNNING"}
      BY LiveIsNoVerdict DEF Live
    <3> QED
      BY <1>1, <2>1, <3>1, UpdatedRow DEF Exists, Absent, Begun
  <2>2. CASE abandoned' = abandoned \cup {wsid[w]}
    BY <1>1, <2>2
  <2> QED
    BY <2>1, <2>2 DEF WriteResult
<1>2. CASE s # wsid[w]
  <2>1. Begun(s) /\ abandoned \subseteq abandoned'
    BY <1>2, UpdatedRow DEF WriteResult, Begun
  <2>2. Held(s) => Held(s)'
    BY <1>2 DEF Held, WriteResult, TypeOK
  <2> QED
    BY <2>1, <2>2 DEF InProgress
<1> QED
  BY <1>1, <1>2

\* Everything else leaves the rows in progress alone, or ends their progress.
LEMMA OthersShowNoProgress ==
  ASSUME TypeOK, InHand, InProgress,
         \A s \in Submissions : Begun(s)' => Begun(s) \/ s \in abandoned',
         \A s \in Submissions : Begun(s)' /\ s \in abandoned => s \in abandoned',
         UNCHANGED wsid \/ \E w \in Workers :
            wpc[w] \notin Judging /\ \E t : wsid' = [wsid EXCEPT ![w] = t],
         \A x \in Workers : wpc[x] \in Judging => wpc'[x] \in Judging
  PROVE  InProgress'
BY HeldStays DEF InProgress

LEMMA HandlersShowNoProgress ==
  ASSUME TypeOK, InHand, InProgress, NEW h \in Handlers,
         \/ \E s \in Submissions : Submit(h, s) \/ RejudgeSelect(h, s)
         \/ Handler(h)
  PROVE  InProgress'
<1> USE DEF workerVars
<1>1. UNCHANGED <<wpc, wsid>>
  BY DEF Submit, RejudgeSelect, Handler, RejudgeUpdate, RejudgeFails, HandlerPush
<1>2. ASSUME NEW s \in Submissions, Begun(s)'
      PROVE  Begun(s) /\ (s \in abandoned => s \in abandoned')
  <2>1. ASSUME NEW t \in Submissions, Submit(h, t)
        PROVE  Begun(s) /\ (s \in abandoned => s \in abandoned')
    BY <1>2, <2>1 DEF Submit, TypeOK, Begun
  <2>2. ASSUME NEW t \in Submissions, RejudgeSelect(h, t)
        PROVE  Begun(s) /\ (s \in abandoned => s \in abandoned')
    BY <1>2, <2>2 DEF RejudgeSelect, Begun
  <2>3. CASE RejudgeUpdate(h)
    <3>1. s # hsid[h] \/ ~Exists(s)
      BY <1>2, <2>3, UpdatedRow DEF RejudgeUpdate, Begun
    <3>2. status'[s] = status[s]
      BY <2>3, <3>1, UpdatedRow DEF RejudgeUpdate
    <3>3. Begun(s) /\ Exists(s)
      BY <1>2, <3>2 DEF Begun, Exists, Absent
    <3> QED
      BY <2>3, <3>1, <3>3 DEF RejudgeUpdate
  <2>4. CASE RejudgeFails(h) \/ HandlerPush(h)
    BY <1>2, <2>4 DEF RejudgeFails, HandlerPush, Begun
  <2> QED
    BY <2>1, <2>2, <2>3, <2>4 DEF Handler
<1> QED
  BY <1>1, <1>2, OthersShowNoProgress

LEMMA WorkersShowProgress ==
  ASSUME TypeOK, InHand, InProgress,
         NEW w \in Workers, Worker(w) \/ Wake(w)
  PROVE  InProgress'
<1>1. ASSUME UNCHANGED <<status, abandoned>>,
             \/ UNCHANGED wsid
             \/ wpc[w] \notin Judging /\ \E t : wsid' = [wsid EXCEPT ![w] = t],
             \A x \in Workers : wpc[x] \in Judging => wpc'[x] \in Judging
      PROVE  InProgress'
  BY <1>1, OthersShowNoProgress DEF Begun
<1>2. CASE LoopTop(w) \/ Wake(w) \/ Pop(w)
  <2>1. UNCHANGED <<status, abandoned>> /\ wpc[w] \notin Judging
    BY <1>2 DEF LoopTop, Wake, Pop, Judging
  <2>2. UNCHANGED wsid \/ \E t : wsid' = [wsid EXCEPT ![w] = t]
    BY <1>2 DEF LoopTop, Wake, Pop, workerVars
  <2>3. \A x \in Workers : wpc[x] \in Judging => wpc'[x] \in Judging
    BY <1>2, <2>1 DEF LoopTop, Wake, Pop, workerVars, TypeOK
  <2> QED
    BY <1>1, <2>1, <2>2, <2>3
<1>3. CASE SetCompiling(w) \/ SetRunning(w)
  BY <1>3, MarkShowsProgress DEF SetCompiling, SetRunning, Judging, Live
<1>4. ASSUME NEW pc \in Judging, GoTo(w, pc), UNCHANGED status, wpc[w] \in Judging
      PROVE  InProgress'
  <2>1. \A x \in Workers : wpc[x] \in Judging => wpc'[x] \in Judging
    BY <1>4 DEF GoTo, TypeOK
  <2> QED
    BY <1>1, <1>4, <2>1 DEF GoTo
<1>5. ASSUME NEW v \in Verdicts, WriteResult(w, v), wpc[w] \in Judging
      PROVE  InProgress'
  BY <1>5, WriteEndsProgress
<1>6. CASE LoadSubmission(w) \/ LoadProblem(w) \/ Throw(w)
  BY <1>4, <1>6 DEF LoadSubmission, LoadProblem, Throw, Judging
<1>7. CASE Compile(w)
  <2>1. ASSUME NEW v \in CompileVerdicts, WriteResult(w, v) PROVE InProgress'
    BY <1>5, <1>7, <2>1 DEF Compile, Judging, Verdicts
  <2> QED
    BY <1>4, <1>7, <2>1 DEF Compile, Judging
<1>8. CASE ScanTests(w)
  <2>1. CASE WriteResult(w, "SYSTEM_ERROR")
    BY <1>5, <1>8, <2>1 DEF ScanTests, Judging, Verdicts
  <2>2. CASE ~WriteResult(w, "SYSTEM_ERROR")
    <3>1. UNCHANGED <<status, wsid, abandoned>> /\ wpc' = [wpc EXCEPT ![w] = "test"]
      BY <1>8, <2>2 DEF ScanTests
    <3>2. \A x \in Workers : wpc[x] \in Judging => wpc'[x] \in Judging
      BY <3>1 DEF TypeOK, Judging
    <3> QED
      BY <1>1, <3>1, <3>2
  <2> QED
    BY <2>1, <2>2
<1>9. CASE PassTest(w)
  BY <1>1, <1>9 DEF PassTest
<1>10. CASE FinishTests(w) \/ GiveUp(w)
  <2>1. PICK v \in Verdicts : WriteResult(w, v)
    BY <1>10 DEF FinishTests, GiveUp, Verdicts
  <2> QED
    BY <1>5, <1>10, <2>1 DEF FinishTests, GiveUp, Judging
<1> QED
  BY <1>2, <1>3, <1>6, <1>7, <1>8, <1>9, <1>10 DEF Worker

LEMMA ServerShowsNoProgress ==
  ASSUME TypeOK, InHand, InProgress,
         CascadeDelete \/ StopClearFlag \/ Stopping \/ CrashRestart
  PROVE  InProgress'
<1>1. CASE CascadeDelete
  <2>1. UNCHANGED <<wpc, wsid, abandoned>>
    BY <1>1 DEF CascadeDelete, workerVars
  <2>2. \A s \in Submissions : Begun(s)' => Begun(s)
    BY <1>1 DEF CascadeDelete, Begun
  <2> QED
    BY <2>1, <2>2, OthersShowNoProgress
<1>2. CASE StopClearFlag \/ Stopping
  <2>1. UNCHANGED <<status, wpc, wsid, abandoned>>
    BY <1>2 DEF StopClearFlag, Stopping, StopShutdown, StopJoin, CloseListener,
                StopVars, workerVars
  <2> QED
    BY <2>1, OthersShowNoProgress DEF Begun
<1>3. CASE CrashRestart
  BY <1>3 DEF CrashRestart, InProgress, Begun, Live
<1> QED
  BY <1>1, <1>2, <1>3

LEMMA InProgressStep ==
  ASSUME TypeOK, InHand, InProgress, [Next]_vars
  PROVE  InProgress'
<1>1. CASE UNCHANGED vars
  BY <1>1, OthersShowNoProgress DEF vars, workerVars, Begun
<1> QED
  BY <1>1, HandlersShowNoProgress, WorkersShowProgress, ServerShowsNoProgress DEF Next

\* No step of the pipeline forgets a submission: a row in progress is in a
\* worker's hands, a PENDING one has its id with a handler, in the queue or
\* with a worker, unless its final write failed or a crash caught it.
THEOREM NothingIsForgotten == Spec => []NothingForgotten
<1>1. Init => Attended /\ InProgress
  BY DEF Init, Attended, InProgress, Begun, Live
<1>2. TypeOK /\ InHand /\ Attended /\ InProgress /\ [Next]_vars
        => Attended' /\ InProgress'
  BY AttendedStep, InProgressStep
<1>3. Attended /\ InProgress => NothingForgotten
  BY DEF Attended, InProgress, NothingForgotten, Safe, Begun, Live
<1> QED
  BY <1>1, <1>2, <1>3, TypeInvariant, PTL DEF Spec
-----------------------------------------------------------------------------
(* How many requests are outstanding for a submission: what each step does *)
(* to the places that hold one.                                            *)

Outstanding(s) == Cardinality(Places(s))

LEMMA PlaceIs ==
  ASSUME NEW s, NEW p
  PROVE  p \in Places(s) <=>
           \/ \E i \in 1..Len(items) : p = <<"queue", i>> /\ items[i] = s
           \/ \E h \in Handlers :
                p = <<"handler", h>> /\ hpc[h] = "push" /\ hsid[h] = s
           \/ \E w \in Workers :
                p = <<"worker", w>> /\ wpc[w] \in Judging /\ wsid[w] = s
BY DEF Places

LEMMA PlacesFinite ==
  ASSUME TypeOK, NEW s
  PROVE  IsFiniteSet(Places(s)) /\ Outstanding(s) \in Nat
<1> DEFINE All == ({"queue"} \X (1..Len(items))) \cup ({"handler"} \X Handlers)
                     \cup ({"worker"} \X Workers)
<1>1. Len(items) \in Nat
  BY LenProperties DEF TypeOK, Q!TypeOK
<1>2. IsFiniteSet(1..Len(items))
  BY <1>1, FS_Interval
<1>3. /\ IsFiniteSet({"queue"} \X (1..Len(items)))
      /\ IsFiniteSet({"handler"} \X Handlers)
      /\ IsFiniteSet({"worker"} \X Workers)
  BY <1>2, FS_Singleton, FS_Product, HandlersAssumption, WorkersAssumption
<1>4. IsFiniteSet(All)
  BY <1>3, FS_Union
<1>5. Places(s) \subseteq All
  BY DEF Places
<1> QED
  BY <1>4, <1>5, FS_Subset, FS_CardinalityType DEF Outstanding

\* A step that moves no id keeps every place.
LEMMA SamePlaces ==
  ASSUME NEW s, UNCHANGED items,
         \A h \in Handlers :
            (hpc'[h] = "push" /\ hsid'[h] = s) <=> (hpc[h] = "push" /\ hsid[h] = s),
         \A w \in Workers :
            (wpc'[w] \in Judging /\ wsid'[w] = s) <=> (wpc[w] \in Judging /\ wsid[w] = s)
  PROVE  Places(s)' = Places(s)
BY DEF Places

\* A handler that has written its row owes one more push.
LEMMA RequestAdds ==
  ASSUME TypeOK, NEW h \in Handlers, hpc[h] # "push", NEW t \in Submissions,
         UNCHANGED <<items, wpc, wsid>>,
         hpc' = [hpc EXCEPT ![h] = "push"], hsid' = [hsid EXCEPT ![h] = t],
         NEW s
  PROVE  Outstanding(s)' = IF s = t THEN Outstanding(s) + 1 ELSE Outstanding(s)
<1>1. CASE s = t
  <2>1. Places(s)' = Places(s) \cup {<<"handler", h>>}
    <3>1. ASSUME NEW p PROVE p \in Places(s)' <=> p \in Places(s) \/ p = <<"handler", h>>
      BY <1>1 DEF Places, TypeOK
    <3> QED
      BY <3>1
  <2>2. <<"handler", h>> \notin Places(s)
    BY DEF Places
  <2> QED
    BY <1>1, <2>1, <2>2, PlacesFinite, FS_AddElement DEF Outstanding
<1>2. CASE s # t
  <2>1. Places(s)' = Places(s)
    BY <1>2, SamePlaces DEF TypeOK
  <2> QED
    BY <1>2, <2>1 DEF Outstanding
<1> QED
  BY <1>1, <1>2

\* The push takes the request from the handler to the end of the queue.
LEMMA PushKeepsRequest ==
  ASSUME TypeOK, InHand, NEW h \in Handlers, HandlerPush(h), NEW s
  PROVE  Outstanding(s)' = Outstanding(s)
<1> DEFINE t == hsid[h]
           n == Len(items) + 1
<1>1. /\ t \in Submissions /\ hpc[h] = "push"
      /\ items' = Append(items, t)
      /\ UNCHANGED <<wpc, wsid>>
      /\ \A k \in Handlers :
            (hpc'[k] = "push" /\ hsid'[k] = s) <=>
               (k # h /\ hpc[k] = "push" /\ hsid[k] = s)
  BY DEF HandlerPush, InHand, Q!Push, workerVars, TypeOK
<1>2. /\ Len(items) \in Nat /\ Len(items') = n
      /\ \A i \in 1..Len(items) : items'[i] = items[i]
      /\ items'[n] = t
  BY <1>1, AppendProperties, LenProperties DEF TypeOK, Q!TypeOK
<1>3. CASE s = t
  <2>1. Places(s)' = (Places(s) \ {<<"handler", h>>}) \cup {<<"queue", n>>}
    <3>1. ASSUME NEW i
          PROVE  (i \in 1..Len(items') /\ items'[i] = s) <=>
                    ((i \in 1..Len(items) /\ items[i] = s) \/ i = n)
      BY <1>2, <1>3
    <3>2. ASSUME NEW p
          PROVE  p \in Places(s)' <=>
                    (p \in Places(s) /\ p # <<"handler", h>>) \/ p = <<"queue", n>>
      BY <1>1, <3>1 DEF Places
    <3> QED
      BY <3>2
  <2>2. <<"handler", h>> \in Places(s)
    BY <1>1, <1>3 DEF Places
  <2>3. <<"queue", n>> \notin Places(s)
    BY <1>2 DEF Places
  <2> QED
    <3> DEFINE R == Places(s) \ {<<"handler", h>>}
    <3>1. IsFiniteSet(Places(s)) /\ Cardinality(Places(s)) \in Nat
      BY PlacesFinite DEF Outstanding
    <3>2. IsFiniteSet(R) /\ Cardinality(R) = Cardinality(Places(s)) - 1
      BY <2>2, <3>1, FS_RemoveElement
    <3>3. Cardinality(R \cup {<<"queue", n>>}) = Cardinality(R) + 1
      BY <2>3, <3>2, FS_AddElement
    <3> QED
      BY <2>1, <3>1, <3>2, <3>3 DEF Outstanding
<1>4. CASE s # t
  <2>1. ASSUME NEW i
        PROVE  (i \in 1..Len(items') /\ items'[i] = s) <=>
                  (i \in 1..Len(items) /\ items[i] = s)
    BY <1>2, <1>4
  <2>2. ASSUME NEW p PROVE p \in Places(s)' <=> p \in Places(s)
    BY <1>1, <1>4, <2>1 DEF Places
  <2>3. Places(s)' = Places(s)
    BY <2>2
  <2> QED
    BY <2>3 DEF Outstanding
<1> QED
  BY <1>3, <1>4

\* pop takes the head from the queue into the worker's hand; the other
\* requests move up by one position.
LEMMA PopKeepsRequest ==
  ASSUME TypeOK, InHand, NEW w \in Workers, wpc[w] = "pop",
         NEW t \in Submissions, Q!PopTake(w, t),
         wpc' = [wpc EXCEPT ![w] = "start"], wsid' = [wsid EXCEPT ![w] = t],
         UNCHANGED <<hpc, hsid>>, NEW s
  PROVE  Outstanding(s)' = Outstanding(s)
<1> DEFINE f == [p \in Places(s) |->
                    IF p[1] = "queue"
                    THEN IF p[2] = 1 THEN <<"worker", w>> ELSE <<"queue", p[2] - 1>>
                    ELSE p]
           New == Places(s)'
<1>1. /\ Len(items) \in Nat \ {0} /\ Len(items') = Len(items) - 1
      /\ items[1] = t
      /\ \A i \in 1..Len(items') : items'[i] = items[i + 1]
  <2>1. items # <<>> /\ items \in Seq(Submissions) /\ items' = Tail(items)
    BY DEF Q!PopTake, TypeOK, Q!TypeOK
  <2>2. Len(items) \in Nat /\ Len(items) # 0
    BY <2>1, LenProperties, EmptySeq
  <2> QED
    BY <2>1, <2>2, HeadTailProperties DEF Q!PopTake
<1>2. /\ wpc'[w] \in Judging /\ wsid'[w] = t /\ wpc[w] \notin Judging
      /\ \A x \in Workers \ {w} : wpc'[x] = wpc[x] /\ wsid'[x] = wsid[x]
  BY DEF TypeOK, Judging
<1>3. ASSUME NEW p
      PROVE  p \in New <=>
               \/ \E i \in 2..Len(items) : p = <<"queue", i - 1>> /\ items[i] = s
               \/ \E h \in Handlers :
                    p = <<"handler", h>> /\ hpc[h] = "push" /\ hsid[h] = s
               \/ \E x \in Workers :
                    p = <<"worker", x>> /\ wpc[x] \in Judging /\ wsid[x] = s
               \/ p = <<"worker", w>> /\ t = s
  <2>1. (\E i \in 1..Len(items') : p = <<"queue", i>> /\ items'[i] = s) <=>
          (\E i \in 2..Len(items) : p = <<"queue", i - 1>> /\ items[i] = s)
    <3>1. ASSUME NEW i \in 1..Len(items'), p = <<"queue", i>>, items'[i] = s
          PROVE  \E j \in 2..Len(items) : p = <<"queue", j - 1>> /\ items[j] = s
      <4>1. i + 1 \in 2..Len(items) /\ (i + 1) - 1 = i
        BY <1>1
      <4> QED
        BY <1>1, <3>1, <4>1
    <3>2. ASSUME NEW i \in 2..Len(items), p = <<"queue", i - 1>>, items[i] = s
          PROVE  \E j \in 1..Len(items') : p = <<"queue", j>> /\ items'[j] = s
      <4>1. i - 1 \in 1..Len(items') /\ (i - 1) + 1 = i
        BY <1>1
      <4>2. items'[i - 1] = s
        BY <1>1, <3>2, <4>1
      <4> QED
        BY <3>2, <4>1, <4>2
    <3> QED
      BY <3>1, <3>2
  <2> QED
    BY <1>2, <2>1 DEF Places
<1>4. f \in [Places(s) -> New]
  <2> SUFFICES ASSUME NEW p \in Places(s) PROVE f[p] \in New
    OBVIOUS
  <2>1. ASSUME NEW i \in 1..Len(items), p = <<"queue", i>>, items[i] = s
        PROVE  f[p] \in New
    BY <1>1, <1>3, <2>1
  <2>2. ASSUME p[1] # "queue" PROVE f[p] = p
    BY <2>2
  <2> QED
    BY <1>3, <2>1, <2>2, PlaceIs
<1>5. ASSUME NEW p \in Places(s), NEW q \in Places(s), f[p] = f[q] PROVE p = q
  BY <1>1, <1>2, <1>5, PlaceIs
<1>6. ASSUME NEW q \in New PROVE \E p \in Places(s) : f[p] = q
  <2>1. ASSUME NEW i \in 2..Len(items), q = <<"queue", i - 1>>, items[i] = s
        PROVE  \E p \in Places(s) : f[p] = q
    <3>1. <<"queue", i>> \in Places(s) /\ i # 1
      BY <2>1, <1>1 DEF Places
    <3> QED
      BY <2>1, <3>1
  <2>2. ASSUME q = <<"worker", w>>, t = s PROVE \E p \in Places(s) : f[p] = q
    <3>1. <<"queue", 1>> \in Places(s)
      BY <1>1, <2>2 DEF Places
    <3> QED
      BY <2>2, <3>1
  <2>3. ASSUME q \in Places(s), q[1] # "queue" PROVE \E p \in Places(s) : f[p] = q
    BY <2>3
  <2> QED
    BY <1>3, <2>1, <2>2, <2>3, PlaceIs
<1>7. f \in Bijection(Places(s), New)
  BY <1>4, <1>5, <1>6, Fun_IsBij
<1>8. ExistsBijection(Places(s), New)
  BY <1>7 DEF ExistsBijection
<1> QED
  BY <1>8, PlacesFinite, FS_Bijection DEF Outstanding

\* The final write, or its failure, ends one outstanding request.
LEMMA WriteEndsRequest ==
  ASSUME TypeOK, InHand, NEW w \in Workers, wpc[w] \in Judging,
         NEW v, WriteResult(w, v), NEW s
  PROVE  /\ s = wsid[w] => Outstanding(s) > 0
         /\ Outstanding(s)' = IF s = wsid[w] THEN Outstanding(s) - 1 ELSE Outstanding(s)
<1>1. /\ UNCHANGED <<items, hpc, hsid>>
      /\ \A x \in Workers :
            (wpc'[x] \in Judging /\ wsid'[x] = s) <=>
               (x # w /\ wpc[x] \in Judging /\ wsid[x] = s)
  BY DEF WriteResult, queueVars, handlerVars, TypeOK, Judging
<1>2. CASE s = wsid[w]
  <2>1. Places(s)' = Places(s) \ {<<"worker", w>>}
    <3>1. ASSUME NEW p PROVE p \in Places(s)' <=> p \in Places(s) /\ p # <<"worker", w>>
      BY <1>1 DEF Places
    <3> QED
      BY <3>1
  <2>2. <<"worker", w>> \in Places(s)
    BY <1>2 DEF Places
  <2>3. Outstanding(s) \in Nat /\ Outstanding(s) # 0
    BY <2>2, PlacesFinite, FS_EmptySet DEF Outstanding
  <2> QED
    <3>1. Cardinality(Places(s) \ {<<"worker", w>>}) = Cardinality(Places(s)) - 1
      BY <2>2, PlacesFinite, FS_RemoveElement
    <3> QED
      BY <1>2, <2>1, <2>3, <3>1 DEF Outstanding
<1>3. CASE s # wsid[w]
  <2>1. Places(s)' = Places(s)
    BY <1>1, <1>3, SamePlaces
  <2> QED
    BY <1>3, <2>1 DEF Outstanding
<1> QED
  BY <1>2, <1>3

\* The steps of judge_one before its final write hold on to the request.
LEMMA GoToKeepsRequest ==
  ASSUME TypeOK, NEW w \in Workers, wpc[w] \in Judging, NEW pc \in Judging,
         GoTo(w, pc), NEW s
  PROVE  Outstanding(s)' = Outstanding(s)
<1>1. Places(s)' = Places(s)
  BY SamePlaces DEF GoTo, queueVars, handlerVars, TypeOK
<1> QED
  BY <1>1 DEF Outstanding

\* So do the loop, a wakeup, the test points, a deletion and the stop sequence.
LEMMA OthersKeepRequest ==
  ASSUME TypeOK, InHand, NEW s,
         \/ \E w \in Workers : \/ LoopTop(w) \/ Wake(w) \/ PassTest(w)
                              \/ (ScanTests(w) /\ wpc'[w] = "test")
                              \/ (Pop(w) /\ wpc'[w] # "start")
         \/ \E h \in Handlers : RejudgeFails(h)
         \/ \E h \in Handlers, u \in Submissions : RejudgeSelect(h, u)
         \/ CascadeDelete \/ StopClearFlag \/ Stopping \/ UNCHANGED vars
  PROVE  Outstanding(s)' = Outstanding(s)
<1> SUFFICES Places(s)' = Places(s)
  BY DEF Outstanding
<1> USE DEF queueVars, workerVars, handlerVars, TypeOK
<1>1. ASSUME NEW w \in Workers, LoopTop(w) \/ Wake(w) \/ PassTest(w)
      PROVE  Places(s)' = Places(s)
  BY <1>1, SamePlaces DEF LoopTop, Wake, PassTest, Q!EnterPop, Q!SpuriousWake, Judging
<1>2. ASSUME NEW w \in Workers, ScanTests(w), wpc'[w] = "test"
      PROVE  Places(s)' = Places(s)
  BY <1>2, SamePlaces DEF ScanTests, WriteResult, Judging
<1>3. ASSUME NEW w \in Workers, Pop(w), wpc'[w] # "start"
      PROVE  Places(s)' = Places(s)
  BY <1>3, SamePlaces DEF Pop, Q!PopClosed, Q!PopWait, Judging
<1>4. ASSUME NEW h \in Handlers, RejudgeFails(h) PROVE Places(s)' = Places(s)
  BY <1>4, SamePlaces DEF RejudgeFails
<1>5. ASSUME NEW h \in Handlers, NEW u \in Submissions, RejudgeSelect(h, u)
      PROVE  Places(s)' = Places(s)
  BY <1>5, SamePlaces DEF RejudgeSelect
<1>6. CASE CascadeDelete \/ StopClearFlag \/ Stopping \/ UNCHANGED vars
  BY <1>6, SamePlaces DEF CascadeDelete, StopClearFlag, Stopping, StopShutdown,
       StopJoin, CloseListener, StopVars, Q!Shutdown, vars
<1> QED
  BY <1>1, <1>2, <1>3, <1>4, <1>5, <1>6

\* A crash loses every request that was in memory.
LEMMA CrashDropsRequests ==
  ASSUME CrashRestart, NEW s
  PROVE  Places(s)' = {} /\ Outstanding(s)' = 0
<1>1. Places(s)' = {}
  BY DEF CrashRestart, Places, Judging
<1> QED
  BY <1>1, FS_EmptySet DEF Outstanding

\* What a step does to the outstanding requests: a handler that has written
\* its row adds one, a final write ends one, a crash ends all, and no other
\* step changes any.
Adds(t) ==
  \A s \in Submissions :
     Outstanding(s)' = IF s = t THEN Outstanding(s) + 1 ELSE Outstanding(s)
Ends(t) ==
  /\ Outstanding(t) > 0
  /\ \A s \in Submissions :
        Outstanding(s)' = IF s = t THEN Outstanding(s) - 1 ELSE Outstanding(s)
Keeps == \A s \in Submissions : Outstanding(s)' = Outstanding(s)

\* A step of a worker inside judge_one that keeps its submission.
Advances(w) ==
  /\ wpc[w] \in Judging
  /\ \E pc \in Judging : GoTo(w, pc)
  /\ \/ UNCHANGED status
     \/ \E v \in {"COMPILING", "RUNNING"} : status' = Updated(wsid[w], v)

\* A final write of a worker.
Finishes(w, v) == wpc[w] \in Judging /\ WriteResult(w, v)

\* Every other step leaves the table alone or deletes rows.
Bystander ==
  \/ \E w \in Workers : \/ LoopTop(w) \/ Wake(w) \/ PassTest(w) \/ Pop(w)
                       \/ (ScanTests(w) /\ wpc'[w] = "test")
  \/ \E h \in Handlers : RejudgeFails(h) \/ HandlerPush(h)
  \/ \E h \in Handlers, u \in Submissions : RejudgeSelect(h, u)
  \/ CascadeDelete \/ StopClearFlag \/ Stopping \/ UNCHANGED vars

LEMMA WorkerCases ==
  ASSUME TypeOK, InHand, NEW w \in Workers, Worker(w)
  PROVE  Advances(w) \/ (\E v \in Verdicts : Finishes(w, v)) \/ Bystander
<1>1. CASE LoopTop(w) \/ Pop(w) \/ PassTest(w)
  BY <1>1 DEF Bystander
<1>2. CASE SetCompiling(w) \/ SetRunning(w)
  BY <1>2 DEF SetCompiling, SetRunning, Mark, Advances, Judging
<1>3. CASE LoadSubmission(w) \/ LoadProblem(w) \/ Throw(w)
  BY <1>3 DEF LoadSubmission, LoadProblem, Throw, Advances, Judging
<1>4. CASE Compile(w)
  BY <1>4 DEF Compile, Advances, Finishes, Judging, Verdicts
<1>5. CASE ScanTests(w)
  <2>1. CASE WriteResult(w, "SYSTEM_ERROR")
    BY <1>5, <2>1 DEF ScanTests, Finishes, Judging, Verdicts
  <2>2. CASE ~WriteResult(w, "SYSTEM_ERROR")
    BY <1>5, <2>2 DEF ScanTests, Bystander, TypeOK
  <2> QED
    BY <2>1, <2>2
<1>6. CASE FinishTests(w) \/ GiveUp(w)
  BY <1>6 DEF FinishTests, GiveUp, Finishes, Judging, Verdicts
<1> QED
  BY <1>1, <1>2, <1>3, <1>4, <1>5, <1>6 DEF Worker

LEMMA StepCases ==
  ASSUME TypeOK, InHand, [Next]_vars
  PROVE  \/ \E h \in Handlers, t \in Submissions : Submit(h, t)
         \/ \E h \in Handlers : RejudgeUpdate(h)
         \/ \E w \in Workers : Advances(w)
         \/ \E w \in Workers, v \in Verdicts : Finishes(w, v)
         \/ CrashRestart
         \/ Bystander
<1>1. ASSUME NEW w \in Workers, Worker(w)
      PROVE  Advances(w) \/ (\E v \in Verdicts : Finishes(w, v)) \/ Bystander
  BY <1>1, WorkerCases
<1>2. ASSUME NEW h \in Handlers, Handler(h) PROVE RejudgeUpdate(h) \/ Bystander
  BY <1>2 DEF Handler, Bystander
<1> QED
  BY <1>1, <1>2 DEF Next, Bystander

LEMMA RequestSteps ==
  ASSUME TypeOK, InHand
  PROVE  /\ \A h \in Handlers, t \in Submissions : Submit(h, t) => Adds(t)
         /\ \A h \in Handlers : RejudgeUpdate(h) => Adds(hsid[h]) /\ hsid[h] \in Submissions
         /\ \A w \in Workers : Advances(w) => Keeps
         /\ \A w \in Workers, v \in Verdicts :
               Finishes(w, v) => Ends(wsid[w]) /\ wsid[w] \in Submissions
         /\ Bystander => Keeps
<1>1. ASSUME NEW h \in Handlers, NEW t \in Submissions, Submit(h, t) PROVE Adds(t)
  BY <1>1, RequestAdds DEF Submit, Adds, queueVars, workerVars
<1>2. ASSUME NEW h \in Handlers, RejudgeUpdate(h)
      PROVE  Adds(hsid[h]) /\ hsid[h] \in Submissions
  <2>1. hsid[h] \in Submissions /\ hsid' = [hsid EXCEPT ![h] = hsid[h]]
    BY <1>2 DEF RejudgeUpdate, InHand, TypeOK
  <2> QED
    BY <1>2, <2>1, RequestAdds DEF RejudgeUpdate, Adds, queueVars, workerVars
<1>3. ASSUME NEW w \in Workers, Advances(w) PROVE Keeps
  BY <1>3, GoToKeepsRequest DEF Advances, Keeps
<1>4. ASSUME NEW w \in Workers, NEW v \in Verdicts, Finishes(w, v)
      PROVE  Ends(wsid[w]) /\ wsid[w] \in Submissions
  BY <1>4, WriteEndsRequest DEF Finishes, Ends, InHand
<1>5. ASSUME Bystander PROVE Keeps
  <2> SUFFICES ASSUME NEW s \in Submissions PROVE Outstanding(s)' = Outstanding(s)
    BY DEF Keeps
  <2>1. ASSUME NEW h \in Handlers, HandlerPush(h)
        PROVE  Outstanding(s)' = Outstanding(s)
    BY <2>1, PushKeepsRequest
  <2>2. ASSUME NEW w \in Workers, Pop(w) PROVE Outstanding(s)' = Outstanding(s)
    <3>1. CASE wpc'[w] # "start"
      BY <2>2, <3>1, OthersKeepRequest
    <3>2. CASE wpc'[w] = "start"
      <4>1. PICK u \in Submissions : /\ Q!PopTake(w, u)
                                     /\ wpc' = [wpc EXCEPT ![w] = "start"]
                                     /\ wsid' = [wsid EXCEPT ![w] = u]
        BY <2>2, <3>2 DEF Pop, TypeOK
      <4> QED
        BY <2>2, <4>1, PopKeepsRequest DEF Pop, handlerVars
    <3> QED
      BY <3>1, <3>2
  <2> QED
    BY <1>5, <2>1, <2>2, OthersKeepRequest DEF Bystander
<1> QED
  BY <1>1, <1>2, <1>3, <1>4, <1>5
-----------------------------------------------------------------------------
(* SoleJudge.  Its inductive form counts: without a rejudge a submission   *)
(* has at most one outstanding request, an id that was never inserted has  *)
(* none, and a handler about to write PENDING again is a rejudge of a row  *)
(* that was inserted.                                                      *)

Unborn == \A s \in Submissions : status[s] = "NONE" => Outstanding(s) = 0
UpdatesRejudge ==
  \A h \in Handlers : hpc[h] = "update" => rejudges > 0 /\ status[hsid[h]] # "NONE"
OneRequest == rejudges = 0 => \A s \in Submissions : Outstanding(s) <= 1

Counted == Unborn /\ UpdatesRejudge /\ OneRequest

\* Nothing un-inserts a row, only Submit inserts one, and the count of
\* rejudges only grows.
LEMMA TableSteps ==
  ASSUME TypeOK, InHand, [Next]_vars
  PROVE  /\ \A s \in Submissions : status'[s] = "NONE" => status[s] = "NONE"
         /\ rejudges' \in {rejudges, rejudges + 1}
         /\ \A h \in Handlers :
               hpc'[h] = "update" =>
                  \/ hpc[h] = "update" /\ hsid'[h] = hsid[h]
                  \/ rejudges' = rejudges + 1 /\ status[hsid'[h]] # "NONE"
                     /\ hsid'[h] \in Submissions
<1> USE DEF TypeOK, queueVars, workerVars, handlerVars, boundVars
<1>1. ASSUME NEW h \in Handlers, NEW t \in Submissions, Submit(h, t)
      PROVE  /\ \A s \in Submissions : status'[s] = "NONE" => status[s] = "NONE"
             /\ UNCHANGED rejudges
             /\ \A k \in Handlers : hpc'[k] = "update" => hpc[k] = "update" /\ hsid'[k] = hsid[k]
  BY <1>1 DEF Submit
<1>2. ASSUME NEW h \in Handlers, RejudgeUpdate(h)
      PROVE  /\ \A s \in Submissions : status'[s] = "NONE" => status[s] = "NONE"
             /\ UNCHANGED rejudges
             /\ \A k \in Handlers : hpc'[k] = "update" => hpc[k] = "update" /\ hsid'[k] = hsid[k]
  BY <1>2, UpdatedRow DEF RejudgeUpdate
<1>3. ASSUME NEW w \in Workers, Advances(w)
      PROVE  /\ \A s \in Submissions : status'[s] = "NONE" => status[s] = "NONE"
             /\ UNCHANGED <<rejudges, hpc, hsid>>
  BY <1>3, UpdatedRow DEF Advances, GoTo
<1>4. ASSUME NEW w \in Workers, NEW v \in Verdicts, Finishes(w, v)
      PROVE  /\ \A s \in Submissions : status'[s] = "NONE" => status[s] = "NONE"
             /\ UNCHANGED <<rejudges, hpc, hsid>>
  <2>1. v # "NONE"
    BY VerdictsAssumption DEF Verdicts
  <2> QED
    BY <1>4, <2>1, UpdatedRow DEF Finishes, WriteResult
<1>5. CASE CrashRestart
  BY <1>5 DEF CrashRestart
<1>6. ASSUME NEW h \in Handlers, NEW u \in Submissions, RejudgeSelect(h, u)
      PROVE  /\ status' = status /\ rejudges' = rejudges + 1
             /\ \A k \in Handlers :
                   hpc'[k] = "update" =>
                      \/ k = h /\ hsid'[k] = u /\ status[u] # "NONE"
                      \/ k # h /\ hpc[k] = "update" /\ hsid'[k] = hsid[k]
  BY <1>6 DEF RejudgeSelect, Exists, Absent
<1>7. ASSUME Bystander, \A h \in Handlers, u \in Submissions : ~RejudgeSelect(h, u)
      PROVE  /\ \A s \in Submissions : status'[s] = "NONE" => status[s] = "NONE"
             /\ UNCHANGED rejudges
             /\ \A k \in Handlers : hpc'[k] = "update" => hpc[k] = "update" /\ hsid'[k] = hsid[k]
  <2>1. ASSUME NEW h \in Handlers, RejudgeFails(h) \/ HandlerPush(h)
        PROVE  /\ UNCHANGED <<status, rejudges>>
               /\ \A k \in Handlers : hpc'[k] = "update" => hpc[k] = "update" /\ hsid'[k] = hsid[k]
    BY <2>1 DEF RejudgeFails, HandlerPush
  <2>2. CASE CascadeDelete
    BY <2>2 DEF CascadeDelete
  <2>3. ASSUME NEW w \in Workers,
               \/ LoopTop(w) \/ Wake(w) \/ PassTest(w) \/ Pop(w)
               \/ (ScanTests(w) /\ wpc'[w] = "test")
        PROVE  UNCHANGED <<status, rejudges, hpc, hsid>>
    BY <2>3 DEF LoopTop, Wake, PassTest, Pop, ScanTests, WriteResult
  <2>4. CASE StopClearFlag \/ Stopping \/ UNCHANGED vars
    BY <2>4 DEF StopClearFlag, Stopping, StopShutdown, StopJoin, CloseListener,
                StopVars, vars
  <2> QED
    BY <1>7, <2>1, <2>2, <2>3, <2>4 DEF Bystander
<1>8. ASSUME NEW h \in Handlers, NEW u \in Submissions, RejudgeSelect(h, u)
      PROVE  \A k \in Handlers :
               hpc'[k] = "update" =>
                  \/ rejudges' = rejudges + 1 /\ status[hsid'[k]] # "NONE"
                     /\ hsid'[k] \in Submissions
                  \/ hpc[k] = "update" /\ hsid'[k] = hsid[k]
  BY <1>6, <1>8
<1>9. CASE \E h \in Handlers, u \in Submissions : RejudgeSelect(h, u)
  BY <1>6, <1>8, <1>9
<1>10. CASE Bystander /\ \A h \in Handlers, u \in Submissions : ~RejudgeSelect(h, u)
  BY <1>7, <1>10
<1> QED
  BY <1>1, <1>2, <1>3, <1>4, <1>5, <1>9, <1>10, StepCases

LEMMA CountedStep ==
  ASSUME TypeOK, InHand, Counted, [Next]_vars
  PROVE  Counted'
<1>1. /\ \A s \in Submissions : status'[s] = "NONE" => status[s] = "NONE"
      /\ rejudges \in Nat /\ rejudges' \in Nat
      /\ rejudges' = 0 => rejudges = 0
      /\ rejudges > 0 => rejudges' > 0
      /\ \A s \in Submissions : Outstanding(s) \in Nat
  <2>1. rejudges \in Nat
    BY BoundsAssumption DEF TypeOK
  <2> QED
    BY <2>1, TableSteps, PlacesFinite
<1>2. UpdatesRejudge'
  <2> SUFFICES ASSUME NEW h \in Handlers, hpc'[h] = "update"
               PROVE  rejudges' > 0 /\ status'[hsid'[h]] # "NONE"
    BY DEF UpdatesRejudge
  <2>1. CASE hpc[h] = "update" /\ hsid'[h] = hsid[h]
    <3>1. hsid[h] \in Submissions /\ rejudges > 0 /\ status[hsid[h]] # "NONE"
      BY <2>1 DEF InHand, Counted, UpdatesRejudge
    <3> QED
      BY <1>1, <2>1, <3>1
  <2>2. CASE rejudges' = rejudges + 1 /\ status[hsid'[h]] # "NONE" /\ hsid'[h] \in Submissions
    BY <1>1, <2>2
  <2> QED
    BY <2>1, <2>2, TableSteps
<1>3. ASSUME NEW s \in Submissions
      PROVE  /\ status'[s] = "NONE" => Outstanding(s)' = 0
             /\ rejudges' = 0 => Outstanding(s)' <= 1
  <2>1. /\ status'[s] = "NONE" => Outstanding(s) = 0
        /\ rejudges' = 0 => Outstanding(s) <= 1
        /\ Outstanding(s) \in Nat
    BY <1>1 DEF Counted, Unborn, OneRequest
  <2>2. ASSUME NEW h \in Handlers, NEW t \in Submissions, Submit(h, t)
        PROVE  /\ status'[s] = "NONE" => Outstanding(s)' = 0
               /\ rejudges' = 0 => Outstanding(s)' <= 1
    <3>1. Adds(t) /\ status[t] = "NONE" /\ status'[t] # "NONE"
      BY <2>2, RequestSteps DEF Submit, TypeOK
    <3>2. Outstanding(t) = 0
      BY <3>1 DEF Counted, Unborn
    <3> QED
      BY <2>1, <3>1, <3>2 DEF Adds
  <2>3. ASSUME NEW h \in Handlers, RejudgeUpdate(h)
        PROVE  /\ status'[s] = "NONE" => Outstanding(s)' = 0
               /\ rejudges' = 0 => Outstanding(s)' <= 1
    <3>1. Adds(hsid[h])
      BY <2>3, RequestSteps
    <3>2. rejudges > 0 /\ status[hsid[h]] # "NONE"
      BY <2>3 DEF RejudgeUpdate, Counted, UpdatesRejudge
    <3> QED
      BY <1>1, <2>1, <3>1, <3>2 DEF Adds
  <2>4. ASSUME NEW w \in Workers, NEW v \in Verdicts, Finishes(w, v)
        PROVE  /\ status'[s] = "NONE" => Outstanding(s)' = 0
               /\ rejudges' = 0 => Outstanding(s)' <= 1
    <3>1. Ends(wsid[w])
      BY <2>4, RequestSteps
    <3>2. \/ Outstanding(s)' = Outstanding(s)
          \/ Outstanding(s) > 0 /\ Outstanding(s)' = Outstanding(s) - 1
      BY <3>1 DEF Ends
    <3> QED
      BY <2>1, <3>2
  <2>5. CASE CrashRestart
    BY <2>5, CrashDropsRequests
  <2>6. CASE Keeps
    BY <2>1, <2>6 DEF Keeps
  <2> QED
    BY <2>2, <2>3, <2>4, <2>5, <2>6, StepCases, RequestSteps
<1> QED
  BY <1>2, <1>3 DEF Counted, Unborn, OneRequest

\* The counts of outstanding requests hold in every state: without a rejudge no
\* submission has two (part of what SoleJudge and the refinement rest on).
THEOREM RequestsAreCounted == Spec => [](TypeOK /\ InHand /\ Counted)
<1>1. Init => TypeOK /\ InHand /\ Counted
  <2> SUFFICES ASSUME Init PROVE TypeOK /\ InHand /\ Counted
    OBVIOUS
  <2>1. TypeOK /\ InHand
    BY InitTypes
  <2>2. ASSUME NEW s PROVE Outstanding(s) = 0
    <3>1. Places(s) = {}
      BY DEF Init, Q!Init, Places, Judging
    <3> QED
      BY <3>1, FS_EmptySet DEF Outstanding
  <2>3. UpdatesRejudge
    BY DEF Init, UpdatesRejudge
  <2> QED
    BY <2>1, <2>2, <2>3 DEF Counted, Unborn, OneRequest
<1>2. TypeOK /\ InHand /\ Counted /\ [Next]_vars => Counted'
  BY CountedStep
<1> QED
  BY <1>1, <1>2, TypeInvariant, PTL DEF Spec

LEMMA CountedMeansSole ==
  ASSUME TypeOK, Counted PROVE SoleJudge
<1> SUFFICES ASSUME rejudges = 0, NEW s \in Submissions,
                    NEW p \in Places(s), NEW q \in Places(s)
             PROVE  p = q
  BY DEF SoleJudge
<1>1. IsFiniteSet(Places(s)) /\ Cardinality(Places(s)) \in Nat
  BY PlacesFinite DEF Outstanding
<1>2. Cardinality(Places(s)) <= 1
  BY DEF Counted, OneRequest, Outstanding
<1>3. Cardinality(Places(s)) # 0
  BY <1>1, FS_EmptySet
<1>4. Cardinality(Places(s)) = 1
  BY <1>1, <1>2, <1>3
<1>5. PICK x : Places(s) = {x}
  BY <1>1, <1>4, FS_Singleton
<1> QED
  BY <1>5

\* Without a rejudge a submission is in one place only, in every state: no two
\* workers ever judge it (worker.cpp:220), whatever crashes and fails.
THEOREM OneJudgeEach == Spec => []SoleJudge
<1>1. TypeOK /\ Counted => SoleJudge
  BY CountedMeansSole
<1> QED
  BY <1>1, RequestsAreCounted, PTL
-----------------------------------------------------------------------------
(* The refinement.  Every step of the pipeline is a step of JudgingService *)
(* or changes nothing that it shows.                                       *)

\* What the user sees follows from the status column.
LEMMA ShownIs ==
  ASSUME TypeOK, NEW s \in Submissions
  PROVE  /\ Shown(s) = "none" <=> status[s] = "NONE"
         /\ Shown(s) = "gone" <=> status[s] = "DELETED"
         /\ Shown(s) = "waiting" <=> status[s] \in Live
         /\ Shown(s) \in {"none", "gone", "waiting", "judged"}
         /\ Exists(s) <=> Shown(s) \in {"waiting", "judged"}
BY LiveIsNoVerdict DEF Shown, Live, Exists, Absent, TypeOK

\* UPDATE writes the row when it is there.
LEMMA UpdatedShown ==
  ASSUME TypeOK, NEW t \in Submissions, NEW v \in Live \cup Verdicts,
         status' = Updated(t, v), NEW s \in Submissions
  PROVE  Shown(s)' = IF s # t \/ Shown(s) \in {"none", "gone"} THEN Shown(s)
                     ELSE IF v \in Live THEN "waiting" ELSE "judged"
<1>1. status'[s] = IF s = t /\ Exists(s) THEN v ELSE status[s]
  BY UpdatedRow
<1>2. v \notin {"NONE", "DELETED"}
  BY LiveIsNoVerdict, VerdictsAssumption DEF Live, Verdicts
<1> QED
  BY <1>1, <1>2, ShownIs DEF Shown

LEMMA SameShown ==
  ASSUME UNCHANGED <<status, abandoned, running>>, Keeps
  PROVE  UNCHANGED Service!vars
BY DEF Keeps, Outstanding, Shown, Service!vars

LEMMA RequestsRefine ==
  ASSUME TypeOK, InHand, Counted, NEW h \in Handlers
  PROVE  /\ \A t \in Submissions : Submit(h, t) => Service!Submit(t)
         /\ RejudgeUpdate(h) => hsid[h] \in Submissions /\ Service!Rejudge(hsid[h])
<1>1. ASSUME NEW t \in Submissions, Submit(h, t) PROVE Service!Submit(t)
  <2>1. \A s \in Submissions : Shown(s)' = IF s = t THEN "waiting" ELSE Shown(s)
    BY <1>1 DEF Submit, TypeOK, Shown, Live
  <2>2. Adds(t) /\ Shown(t) = "none"
    BY <1>1, RequestSteps, ShownIs DEF Submit
  <2> QED
    BY <1>1, <2>1, <2>2 DEF Submit, Service!Submit, Adds, Outstanding
<1>2. ASSUME RejudgeUpdate(h)
      PROVE  hsid[h] \in Submissions /\ Service!Rejudge(hsid[h])
  <2> DEFINE t == hsid[h]
  <2>1. Adds(t) /\ t \in Submissions
    BY <1>2, RequestSteps
  <2>2. Shown(t) # "none"
    BY <1>2, <2>1, ShownIs DEF RejudgeUpdate, Counted, UpdatesRejudge
  <2>3. \A s \in Submissions :
           Shown(s)' = IF s = t THEN IF Shown(s) = "gone" THEN "gone" ELSE "waiting"
                       ELSE Shown(s)
    BY <1>2, <2>1, <2>2, UpdatedShown DEF RejudgeUpdate, Live
  <2> QED
    BY <1>2, <2>1, <2>2, <2>3 DEF RejudgeUpdate, Service!Rejudge, Adds, Outstanding
<1> QED
  BY <1>1, <1>2

\* A progress update shows nothing new, or takes a verdict back while the
\* worker itself holds a request for the row.
LEMMA ProgressRefines ==
  ASSUME TypeOK, InHand, Counted, NEW w \in Workers, Advances(w)
  PROVE  \/ wsid[w] \in Submissions /\ Service!Reopen(wsid[w])
         \/ UNCHANGED Service!vars
<1> DEFINE t == wsid[w]
<1>1. t \in Submissions /\ Keeps /\ UNCHANGED <<running, abandoned>>
  BY RequestSteps DEF Advances, InHand, GoTo
<1>2. Outstanding(t) > 0
  <2>1. <<"worker", w>> \in Places(t)
    BY DEF Advances, Places
  <2> QED
    BY <2>1, PlacesFinite, FS_EmptySet DEF Outstanding
<1>3. CASE UNCHANGED status
  BY <1>1, <1>3, SameShown
<1>4. ASSUME NEW v \in {"COMPILING", "RUNNING"}, status' = Updated(t, v)
      PROVE  Service!Reopen(t) \/ UNCHANGED Service!vars
  <2>1. \A s \in Submissions :
           Shown(s)' = IF s # t \/ Shown(s) \in {"none", "gone"} THEN Shown(s) ELSE "waiting"
    BY <1>1, <1>4, UpdatedShown DEF Live
  <2>2. CASE Shown(t) = "judged"
    <3>1. \A s \in Submissions : Shown(s)' = IF s = t THEN "waiting" ELSE Shown(s)
      BY <2>1, <2>2
    <3> QED
      BY <1>1, <1>2, <2>2, <3>1 DEF Service!Reopen, Keeps, Outstanding
  <2>3. CASE Shown(t) # "judged"
    <3>1. \A s \in Submissions : Shown(s)' = Shown(s)
      BY <1>1, <2>1, <2>3, ShownIs
    <3> QED
      BY <1>1, <3>1 DEF Service!vars, Keeps, Outstanding
  <2> QED
    BY <2>2, <2>3
<1> QED
  BY <1>1, <1>3, <1>4 DEF Advances

\* The final write delivers one request, or gives the row up.
LEMMA VerdictRefines ==
  ASSUME TypeOK, InHand, Counted, NEW w \in Workers, NEW v \in Verdicts, Finishes(w, v)
  PROVE  wsid[w] \in Submissions /\ Service!Deliver(wsid[w])
<1> DEFINE t == wsid[w]
<1>1. t \in Submissions /\ Ends(t) /\ UNCHANGED running
  BY RequestSteps DEF Finishes, WriteResult
<1>2. Shown(t) # "none"
  BY <1>1, ShownIs DEF Ends, Counted, Unborn
<1>3. CASE status' = Updated(t, v) /\ UNCHANGED abandoned
  <2>1. \A s \in Submissions :
           Shown(s)' = IF s = t THEN IF Shown(s) = "gone" THEN "gone" ELSE "judged"
                       ELSE Shown(s)
    <3>1. v \notin Live
      BY LiveIsNoVerdict
    <3> QED
      BY <1>1, <1>2, <1>3, <3>1, UpdatedShown
  <2> QED
    BY <1>1, <1>3, <2>1 DEF Service!Deliver, Ends, Outstanding
<1>4. CASE UNCHANGED status /\ abandoned' = abandoned \cup {t}
  <2>1. \A s \in Submissions : Shown(s)' = Shown(s)
    BY <1>4 DEF Shown
  <2> QED
    BY <1>1, <1>4, <2>1 DEF Service!Deliver, Ends, Outstanding
<1> QED
  BY <1>1, <1>3, <1>4 DEF Finishes, WriteResult

LEMMA CrashRefines ==
  ASSUME TypeOK, CrashRestart PROVE Service!Crash
<1>1. \A s \in Submissions : Shown(s)' = Shown(s) /\ Outstanding(s)' = 0
  BY CrashDropsRequests DEF CrashRestart, Shown
<1>2. {s \in Submissions : status[s] \in Live} = {s \in Submissions : Shown(s) = "waiting"}
  BY ShownIs
<1> QED
  BY <1>1, <1>2 DEF Service!Crash, CrashRestart, Outstanding

LEMMA BystandersRefine ==
  ASSUME TypeOK, InHand, Counted, Bystander
  PROVE  Service!Delete \/ Service!Close \/ UNCHANGED Service!vars
<1>1. Keeps
  BY RequestSteps
<1>2. CASE CascadeDelete
  <2>1. PICK S \in SUBSET Submissions :
           /\ S # {} /\ \A s \in S : Exists(s)
           /\ status' = [s \in Submissions |-> IF s \in S THEN "DELETED" ELSE status[s]]
           /\ UNCHANGED <<running, abandoned>>
    BY <1>2 DEF CascadeDelete
  <2>2. \A s \in Submissions : Shown(s)' = IF s \in S THEN "gone" ELSE Shown(s)
    BY <2>1 DEF Shown, Live
  <2>3. \A s \in S : Shown(s) \in {"waiting", "judged"}
    BY <2>1, ShownIs
  <2> QED
    BY <1>1, <2>1, <2>2, <2>3 DEF Service!Delete, Keeps, Outstanding
<1>3. CASE StopClearFlag
  <2>1. UNCHANGED <<status, abandoned>> /\ running' = FALSE
    BY <1>3 DEF StopClearFlag, StopVars
  <2>2. \A s \in Submissions : Shown(s)' = Shown(s)
    BY <2>1 DEF Shown
  <2> QED
    BY <1>1, <2>1, <2>2 DEF Service!Close, Keeps, Outstanding
<1>4. CASE ~CascadeDelete /\ ~StopClearFlag
  <2>1. UNCHANGED <<status, abandoned, running>>
    <3> USE DEF queueVars, boundVars
    <3>1. ASSUME NEW w \in Workers,
                 \/ LoopTop(w) \/ Wake(w) \/ PassTest(w) \/ Pop(w)
                 \/ (ScanTests(w) /\ wpc'[w] = "test")
          PROVE  UNCHANGED <<status, abandoned, running>>
      BY <3>1 DEF LoopTop, Wake, PassTest, Pop, ScanTests, WriteResult, TypeOK
    <3>2. ASSUME NEW h \in Handlers,
                 \/ RejudgeFails(h) \/ HandlerPush(h)
                 \/ \E u \in Submissions : RejudgeSelect(h, u)
          PROVE  UNCHANGED <<status, abandoned, running>>
      BY <3>2 DEF RejudgeFails, HandlerPush, RejudgeSelect
    <3>3. CASE Stopping \/ UNCHANGED vars
      BY <3>3 DEF Stopping, StopShutdown, StopJoin, CloseListener, StopVars, vars
    <3> QED
      BY <1>4, <3>1, <3>2, <3>3 DEF Bystander
  <2> QED
    BY <1>1, <2>1, SameShown
<1> QED
  BY <1>2, <1>3, <1>4

\* The pipeline implements the service, step by step: a request is never
\* dropped and never judged twice, and a verdict that users have seen is
\* withdrawn only while another request for the row is outstanding.
THEOREM StepsImplementService == Spec => ServiceSteps
<1>1. Init => Service!Init
  <2> SUFFICES ASSUME Init PROVE Service!Init
    OBVIOUS
  <2>1. \A s \in Submissions : Shown(s) = "none" /\ Cardinality(Places(s)) = 0
    <3>1. ASSUME NEW s \in Submissions PROVE Places(s) = {}
      BY DEF Init, Q!Init, Places, Judging
    <3> QED
      BY <3>1, FS_EmptySet DEF Init, Shown, Live
  <2> QED
    BY <2>1 DEF Init, Service!Init
<1>2. TypeOK /\ InHand /\ Counted /\ [Next]_vars => [Service!Next]_(Service!vars)
  <2> SUFFICES ASSUME TypeOK, InHand, Counted, [Next]_vars
               PROVE  Service!Next \/ UNCHANGED Service!vars
    OBVIOUS
  <2>1. ASSUME NEW h \in Handlers, NEW t \in Submissions, Submit(h, t)
        PROVE  Service!Next
    BY <2>1, RequestsRefine DEF Service!Next
  <2>2. ASSUME NEW h \in Handlers, RejudgeUpdate(h) PROVE Service!Next
    BY <2>2, RequestsRefine DEF Service!Next
  <2>3. ASSUME NEW w \in Workers, Advances(w)
        PROVE  Service!Next \/ UNCHANGED Service!vars
    BY <2>3, ProgressRefines DEF Service!Next
  <2>4. ASSUME NEW w \in Workers, NEW v \in Verdicts, Finishes(w, v) PROVE Service!Next
    BY <2>4, VerdictRefines DEF Service!Next
  <2>5. CASE CrashRestart
    BY <2>5, CrashRefines DEF Service!Next
  <2>6. CASE Bystander
    BY <2>6, BystandersRefine DEF Service!Next
  <2> QED
    BY <2>1, <2>2, <2>3, <2>4, <2>5, <2>6, StepCases
<1> QED
  BY <1>1, <1>2, RequestsAreCounted, PTL DEF Spec, ServiceSteps
-----------------------------------------------------------------------------
(* StatusMachine.  As long as nothing was rejudged and no statement failed *)
(* the status column follows the one thread that has the submission: it is *)
(* PENDING until a worker has started, and then where that worker left it. *)

Reached(pc) ==
  CASE pc = "start" -> {"PENDING"}
    [] pc \in {"load", "problem", "compile", "mark"} -> {"COMPILING"}
    [] pc \in {"scan", "test"} -> {"RUNNING"}
    [] OTHER -> Live

Smooth == rejudges = 0 /\ faults = 0

RowFollows ==
  Smooth =>
    /\ \A s \in Submissions : Queued(s) \/ Owed(s) => status[s] \in {"PENDING", "DELETED"}
    /\ \A w \in Workers :
          wpc[w] \in Judging => status[wsid[w]] \in Reached(wpc[w]) \cup {"DELETED"}

\* The worker that has a submission has it alone.
LEMMA Alone ==
  ASSUME SoleJudge, rejudges = 0, NEW w \in Workers, wpc[w] \in Judging,
         wsid[w] \in Submissions
  PROVE  /\ ~Queued(wsid[w]) /\ ~Owed(wsid[w])
         /\ \A x \in Workers : wpc[x] \in Judging /\ wsid[x] = wsid[w] => x = w
<1> DEFINE s == wsid[w]
<1>1. <<"worker", w>> \in Places(s)
  BY DEF Places
<1>2. \A p \in Places(s) : p = <<"worker", w>>
  BY <1>1 DEF SoleJudge
<1>3. ASSUME NEW i \in 1..Len(items), items[i] = s PROVE FALSE
  <2>1. <<"queue", i>> \in Places(s)
    BY <1>3 DEF Places
  <2> QED
    BY <1>2, <2>1
<1>4. ASSUME NEW h \in Handlers, hpc[h] = "push", hsid[h] = s PROVE FALSE
  <2>1. <<"handler", h>> \in Places(s)
    BY <1>4 DEF Places
  <2> QED
    BY <1>2, <2>1
<1>5. ASSUME NEW x \in Workers, wpc[x] \in Judging, wsid[x] = s PROVE x = w
  <2>1. <<"worker", x>> \in Places(s)
    BY <1>5 DEF Places
  <2> QED
    BY <1>2, <2>1
<1> QED
  BY <1>3, <1>4, <1>5 DEF Queued, Owed

\* An id that was never inserted is nowhere.
LEMMA NowhereWhenUnborn ==
  ASSUME TypeOK, Counted, NEW s \in Submissions, status[s] = "NONE"
  PROVE  /\ ~Queued(s)
         /\ \A w \in Workers : ~(wpc[w] \in Judging /\ wsid[w] = s)
<1>1. Places(s) = {}
  BY PlacesFinite, FS_EmptySet DEF Counted, Unborn, Outstanding
<1> QED
  BY <1>1 DEF Places, Queued

LEMMA SmoothStep ==
  ASSUME TypeOK, InHand, [Next]_vars, rejudges' = 0, faults' = 0
  PROVE  Smooth
<1>1. rejudges \in Nat /\ faults \in Nat
  BY BoundsAssumption DEF TypeOK
<1>2. rejudges = 0
  BY <1>1, TableSteps
<1>3. faults' = faults \/ faults' = faults + 1
  <2> USE DEF Fault, boundVars
  <2>1. ASSUME NEW w \in Workers, Worker(w) \/ Wake(w)
        PROVE  faults' = faults \/ faults' = faults + 1
    <3>1. ASSUME NEW v, WriteResult(w, v) PROVE faults' = faults \/ faults' = faults + 1
      BY <3>1 DEF WriteResult
    <3> QED
      BY <2>1, <3>1 DEF Worker, Wake, LoopTop, Pop, SetCompiling, SetRunning, Mark,
           LoadSubmission, LoadProblem, Compile, ScanTests, PassTest, FinishTests,
           Throw, GiveUp
  <2>2. ASSUME NEW h \in Handlers,
               \/ \E s \in Submissions : Submit(h, s) \/ RejudgeSelect(h, s)
               \/ Handler(h)
        PROVE  faults' = faults \/ faults' = faults + 1
    BY <2>2 DEF Submit, RejudgeSelect, Handler, RejudgeUpdate, RejudgeFails, HandlerPush
  <2>3. CASE CascadeDelete \/ StopClearFlag \/ Stopping \/ CrashRestart \/ UNCHANGED vars
    BY <2>3 DEF CascadeDelete, StopClearFlag, Stopping, StopShutdown, StopJoin,
         CloseListener, StopVars, CrashRestart, vars
  <2> QED
    BY <2>1, <2>2, <2>3 DEF Next
<1> QED
  BY <1>1, <1>2, <1>3 DEF Smooth

\* What a worker does to the row it has, when no statement fails: it writes
\* the next status of the machine, or moves on within the present one.
LEMMA JudgeSteps ==
  ASSUME TypeOK, InHand, NEW w \in Workers, Worker(w), faults = 0, faults' = 0
  PROVE  \/ \E pc \in Judging :
              /\ wpc[w] \in Judging /\ GoTo(w, pc) /\ UNCHANGED status
              /\ Reached(wpc[w]) \subseteq Reached(pc)
         \/ \E pc \in Judging, v \in {"COMPILING", "RUNNING"} :
              /\ wpc[w] \in Judging /\ GoTo(w, pc) /\ v \in Reached(pc)
              /\ status' = Updated(wsid[w], v)
              /\ \A old \in Reached(wpc[w]) : StatusEdge(old, v)
         \/ \E v \in Verdicts :
              /\ Finishes(w, v) /\ status' = Updated(wsid[w], v)
              /\ \A old \in Reached(wpc[w]) : StatusEdge(old, v)
         \/ LoopTop(w) \/ Pop(w) \/ PassTest(w)
         \/ (ScanTests(w) /\ wpc[w] = "scan" /\ wpc' = [wpc EXCEPT ![w] = "test"]
              /\ UNCHANGED <<status, items, hpc, hsid, wsid>>)
<1>1. ~Fault
  BY DEF Fault
<1>2. CASE SetCompiling(w)
  BY <1>1, <1>2 DEF SetCompiling, Mark, Judging, Reached, StatusEdge
<1>3. CASE SetRunning(w)
  BY <1>1, <1>3 DEF SetRunning, Mark, Judging, Reached, StatusEdge
<1>4. CASE LoadSubmission(w) \/ LoadProblem(w)
  BY <1>1, <1>4 DEF LoadSubmission, LoadProblem, Judging, Reached, Live
<1>5. CASE Throw(w)
  BY <1>5 DEF Throw, Judging, Reached, Live
<1>6. CASE Compile(w)
  <2>1. CASE UNCHANGED <<status, faults>> /\ GoTo(w, "mark")
    BY <1>6, <2>1 DEF Compile, Judging, Reached
  <2>2. ASSUME NEW v \in CompileVerdicts, WriteResult(w, v)
        PROVE  /\ Finishes(w, v) /\ v \in Verdicts /\ status' = Updated(wsid[w], v)
               /\ \A old \in Reached(wpc[w]) : StatusEdge(old, v)
    BY <1>1, <1>6, <2>2 DEF Compile, WriteResult, Finishes, Judging, Reached, StatusEdge, Verdicts
  <2> QED
    BY <1>6, <2>1, <2>2 DEF Compile
<1>7. CASE ScanTests(w)
  <2>1. CASE WriteResult(w, "SYSTEM_ERROR")
    BY <1>1, <1>7, <2>1 DEF ScanTests, WriteResult, Finishes, Judging, Reached,
         StatusEdge, Verdicts, Live
  <2>2. CASE ~WriteResult(w, "SYSTEM_ERROR")
    BY <1>7, <2>2 DEF ScanTests, queueVars, handlerVars
  <2> QED
    BY <2>1, <2>2
<1>8. CASE FinishTests(w)
  BY <1>1, <1>8 DEF FinishTests, WriteResult, Finishes, Judging, Reached, StatusEdge, Verdicts
<1>9. CASE GiveUp(w)
  BY <1>1, <1>9 DEF GiveUp, WriteResult, Finishes, Judging, Reached, StatusEdge, Verdicts
<1> QED
  BY <1>2, <1>3, <1>4, <1>5, <1>6, <1>7, <1>8, <1>9 DEF Worker

\* The row of one submission, the places of the others: a step that writes
\* only the row its worker has alone keeps the rest as it was.
LEMMA WorkerRows ==
  ASSUME TypeOK, InHand, Counted, RowFollows, Smooth, NEW w \in Workers,
         Worker(w), faults' = 0
  PROVE  /\ \A s \in Submissions :
               status'[s] # status[s] => StatusEdge(status[s], status'[s])
         /\ RowFollows'
<1> DEFINE Edges == \A s \in Submissions :
                       status'[s] # status[s] => StatusEdge(status[s], status'[s])
<1>1. /\ rejudges = 0 /\ faults = 0 /\ SoleJudge
      /\ \A s \in Submissions : Queued(s) \/ Owed(s) => status[s] \in {"PENDING", "DELETED"}
      /\ \A x \in Workers :
            wpc[x] \in Judging => status[wsid[x]] \in Reached(wpc[x]) \cup {"DELETED"}
  BY CountedMeansSole DEF Smooth, RowFollows
<1>2. ASSUME wpc[w] \in Judging
      PROVE  /\ wsid[w] \in Submissions /\ ~Queued(wsid[w]) /\ ~Owed(wsid[w])
             /\ \A x \in Workers : wpc[x] \in Judging /\ wsid[x] = wsid[w] => x = w
  BY <1>1, <1>2, Alone DEF InHand
<1>3. ASSUME NEW pc \in Judging, wpc[w] \in Judging, GoTo(w, pc), UNCHANGED status,
             Reached(wpc[w]) \subseteq Reached(pc)
      PROVE  Edges /\ RowFollows'
  <2>1. UNCHANGED <<items, hpc, hsid, wsid>> /\ wpc' = [wpc EXCEPT ![w] = pc]
    BY <1>3 DEF GoTo, queueVars, handlerVars
  <2>2. \A x \in Workers :
           wpc'[x] \in Judging => status[wsid[x]] \in Reached(wpc'[x]) \cup {"DELETED"}
    BY <1>1, <1>3, <2>1 DEF TypeOK
  <2> QED
    BY <1>1, <1>3, <2>1, <2>2 DEF RowFollows, Queued, Owed
<1>4. ASSUME NEW pc \in Judging, NEW v \in {"COMPILING", "RUNNING"},
             wpc[w] \in Judging, GoTo(w, pc), v \in Reached(pc),
             status' = Updated(wsid[w], v),
             \A old \in Reached(wpc[w]) : StatusEdge(old, v)
      PROVE  Edges /\ RowFollows'
  <2>1. UNCHANGED <<items, hpc, hsid, wsid>> /\ wpc' = [wpc EXCEPT ![w] = pc]
    BY <1>4 DEF GoTo, queueVars, handlerVars
  <2>2. /\ status'[wsid[w]] \in {v, "DELETED"}
        /\ status'[wsid[w]] # status[wsid[w]] => StatusEdge(status[wsid[w]], status'[wsid[w]])
        /\ \A s \in Submissions : s # wsid[w] => status'[s] = status[s]
    <3>1. status[wsid[w]] \in Reached(wpc[w]) \cup {"DELETED"} /\ wsid[w] \in Submissions
      BY <1>1, <1>2, <1>4
    <3>2. \A old \in Reached(wpc[w]) : old \in Live
      BY DEF Reached, Live
    <3>3. Exists(wsid[w]) \/ status[wsid[w]] = "DELETED"
      BY <3>1, <3>2, LiveIsNoVerdict DEF Exists
    <3>4. \A s \in Submissions :
             status'[s] = IF s = wsid[w] /\ Exists(s) THEN v ELSE status[s]
      BY <1>4, UpdatedRow
    <3>5. CASE Exists(wsid[w])
      <4>1. status[wsid[w]] \in Reached(wpc[w])
        BY <3>1, <3>5 DEF Exists, Absent
      <4>2. StatusEdge(status[wsid[w]], v)
        BY <1>4, <4>1
      <4> QED
        BY <3>1, <3>4, <3>5, <4>2
    <3>6. CASE status[wsid[w]] = "DELETED"
      <4>1. ~Exists(wsid[w])
        BY <3>6 DEF Exists, Absent
      <4> QED
        BY <3>1, <3>4, <3>6, <4>1
    <3> QED
      BY <3>3, <3>5, <3>6
  <2>3. ASSUME NEW x \in Workers, wpc'[x] \in Judging
        PROVE  status'[wsid[x]] \in Reached(wpc'[x]) \cup {"DELETED"}
    <3>1. CASE x = w
      BY <1>4, <2>1, <2>2, <3>1 DEF TypeOK
    <3>2. CASE x # w
      <4>1. wpc'[x] = wpc[x] /\ wsid[x] # wsid[w] /\ wsid[x] \in Submissions
        BY <1>2, <1>4, <2>1, <2>3, <3>2 DEF TypeOK, InHand
      <4> QED
        BY <1>1, <2>2, <2>3, <4>1
    <3> QED
      BY <3>1, <3>2
  <2>4. ASSUME NEW s \in Submissions, Queued(s) \/ Owed(s)
        PROVE  status'[s] \in {"PENDING", "DELETED"}
    BY <1>1, <1>2, <1>4, <2>2, <2>4
  <2> QED
    BY <2>1, <2>2, <2>3, <2>4 DEF RowFollows, Queued, Owed
<1>5. ASSUME NEW v \in Verdicts, Finishes(w, v), status' = Updated(wsid[w], v),
             \A old \in Reached(wpc[w]) : StatusEdge(old, v)
      PROVE  Edges /\ RowFollows'
  <2>1. /\ UNCHANGED <<items, hpc, hsid>> /\ wpc[w] \in Judging
        /\ wpc' = [wpc EXCEPT ![w] = "loop"] /\ wsid' = [wsid EXCEPT ![w] = NoSid]
    BY <1>5 DEF Finishes, WriteResult, queueVars, handlerVars
  <2>2. /\ status'[wsid[w]] # status[wsid[w]] => StatusEdge(status[wsid[w]], status'[wsid[w]])
        /\ \A s \in Submissions : s # wsid[w] => status'[s] = status[s]
    BY <1>1, <1>2, <1>5, <2>1, UpdatedRow DEF Exists, Absent
  <2>3. ASSUME NEW x \in Workers, wpc'[x] \in Judging
        PROVE  status'[wsid'[x]] \in Reached(wpc'[x]) \cup {"DELETED"}
    <3>1. x # w /\ wpc'[x] = wpc[x] /\ wsid'[x] = wsid[x]
      BY <2>1, <2>3 DEF TypeOK, Judging
    <3>2. wsid[x] # wsid[w] /\ wsid[x] \in Submissions
      BY <1>2, <2>1, <2>3, <3>1 DEF InHand
    <3> QED
      BY <1>1, <2>2, <2>3, <3>1, <3>2
  <2>4. ASSUME NEW s \in Submissions, Queued(s) \/ Owed(s)
        PROVE  status'[s] \in {"PENDING", "DELETED"}
    BY <1>1, <1>2, <2>1, <2>2, <2>4
  <2> QED
    BY <2>1, <2>2, <2>3, <2>4 DEF RowFollows, Queued, Owed
<1>6. CASE LoopTop(w) \/ PassTest(w)
  <2>1. /\ UNCHANGED <<status, items, hpc, hsid, wsid>>
        /\ \A x \in Workers : wpc'[x] \in Judging => wpc'[x] = wpc[x]
    BY <1>6 DEF LoopTop, PassTest, Q!EnterPop, queueVars, handlerVars, TypeOK, Judging
  <2> QED
    BY <1>1, <2>1 DEF RowFollows, Queued, Owed
<1>7. CASE Pop(w)
  <2>1. UNCHANGED <<status, hpc, hsid>>
    BY <1>7 DEF Pop, handlerVars
  <2>2. CASE Q!PopClosed(w) \/ Q!PopWait(w)
    <3>1. UNCHANGED <<items, wsid>> /\ \A x \in Workers : wpc'[x] \in Judging => wpc'[x] = wpc[x]
      BY <1>7, <2>2 DEF Pop, Q!PopClosed, Q!PopWait, Q!PopTake, TypeOK, Judging
    <3> QED
      BY <1>1, <2>1, <3>1 DEF RowFollows, Queued, Owed
  <2>3. ASSUME NEW t \in Submissions, Q!PopTake(w, t),
               wpc' = [wpc EXCEPT ![w] = "start"], wsid' = [wsid EXCEPT ![w] = t]
        PROVE  Edges /\ RowFollows'
    <3>1. items \in Seq(Submissions) /\ items # <<>> /\ items' = Tail(items) /\ t = Head(items)
      BY <2>3 DEF Q!PopTake, TypeOK, Q!TypeOK
    <3>2. Queued(t) /\ \A s : Queued(s)' => Queued(s)
      BY <3>1, PopQueued
    <3>3. status[t] \in {"PENDING", "DELETED"}
      BY <1>1, <3>2
    <3>4. ASSUME NEW x \in Workers, wpc'[x] \in Judging
          PROVE  status[wsid'[x]] \in Reached(wpc'[x]) \cup {"DELETED"}
      BY <1>1, <2>3, <3>3, <3>4 DEF TypeOK, Reached
    <3> QED
      BY <1>1, <2>1, <3>2, <3>4 DEF RowFollows, Owed
  <2> QED
    BY <1>7, <2>2, <2>3 DEF Pop
<1>8. CASE /\ wpc[w] = "scan" /\ wpc' = [wpc EXCEPT ![w] = "test"]
           /\ UNCHANGED <<status, items, hpc, hsid, wsid>>
  <2>1. \A x \in Workers : wpc'[x] \in Judging => Reached(wpc'[x]) = Reached(wpc[x]) /\ wpc[x] \in Judging
    BY <1>8 DEF TypeOK, Reached, Judging
  <2> QED
    BY <1>1, <1>8, <2>1 DEF RowFollows, Queued, Owed
<1> QED
  BY <1>1, <1>3, <1>4, <1>5, <1>6, <1>7, <1>8, JudgeSteps

LEMMA HandlerRows ==
  ASSUME TypeOK, InHand, Counted, RowFollows, Smooth, NEW h \in Handlers,
         \/ \E s \in Submissions : Submit(h, s) \/ RejudgeSelect(h, s)
         \/ Handler(h),
         rejudges' = 0, faults' = 0
  PROVE  /\ \A s \in Submissions :
               status'[s] # status[s] => StatusEdge(status[s], status'[s])
         /\ RowFollows'
<1>1. /\ rejudges = 0 /\ faults = 0
      /\ \A s \in Submissions : Queued(s) \/ Owed(s) => status[s] \in {"PENDING", "DELETED"}
      /\ \A x \in Workers :
            wpc[x] \in Judging => status[wsid[x]] \in Reached(wpc[x]) \cup {"DELETED"}
  BY DEF Smooth, RowFollows
<1>2. ASSUME NEW t \in Submissions, Submit(h, t)
      PROVE  /\ \A s \in Submissions :
                   status'[s] # status[s] => StatusEdge(status[s], status'[s])
             /\ RowFollows'
  <2>1. /\ UNCHANGED <<items, wpc, wsid>> /\ status[t] = "NONE" /\ status'[t] = "PENDING"
        /\ \A s \in Submissions : s # t => status'[s] = status[s]
        /\ \A s \in Submissions : Owed(s)' => Owed(s) \/ s = t
    BY <1>2 DEF Submit, queueVars, workerVars, TypeOK, Owed
  <2>2. /\ ~Queued(t)
        /\ \A w \in Workers : ~(wpc[w] \in Judging /\ wsid[w] = t)
    BY <2>1, NowhereWhenUnborn
  <2>3. ASSUME NEW s \in Submissions, Queued(s)' \/ Owed(s)'
        PROVE  status'[s] \in {"PENDING", "DELETED"}
    BY <1>1, <2>1, <2>3 DEF Queued
  <2>4. ASSUME NEW w \in Workers, wpc'[w] \in Judging
        PROVE  status'[wsid'[w]] \in Reached(wpc'[w]) \cup {"DELETED"}
    BY <1>1, <2>1, <2>2, <2>4 DEF InHand
  <2> QED
    BY <2>1, <2>3, <2>4 DEF RowFollows, StatusEdge
<1>3. CASE HandlerPush(h)
  <2>1. /\ UNCHANGED <<status, wpc, wsid>> /\ hpc[h] = "push" /\ hsid[h] \in Submissions
        /\ items' = Append(items, hsid[h])
        /\ \A s \in Submissions : Owed(s)' => Owed(s)
    BY <1>3 DEF HandlerPush, workerVars, InHand, TypeOK, Owed, Q!Push
  <2>2. \A s : Queued(s)' <=> Queued(s) \/ s = hsid[h]
    BY <2>1, PushQueues DEF TypeOK, Q!TypeOK
  <2>3. Owed(hsid[h])
    BY <2>1 DEF Owed
  <2> QED
    BY <1>1, <2>1, <2>2, <2>3 DEF RowFollows
<1>4. ~RejudgeUpdate(h) /\ ~RejudgeFails(h) /\ \A s \in Submissions : ~RejudgeSelect(h, s)
  BY <1>1 DEF RejudgeUpdate, RejudgeFails, RejudgeSelect, Fault, Counted, UpdatesRejudge
<1> QED
  BY <1>2, <1>3, <1>4 DEF Handler

LEMMA ServerRows ==
  ASSUME TypeOK, InHand, Counted, RowFollows, Smooth,
         \/ CascadeDelete \/ StopClearFlag \/ Stopping \/ CrashRestart \/ UNCHANGED vars
         \/ \E w \in Workers : Wake(w)
  PROVE  /\ \A s \in Submissions :
               status'[s] # status[s] => StatusEdge(status[s], status'[s])
         /\ RowFollows'
<1>1. /\ \A s \in Submissions : Queued(s) \/ Owed(s) => status[s] \in {"PENDING", "DELETED"}
      /\ \A x \in Workers :
            wpc[x] \in Judging => status[wsid[x]] \in Reached(wpc[x]) \cup {"DELETED"}
  BY DEF Smooth, RowFollows
<1>2. CASE CascadeDelete
  <2>1. /\ UNCHANGED <<items, hpc, hsid, wpc, wsid>>
        /\ \A s \in Submissions :
              \/ status'[s] = status[s]
              \/ status'[s] = "DELETED" /\ status[s] \notin Absent
    BY <1>2 DEF CascadeDelete, queueVars, workerVars, handlerVars, Exists
  <2>2. \A w \in Workers :
           wpc[w] \in Judging => status'[wsid[w]] \in Reached(wpc[w]) \cup {"DELETED"}
    BY <1>1, <2>1 DEF InHand
  <2> QED
    BY <1>1, <2>1, <2>2 DEF RowFollows, Queued, Owed, StatusEdge
<1>3. CASE CrashRestart
  BY <1>3 DEF CrashRestart, RowFollows, Queued, Owed, Judging
<1>4. CASE StopClearFlag \/ Stopping \/ UNCHANGED vars \/ \E w \in Workers : Wake(w)
  <2>1. UNCHANGED <<status, items, hpc, hsid, wpc, wsid>>
    BY <1>4 DEF StopClearFlag, Stopping, StopShutdown, StopJoin, CloseListener,
         StopVars, Wake, Q!Shutdown, Q!SpuriousWake, queueVars, workerVars,
         handlerVars, vars
  <2> QED
    BY <1>1, <2>1 DEF RowFollows, Queued, Owed
<1> QED
  BY <1>2, <1>3, <1>4

LEMMA RowsStep ==
  ASSUME TypeOK, InHand, Counted, RowFollows, [Next]_vars
  PROVE  /\ rejudges' = 0 /\ faults' = 0 =>
               \A s \in Submissions :
                  status'[s] # status[s] => StatusEdge(status[s], status'[s])
         /\ RowFollows'
<1> SUFFICES ASSUME rejudges' = 0, faults' = 0
             PROVE  /\ \A s \in Submissions :
                          status'[s] # status[s] => StatusEdge(status[s], status'[s])
                    /\ RowFollows'
  BY DEF RowFollows, Smooth
<1>1. Smooth
  BY SmoothStep
<1> QED
  BY <1>1, HandlerRows, WorkerRows, ServerRows DEF Next

\* Without a rejudge and a failed statement a row moves only along the edges
\* of the documented status machine (worker.h:7), whatever is deleted, stopped
\* or crashed meanwhile: in particular a verdict once written never changes.
THEOREM RowsMoveAlongEdges == Spec => StatusMachine
<1>1. Init => RowFollows
  <2> SUFFICES ASSUME Init PROVE RowFollows
    OBVIOUS
  <2>1. \A s : ~Queued(s) /\ ~Owed(s)
    BY DEF Init, Q!Init, Queued, Owed
  <2> QED
    BY <2>1 DEF Init, RowFollows, Judging
<1>2. TypeOK /\ InHand /\ Counted /\ RowFollows /\ [Next]_vars => RowFollows'
  BY RowsStep
<1>3. TypeOK /\ InHand /\ Counted /\ RowFollows /\ [Next]_vars =>
        [rejudges' = 0 /\ faults' = 0 =>
           \A s \in Submissions :
              status'[s] # status[s] => StatusEdge(status[s], status'[s])]_status
  BY RowsStep
<1> QED
  BY <1>1, <1>2, <1>3, RequestsAreCounted, PTL DEF Spec, StatusMachine
=============================================================================
