--------------------------- MODULE ProcessRunProofs ---------------------------
(***************************************************************************)
(* What a worker reports about a program that ran under limits is right    *)
(* for every tick length, every time limit and every number of threads.    *)
(* The invariant IInv says how the child's end, the times and the answer   *)
(* hang together; every step keeps it (one lemma per action), and the      *)
(* properties of ProcessRun follow from it.                                *)
(***************************************************************************)
EXTENDS ProcessRun, TLAPS

\* TypeOK with the CPU time unbounded: its bound is a part of IInv.
Types ==
    /\ call \in Calls
    /\ ignores \in BOOLEAN
    /\ self \in BOOLEAN
    /\ pc \in {"fork", "poll", "deadline", "reap", "done"}
    /\ child \in {"none", "forked", "running", "zombie", "reaped"}
    /\ end \in Ends \cup {"none"}
    /\ wall \in Nat /\ wall <= Deadline + 1
    /\ cpu \in Nat
    /\ high \in BOOLEAN
    /\ killed \in BOOLEAN
    /\ result \in {"none", "OK", "TLE", "MLE", "RE", "SYSTEM_ERROR",
                   "COMPILE_TIMEOUT", "COMPILE_ERROR"}

\* No more CPU time than the threads can burn in the time that passed.
CpuFitsWall == cpu <= Threads * wall

\* Where the parent is, and what has become of the child by then.
ParentFollowsChild ==
    /\ pc = "fork" => child = "none"
    /\ pc \in {"poll", "deadline", "reap"} => child \in {"forked", "running", "zombie"}
    /\ pc = "done" => child \in {"none", "reaped"}
    /\ end = "none" <=> child \in {"none", "forked", "running"}
    /\ result = "none" <=> pc # "done"
    /\ high => call.kind = "test"

\* we_killed is set past the deadline only, and nothing is polled afterwards.
KilledPastDeadline ==
    /\ killed => wall > Deadline /\ pc \in {"reap", "done"}
    /\ pc = "reap" => killed /\ child = "zombie"
    /\ child \in {"none", "forked"} => wall <= Deadline

\* The kernel's two signals, and everything that is neither.
KernelEnds(how, ignored, time, limit) ==
    /\ how = "XCPU" => ~ignored /\ time >= SoftLimit(limit)
    /\ how = "KILL" => ignored /\ time >= HardLimit(limit)
    /\ how \in {"none", "exit0", "exitN", "exit127", "SEGV"} =>
            time < IF ignored THEN HardLimit(limit) ELSE SoftLimit(limit)

EndIsJustified ==
    \/ KernelEnds(end, ignores, cpu, call.limit)
    \/ killed /\ end = "KILL"
    \/ self /\ end \in {"XCPU", "KILL"}

\* The answer is the one the callers make of how the child really ended.
AnswerOf(how, wasKilled) ==
    IF call.kind = "test" THEN TestResult(Outcome(wasKilled, how), how)
                          ELSE CompileResult(Outcome(wasKilled, how), how)

AnswerIsOfEnd ==
    pc = "done" => \/ child = "none" /\ result = "SYSTEM_ERROR"
                   \/ child = "reaped" /\ result = AnswerOf(end, killed)

IInv == /\ Types
        /\ CpuFitsWall
        /\ ParentFollowsChild
        /\ KilledPastDeadline
        /\ EndIsJustified
        /\ AnswerIsOfEnd
-----------------------------------------------------------------------------
(* The limits and the times.                                               *)

\* The CPU limit rounded up to whole seconds is never below the limit itself
\* (runner.cpp:77).
LEMMA SoftLimitCovers ==
    ASSUME NEW limit \in Nat \ {0}
    PROVE  SoftLimit(limit) \in Nat /\ SoftLimit(limit) >= limit
<1>1. Sec \in Nat \ {0}
  BY TicksAssumption
<1> DEFINE up == limit + Sec - 1
           q == up \div Sec
<1>2. up \in Nat
  BY <1>1
<1>3. q \in Nat /\ up % Sec \in 0..(Sec - 1) /\ up = Sec * q + (up % Sec)
  BY <1>1, <1>2
<1>4. q * Sec = Sec * q /\ q * Sec \in Nat
  BY <1>1, <1>3
<1>5. q * Sec >= limit
  BY <1>1, <1>2, <1>3, <1>4
<1> QED
  BY <1>4, <1>5 DEF SoftLimit

\* The hard limit is a second above the soft one (runner.cpp:85).
LEMMA HardAboveSoft ==
    ASSUME NEW limit \in Nat \ {0}
    PROVE  HardLimit(limit) \in Nat /\ HardLimit(limit) > SoftLimit(limit)
BY SoftLimitCovers, TicksAssumption DEF HardLimit

\* Every call has a positive limit, and a deadline that is not before it.
LEMMA CallLimits ==
    ASSUME call \in Calls
    PROVE  /\ call.kind \in {"test", "compile"}
           /\ call.limit \in Nat \ {0}
           /\ Deadline \in Nat
           /\ Deadline >= call.limit
BY TicksAssumption DEF Calls, Deadline

\* A tick burns at most Threads ticks of CPU time more.
LEMMA TickBurns ==
    ASSUME NEW w \in Nat, NEW c \in Nat, c <= Threads * w, NEW b \in 0..Threads
    PROVE  c + b \in Nat /\ c + b <= Threads * (w + 1)
<1>1. Threads \in Nat
  BY TicksAssumption
<1>2. Threads * (w + 1) = Threads * w + Threads /\ Threads * w \in Nat
  BY <1>1
<1> QED
  BY <1>1, <1>2

\* CPU time that fits into the wall time fits into any longer one.
LEMMA BurntByThen ==
    ASSUME NEW w \in Nat, NEW d \in Nat, w <= d, NEW c \in Nat, c <= Threads * w
    PROVE  c \in 0..(Threads * d)
<1>1. Threads \in Nat /\ d - w \in Nat /\ d = w + (d - w)
  BY TicksAssumption
<1>2. Threads * (w + (d - w)) = Threads * w + Threads * (d - w)
  BY <1>1
<1>3. Threads * (d - w) \in Nat /\ Threads * w \in Nat
  BY <1>1
<1>4. Threads * d = Threads * w + Threads * (d - w)
  BY <1>1, <1>2
<1> QED
  BY <1>3, <1>4

\* Every outcome has an answer.
LEMMA AnswerTypes ==
    ASSUME call \in Calls, high \in BOOLEAN, NEW how \in Ends, NEW k \in BOOLEAN
    PROVE  AnswerOf(how, k) \in {"OK", "TLE", "MLE", "RE", "SYSTEM_ERROR",
                                 "COMPILE_TIMEOUT", "COMPILE_ERROR"}
<1>1. Outcome(k, how) \in {"TimeLimit", "Finished", "Killed"}
  BY DEF Outcome
<1>2. TestResult(Outcome(k, how), how) \in {"OK", "TLE", "MLE", "RE"}
  BY <1>1 DEF TestResult
<1>3. CompileResult(Outcome(k, how), how)
        \in {"OK", "SYSTEM_ERROR", "COMPILE_TIMEOUT", "COMPILE_ERROR"}
  BY <1>1 DEF CompileResult
<1> QED
  BY <1>2, <1>3 DEF AnswerOf
-----------------------------------------------------------------------------
(* Each step keeps the invariant.                                          *)

LEMMA InitKeeps == Init => IInv
<1> SUFFICES ASSUME Init PROVE IInv
  OBVIOUS
<1>1. /\ call.kind \in {"test", "compile"} /\ call.limit \in Nat \ {0}
      /\ Deadline \in Nat
  BY CallLimits DEF Init
<1>2. Types
  <2>1. wall \in Nat /\ wall <= Deadline + 1 /\ wall <= Deadline /\ cpu \in Nat
    BY <1>1 DEF Init
  <2> QED
    BY <2>1 DEF Init, Types, Ends
<1>3. CpuFitsWall
  BY TicksAssumption DEF Init, CpuFitsWall
<1>4. ParentFollowsChild /\ KilledPastDeadline /\ AnswerIsOfEnd
  BY <1>1 DEF Init, ParentFollowsChild, KilledPastDeadline, AnswerIsOfEnd
<1>5. EndIsJustified
  BY <1>1, SoftLimitCovers, HardAboveSoft DEF Init, EndIsJustified, KernelEnds
<1> QED
  BY <1>2, <1>3, <1>4, <1>5 DEF IInv

\* The deadline and the answer are functions of variables most steps keep.
LEMMA SameCall ==
    ASSUME call' = call
    PROVE  /\ Deadline' = Deadline
           /\ high' = high => \A how, k : AnswerOf(how, k)' = AnswerOf(how, k)
BY DEF Deadline, AnswerOf, TestResult, CompileResult, Outcome

LEMMA ForkKeeps ==
    ASSUME IInv, Fork
    PROVE  IInv'
<1>1. Deadline' = Deadline /\ Deadline \in Nat
  BY CallLimits, SameCall DEF IInv, Types, Fork
<1>2. killed = FALSE /\ end = "none" /\ child = "none"
  BY DEF IInv, Types, KilledPastDeadline, ParentFollowsChild, Fork
<1>3. CASE pc' = "poll" /\ child' = "forked" /\ result' = result
  <2>1. Types' /\ CpuFitsWall' /\ EndIsJustified'
    BY <1>1, <1>3 DEF IInv, Types, CpuFitsWall, EndIsJustified, KernelEnds, Fork
  <2>2. ParentFollowsChild' /\ KilledPastDeadline' /\ AnswerIsOfEnd'
    BY <1>1, <1>2, <1>3
       DEF IInv, Types, ParentFollowsChild, KilledPastDeadline, AnswerIsOfEnd, Fork
  <2> QED
    BY <2>1, <2>2 DEF IInv
<1>4. CASE Return("Failed", "none") /\ child' = child
  <2>1. pc' = "done" /\ result' = "SYSTEM_ERROR"
    BY <1>4, CallLimits DEF IInv, Types, Return, TestResult, CompileResult
  <2>2. Types' /\ CpuFitsWall' /\ EndIsJustified'
    BY <1>1, <1>4, <2>1 DEF IInv, Types, CpuFitsWall, EndIsJustified, KernelEnds, Fork
  <2>3. ParentFollowsChild' /\ KilledPastDeadline' /\ AnswerIsOfEnd'
    BY <1>1, <1>2, <1>4, <2>1
       DEF IInv, Types, ParentFollowsChild, KilledPastDeadline, AnswerIsOfEnd, Fork
  <2> QED
    BY <2>2, <2>3 DEF IInv
<1> QED
  BY <1>3, <1>4 DEF Fork

\* The answer of a reaped child, as Poll and Reap return it.
LEMMA ReturnAnswers ==
    ASSUME IInv, child = "zombie", Return(Outcome(killed, end), end),
           UNCHANGED <<call, ignores, self, end, wall, cpu, high, killed>>,
           child' = "reaped"
    PROVE  IInv'
<1>1. Deadline' = Deadline /\ end \in Ends /\ AnswerOf(end, killed)' = AnswerOf(end, killed)
  BY SameCall DEF IInv, Types, ParentFollowsChild
<1>2. pc' = "done" /\ result' = AnswerOf(end, killed)
  BY DEF Return, AnswerOf
<1>3. result' \in {"OK", "TLE", "MLE", "RE", "SYSTEM_ERROR",
                   "COMPILE_TIMEOUT", "COMPILE_ERROR"}
  BY <1>1, <1>2, AnswerTypes DEF IInv, Types
<1>4. Types' /\ CpuFitsWall' /\ EndIsJustified'
  BY <1>1, <1>2, <1>3 DEF IInv, Types, CpuFitsWall, EndIsJustified, KernelEnds
<1>5. ParentFollowsChild' /\ KilledPastDeadline'
  BY <1>1, <1>2, <1>3 DEF IInv, Types, ParentFollowsChild, KilledPastDeadline, Ends
<1>6. AnswerIsOfEnd'
  BY <1>1, <1>2 DEF AnswerIsOfEnd
<1> QED
  BY <1>4, <1>5, <1>6 DEF IInv

LEMMA PollKeeps ==
    ASSUME IInv, Poll
    PROVE  IInv'
<1>1. killed = FALSE
  BY DEF IInv, Types, KilledPastDeadline, Poll
<1>2. CASE child = "zombie"
  BY <1>1, <1>2, ReturnAnswers DEF Poll
<1>3. CASE child # "zombie"
  <2>1. Deadline' = Deadline
    BY SameCall DEF Poll
  <2>2. Types' /\ CpuFitsWall' /\ EndIsJustified'
    BY <1>3, <2>1 DEF IInv, Types, CpuFitsWall, EndIsJustified, KernelEnds, Poll
  <2>3. ParentFollowsChild' /\ KilledPastDeadline' /\ AnswerIsOfEnd'
    BY <1>1, <1>3, <2>1
       DEF IInv, ParentFollowsChild, KilledPastDeadline, AnswerIsOfEnd, Poll
  <2> QED
    BY <2>2, <2>3 DEF IInv
<1> QED
  BY <1>2, <1>3

LEMMA CheckDeadlineKeeps ==
    ASSUME IInv, CheckDeadline
    PROVE  IInv'
<1>1. Deadline' = Deadline /\ Deadline \in Nat /\ killed = FALSE
  BY CallLimits, SameCall DEF IInv, Types, KilledPastDeadline, CheckDeadline
<1>2. CASE wall > Deadline
  <2>1. child \in {"running", "zombie"} /\ child' = "zombie"
    BY <1>1, <1>2
       DEF IInv, Types, ParentFollowsChild, KilledPastDeadline, CheckDeadline, Dies
  <2>2. end' = IF child = "running" THEN "KILL" ELSE end
    BY <1>2 DEF CheckDeadline, Dies
  <2>3. Types' /\ CpuFitsWall'
    BY <1>1, <1>2, <2>1, <2>2 DEF IInv, Types, CpuFitsWall, Ends, CheckDeadline
  <2>4. ParentFollowsChild' /\ KilledPastDeadline' /\ AnswerIsOfEnd'
    BY <1>1, <1>2, <2>1, <2>2
       DEF IInv, Types, ParentFollowsChild, KilledPastDeadline, AnswerIsOfEnd,
           CheckDeadline
  <2>5. EndIsJustified'
    BY <1>1, <1>2, <2>1, <2>2 DEF IInv, EndIsJustified, KernelEnds, CheckDeadline
  <2> QED
    BY <2>3, <2>4, <2>5 DEF IInv
<1>3. CASE ~(wall > Deadline)
  <2>1. Types' /\ CpuFitsWall' /\ EndIsJustified'
    BY <1>1, <1>3
       DEF IInv, Types, CpuFitsWall, EndIsJustified, KernelEnds, CheckDeadline
  <2>2. ParentFollowsChild' /\ KilledPastDeadline' /\ AnswerIsOfEnd'
    BY <1>1, <1>3
       DEF IInv, ParentFollowsChild, KilledPastDeadline, AnswerIsOfEnd, CheckDeadline
  <2> QED
    BY <2>1, <2>2 DEF IInv
<1> QED
  BY <1>2, <1>3

LEMMA ReapKeeps ==
    ASSUME IInv, Reap
    PROVE  IInv'
BY ReturnAnswers DEF Reap

LEMMA ChildStartsKeeps ==
    ASSUME IInv, ChildStarts
    PROVE  IInv'
<1>1. Deadline' = Deadline /\ killed = FALSE /\ end = "none"
  BY SameCall DEF IInv, Types, KilledPastDeadline, ParentFollowsChild, ChildStarts
<1>2. \/ child' = "running" /\ end' = "none"
      \/ child' = "zombie" /\ end' = "exit127"
  BY <1>1 DEF ChildStarts, Dies
<1>3. Types' /\ CpuFitsWall'
  BY <1>1, <1>2 DEF IInv, Types, CpuFitsWall, Ends, ChildStarts
<1>4. ParentFollowsChild' /\ KilledPastDeadline' /\ AnswerIsOfEnd'
  BY <1>1, <1>2
     DEF IInv, Types, ParentFollowsChild, KilledPastDeadline, AnswerIsOfEnd, ChildStarts
<1>5. EndIsJustified'
  BY <1>1, <1>2 DEF IInv, EndIsJustified, KernelEnds, ChildStarts
<1> QED
  BY <1>3, <1>4, <1>5 DEF IInv

LEMMA ChildEndsKeeps ==
    ASSUME IInv, ChildEnds
    PROVE  IInv'
<1>1. Deadline' = Deadline /\ killed = FALSE /\ end = "none"
  BY SameCall DEF IInv, Types, KilledPastDeadline, ParentFollowsChild, ChildEnds
<1>2. /\ child' = "zombie"
      /\ end' \in {"exit0", "exitN", "SEGV", "XCPU", "KILL"}
      /\ self' = (end' \in {"XCPU", "KILL"})
  BY DEF ChildEnds, Dies
<1>3. Types' /\ CpuFitsWall'
  BY <1>1, <1>2 DEF IInv, Types, CpuFitsWall, Ends, ChildEnds
<1>4. ParentFollowsChild' /\ KilledPastDeadline' /\ AnswerIsOfEnd'
  BY <1>1, <1>2
     DEF IInv, Types, ParentFollowsChild, KilledPastDeadline, AnswerIsOfEnd, ChildEnds
<1>5. EndIsJustified'
  BY <1>1, <1>2 DEF IInv, EndIsJustified, KernelEnds, ChildEnds
<1> QED
  BY <1>3, <1>4, <1>5 DEF IInv

LEMMA ChildAllocatesKeeps ==
    ASSUME IInv, ChildAllocates
    PROVE  IInv'
<1>1. Deadline' = Deadline
  BY SameCall DEF ChildAllocates
<1>2. Types' /\ CpuFitsWall' /\ EndIsJustified'
  BY <1>1 DEF IInv, Types, CpuFitsWall, EndIsJustified, KernelEnds, ChildAllocates
<1>3. ParentFollowsChild' /\ KilledPastDeadline' /\ AnswerIsOfEnd'
  BY <1>1 DEF IInv, Types, ParentFollowsChild, KilledPastDeadline, AnswerIsOfEnd,
             ChildAllocates
<1> QED
  BY <1>2, <1>3 DEF IInv

\* The kernel signals a child over its limits and no other, whatever it burns
\* in a tick.
LEMMA TickKeeps ==
    ASSUME IInv, Tick
    PROVE  IInv'
<1>1. Deadline' = Deadline /\ Deadline \in Nat /\ killed = FALSE /\ end = "none"
  BY CallLimits, SameCall
     DEF IInv, Types, KilledPastDeadline, ParentFollowsChild, Tick
<1>2. /\ SoftLimit(call.limit) \in Nat
      /\ HardLimit(call.limit) \in Nat
      /\ HardLimit(call.limit) > SoftLimit(call.limit)
  BY CallLimits, SoftLimitCovers, HardAboveSoft DEF IInv, Types
<1>3. PICK burnt \in 0..(IF child = "running" THEN Threads ELSE 0) : cpu' = cpu + burnt
  BY DEF Tick
<1>4. burnt \in 0..Threads
  BY TicksAssumption
<1>5. cpu' \in Nat /\ CpuFitsWall'
  BY <1>3, <1>4, TickBurns DEF IInv, Types, CpuFitsWall, Tick
<1>6. /\ child' \in {"forked", "running", "zombie"}
      /\ end' \in {"none", "XCPU", "KILL"}
      /\ child' = "zombie" <=> end' # "none"
      /\ child' # "zombie" => child' = child
      /\ KernelEnds(end', ignores, cpu', call.limit)
  BY <1>1, <1>2, <1>5 DEF IInv, Types, KernelEnds, Tick, Dies
<1>7. /\ wall' \in Nat /\ wall' <= Deadline + 1
      /\ child = "forked" => wall' <= Deadline
  BY <1>1 DEF IInv, Types, Tick
<1>8. UNCHANGED <<call, ignores, self, pc, high, killed, result>>
  BY DEF Tick
<1>9. Types'
  BY <1>1, <1>5, <1>6, <1>7, <1>8 DEF IInv, Types, Ends
<1>10. EndIsJustified'
  BY <1>6, <1>8 DEF EndIsJustified, KernelEnds
<1>11. ParentFollowsChild' /\ KilledPastDeadline' /\ AnswerIsOfEnd'
  BY <1>1, <1>6, <1>7, <1>8
     DEF IInv, Types, ParentFollowsChild, KilledPastDeadline, AnswerIsOfEnd, Tick
<1> QED
  BY <1>5, <1>9, <1>10, <1>11 DEF IInv

LEMMA NextKeeps == IInv /\ [Next]_vars => IInv'
<1> SUFFICES ASSUME IInv, [Next]_vars PROVE IInv'
  OBVIOUS
<1>1. CASE UNCHANGED vars
  BY <1>1 DEF vars, IInv, Types, CpuFitsWall, ParentFollowsChild, KilledPastDeadline,
              EndIsJustified, KernelEnds, AnswerIsOfEnd, AnswerOf, Outcome, TestResult,
              CompileResult, Deadline
<1>2. CASE Next
  BY <1>2, ForkKeeps, PollKeeps, CheckDeadlineKeeps, ReapKeeps, ChildStartsKeeps,
     ChildEndsKeeps, ChildAllocatesKeeps, TickKeeps DEF Next, Parent
<1> QED
  BY <1>1, <1>2
-----------------------------------------------------------------------------
(* The theorems.                                                           *)

\* The state of a run under limits, its answer and its end are always the ones
\* IInv allows (run_process, runner.cpp:33-176).
THEOREM RunInvariant == Spec => []IInv
<1>1. Init => IInv
  BY InitKeeps
<1>2. IInv /\ [Next]_vars => IInv'
  BY NextKeeps
<1> QED
  BY <1>1, <1>2, PTL DEF Spec

\* Every variable of a run keeps its type, the CPU time within what the threads
\* can burn until just past the deadline (run_process, runner.cpp:33-176).
THEOREM ProcessTypes == Spec => []TypeOK
<1>1. IInv => TypeOK
  <2> SUFFICES ASSUME IInv PROVE TypeOK
    OBVIOUS
  <2>1. Deadline \in Nat
    BY CallLimits DEF IInv, Types
  <2>2. cpu \in 0..(Threads * (Deadline + 1))
    BY <2>1, BurntByThen DEF IInv, Types, CpuFitsWall
  <2> QED
    BY <2>1, <2>2 DEF IInv, Types, TypeOK
<1> QED
  BY <1>1, RunInvariant, PTL

\* A time limit verdict is given only to a program that burnt its CPU limit, was
\* still there past the deadline or sent itself the signal, whatever the limit and however coarse the
\* kernel's seconds are (runner.cpp:77-85, 131-150).
THEOREM TimeoutsJustified == Spec => []TimeoutIsJustified
<1>1. IInv => TimeoutIsJustified
  <2> SUFFICES ASSUME IInv, result \in {"TLE", "COMPILE_TIMEOUT"}
               PROVE  cpu >= call.limit \/ wall > Deadline \/ (self /\ end = "XCPU")
    BY DEF TimeoutIsJustified
  <2>1. pc = "done" /\ child = "reaped" /\ result = AnswerOf(end, killed)
    BY DEF IInv, ParentFollowsChild, AnswerIsOfEnd
  <2>2. call.limit \in Nat \ {0}
    BY CallLimits DEF IInv, Types
  <2>3. CASE killed
    BY <2>3 DEF IInv, KilledPastDeadline
  <2>4. CASE ~killed
    <3>1. end = "XCPU"
      BY <2>1, <2>4
         DEF IInv, Types, AnswerOf, Outcome, TestResult, CompileResult
    <3>2. self \/ (cpu >= SoftLimit(call.limit) /\ cpu \in Nat)
      BY <3>1 DEF IInv, Types, EndIsJustified, KernelEnds
    <3> QED
      BY <2>2, <3>1, <3>2, SoftLimitCovers
  <2> QED
    BY <2>3, <2>4
<1> QED
  BY <1>1, RunInvariant, PTL

\* A program that leaves SIGXCPU and its limits alone and runs out of CPU is never reported as
\* crashed: the soft limit's signal always comes before the hard limit's
\* (runner.cpp:85).
THEOREM NoCrashes == Spec => []NoCrashFromCpuLimit
<1>1. IInv => NoCrashFromCpuLimit
  <2> SUFFICES ASSUME IInv, result \in {"RE", "SYSTEM_ERROR"}, ~ignores, ~self,
                      end = "KILL"
               PROVE  FALSE
    BY DEF NoCrashFromCpuLimit
  <2>1. killed
    BY DEF IInv, EndIsJustified, KernelEnds
  <2>2. pc = "done" /\ child = "reaped" /\ result = AnswerOf(end, killed)
    BY DEF IInv, ParentFollowsChild, AnswerIsOfEnd
  <2>3. Outcome(killed, end) = "TimeLimit"
    BY <2>1 DEF Outcome
  <2> QED
    BY <2>2, <2>3 DEF AnswerOf, TestResult, CompileResult
<1> QED
  BY <1>1, RunInvariant, PTL

\* An answer that goes on to the comparison (or a successful compilation) comes
\* from a child that ended by itself with 0 and stayed below the kernel's
\* limits (runner.cpp:147-171, run_testcase and compile_source).
THEOREM OkRunsAreClean == Spec => []OkIsClean
<1>1. IInv => OkIsClean
  <2> SUFFICES ASSUME IInv, result = "OK"
               PROVE  /\ end = "exit0" /\ ~killed /\ ~high
                      /\ cpu < IF ignores THEN HardLimit(call.limit)
                                          ELSE SoftLimit(call.limit)
    BY DEF OkIsClean
  <2>1. pc = "done" /\ child = "reaped" /\ result = AnswerOf(end, killed)
    BY DEF IInv, ParentFollowsChild, AnswerIsOfEnd
  <2>2. Outcome(killed, end) = "Finished" /\ end = "exit0" /\ (call.kind = "test" => ~high)
    <3>1. Outcome(killed, end) \in {"TimeLimit", "Finished", "Killed"}
      BY DEF Outcome
    <3> QED
      BY <2>1, <3>1 DEF IInv, Types, AnswerOf, TestResult, CompileResult
  <2>3. ~killed
    BY <2>2 DEF Outcome
  <2>4. ~high
    BY <2>2 DEF IInv, ParentFollowsChild
  <2> QED
    BY <2>2, <2>3, <2>4 DEF IInv, EndIsJustified, KernelEnds
<1> QED
  BY <1>1, RunInvariant, PTL
=============================================================================
