----------------------------- MODULE ProcessRun -----------------------------
(***************************************************************************)
(* One child process under limits: run_process (judge/runner.cpp), as      *)
(* run_testcase uses it for a test point and compile_source                *)
(* (judge/compiler.cpp) for the compiler.  The parent polls with           *)
(* wait4(WNOHANG), checks a wall-clock deadline and sleeps 2 ms; the child *)
(* and the kernel's RLIMIT_CPU signals interleave with it.                 *)
(*                                                                         *)
(* Time is counted in ticks of 1/Sec of a second, memory only as "the peak *)
(* reached 95% of the limit or not".                                       *)
(***************************************************************************)
EXTENDS Naturals

CONSTANTS
    Sec,            \* ticks per second
    TimeLimits,     \* problems.time_limit_ms, in ticks
    CompileTimeout, \* kCompileTimeoutMs, in ticks
    Threads         \* CPU ticks a program can burn in one tick of wall time

ASSUME TicksAssumption ==
    /\ Sec \in Nat \ {0}
    /\ TimeLimits \subseteq Nat \ {0}
    /\ CompileTimeout \in Nat \ {0}
    /\ Threads \in Nat \ {0}

VARIABLES
    call,     \* [kind: "test" or "compile", limit: cpu_limit_ms]
    ignores,  \* the program catches or ignores SIGXCPU, or raises its soft limit
    self,     \* history: it ended by a signal or a CPU limit of its own making
    pc,       \* of run_process: "fork", "poll", "deadline", "reap", "done"
    child,    \* "none", "forked", "running", "zombie" or "reaped"
    end,      \* how the child ended
    wall, cpu, high, \* elapsed time, CPU time, peak memory at its limit
    killed,   \* we_killed
    result    \* what the caller makes of it, "none" before the return

vars == <<call, ignores, self, pc, child, end, wall, cpu, high, killed, result>>

Calls == {[kind |-> "test", limit |-> l] : l \in TimeLimits}
            \cup {[kind |-> "compile", limit |-> CompileTimeout]}

Ends == {"exit0", "exitN", "exit127", "SEGV", "XCPU", "KILL"}

\* timeout_ms: the test point gets a second more than its CPU limit.
Deadline == IF call.kind = "test" THEN call.limit + Sec ELSE call.limit

\* Mutant: the seconds of RLIMIT_CPU rounded down.
RoundDown(limit) == IF limit < Sec THEN Sec ELSE (limit \div Sec) * Sec

\* rlim_cur: whole seconds, rounded up, at least one.
SoftLimit(limit) == ((limit + Sec - 1) \div Sec) * Sec

\* Mutant: the hard limit equal to the soft one.
SoftAsHard(limit) == SoftLimit(limit)

\* rlim_max
HardLimit(limit) == SoftLimit(limit) + Sec

Init ==
    /\ call \in Calls
    /\ ignores \in BOOLEAN
    /\ self = FALSE
    /\ pc = "fork"
    /\ child = "none" /\ end = "none"
    /\ wall = 0 /\ cpu = 0 /\ high = FALSE
    /\ killed = FALSE
    /\ result = "none"
-----------------------------------------------------------------------------
(* What the callers make of the outcome.                                   *)

\* Mutant: the wait status alone decides, not we_killed.
OutcomeFromStatus(wasKilled, how) ==
    IF how = "XCPU" THEN "TimeLimit"
    ELSE IF how \in {"exit0", "exitN", "exit127"} THEN "Finished"
    ELSE "Killed"

\* RunOutcome from the wait status; a child that could not be started is
\* Failed only when fork itself failed.
Outcome(wasKilled, how) ==
    IF wasKilled \/ how = "XCPU" THEN "TimeLimit"
    ELSE IF how \in {"exit0", "exitN", "exit127"} THEN "Finished"
    ELSE "Killed"

\* Mutant: outcomes that are no verdict are passed through.
RawResult(outcome, how) ==
    IF outcome # "Finished" THEN outcome ELSE IF how = "exit0" THEN "OK" ELSE "RE"

\* run_testcase: "OK" goes on to the comparison of the output.
TestResult(outcome, how) ==
    CASE outcome = "Failed" -> "SYSTEM_ERROR"
      [] outcome = "TimeLimit" -> "TLE"
      [] outcome \in {"Killed", "Finished"} /\ high -> "MLE"
      [] outcome = "Killed" /\ ~high -> "RE"
      [] outcome = "Finished" /\ ~high -> IF how = "exit0" THEN "OK" ELSE "RE"

\* compile_source, and what judge_one writes for it.
CompileResult(outcome, how) ==
    CASE outcome \in {"Failed", "Killed"} -> "SYSTEM_ERROR"
      [] outcome = "TimeLimit" -> "COMPILE_TIMEOUT"
      [] outcome = "Finished" -> IF how = "exit0" THEN "OK" ELSE "COMPILE_ERROR"

Return(outcome, how) ==
    /\ pc' = "done"
    /\ result' = IF call.kind = "test" THEN TestResult(outcome, how)
                                       ELSE CompileResult(outcome, how)
-----------------------------------------------------------------------------
(* The child and the kernel.                                               *)

Dies(how) == child' = "zombie" /\ end' = how

\* setpgid, the redirections, the limits and execvp; when one fails, the
\* child exits with 127.
ChildStarts ==
    /\ child = "forked"
    /\ \/ child' = "running" /\ UNCHANGED end
       \/ Dies("exit127")
    /\ UNCHANGED <<call, ignores, self, pc, wall, cpu, high, killed, result>>

\* Its own exit, a crash (a failed allocation may end in either), or one of
\* the kernel's two signals at a time of its own choice: it can raise them, and
\* can lower its own RLIMIT_CPU.
ChildEnds ==
    /\ child = "running"
    /\ \E how \in {"exit0", "exitN", "SEGV", "XCPU", "KILL"} :
        /\ Dies(how)
        /\ self' = (how \in {"XCPU", "KILL"})
    /\ UNCHANGED <<call, ignores, pc, wall, cpu, high, killed, result>>

ChildAllocates ==
    /\ child = "running" /\ call.kind = "test" /\ ~high
    /\ high' = TRUE
    /\ UNCHANGED <<call, ignores, self, pc, child, end, wall, cpu, killed, result>>

\* A tick of wall time passes, up to just beyond the deadline: later is not
\* told apart.  A child is assumed to reach execvp before the deadline (a
\* second at the least).  At the soft limit the kernel sends SIGXCPU, at the
\* hard limit SIGKILL.
Tick ==
    /\ child \in {"forked", "running"}
    /\ wall < (IF child = "forked" THEN Deadline ELSE Deadline + 1)
    /\ wall' = wall + 1
    /\ \E burnt \in 0..(IF child = "running" THEN Threads ELSE 0) :
        /\ cpu' = cpu + burnt
        /\ \/ /\ cpu' < SoftLimit(call.limit)
              /\ UNCHANGED <<child, end>>
           \/ /\ cpu' >= SoftLimit(call.limit)
              /\ HardLimit(call.limit) > SoftLimit(call.limit)
              /\ ~ignores
              /\ Dies("XCPU")
           \/ /\ cpu' >= SoftLimit(call.limit)
              /\ cpu' < HardLimit(call.limit)
              /\ ignores
              /\ UNCHANGED <<child, end>>
           \/ /\ cpu' >= HardLimit(call.limit)
              /\ ignores \/ HardLimit(call.limit) = SoftLimit(call.limit)
              /\ Dies("KILL")
    /\ UNCHANGED <<call, ignores, self, pc, high, killed, result>>
-----------------------------------------------------------------------------
(* The parent.                                                             *)

Fork ==
    /\ pc = "fork"
    /\ \/ /\ child' = "forked"
          /\ pc' = "poll"
          /\ UNCHANGED result
       \/ /\ Return("Failed", "none")
          /\ UNCHANGED child
    /\ UNCHANGED <<call, ignores, self, end, wall, cpu, high, killed>>

\* wait4(pid, WNOHANG).
Poll ==
    /\ pc = "poll"
    /\ IF child = "zombie"
       THEN /\ child' = "reaped"
            /\ Return(Outcome(FALSE, end), end)
       ELSE /\ pc' = "deadline"
            /\ UNCHANGED <<child, result>>
    /\ UNCHANGED <<call, ignores, self, end, wall, cpu, high, killed>>


\* Past the deadline the whole process group is killed, also when the child
\* has ended since the poll; otherwise sleep and poll again.
CheckDeadline ==
    /\ pc = "deadline"
    /\ IF wall > Deadline
       THEN /\ killed' = TRUE
            /\ pc' = "reap"
            /\ IF child = "running" THEN Dies("KILL") ELSE UNCHANGED <<child, end>>
       ELSE /\ pc' = "poll"
            /\ UNCHANGED <<killed, child, end>>
    /\ UNCHANGED <<call, ignores, self, wall, cpu, high, result>>

\* wait4(pid), blocking.
Reap ==
    /\ pc = "reap" /\ child = "zombie"
    /\ child' = "reaped"
    /\ Return(Outcome(killed, end), end)
    /\ UNCHANGED <<call, ignores, self, end, wall, cpu, high, killed>>

Parent == Fork \/ Poll \/ CheckDeadline \/ Reap

Next == Parent \/ ChildStarts \/ ChildEnds \/ ChildAllocates \/ Tick

\* The parent and a fresh child are scheduled and time passes; a program need
\* never end, allocate or burn CPU.
Spec == Init /\ [][Next]_vars /\ WF_vars(Parent) /\ WF_vars(ChildStarts) /\ WF_vars(Tick)
-----------------------------------------------------------------------------
TypeOK ==
    /\ call \in Calls
    /\ ignores \in BOOLEAN
    /\ self \in BOOLEAN
    /\ pc \in {"fork", "poll", "deadline", "reap", "done"}
    /\ child \in {"none", "forked", "running", "zombie", "reaped"}
    /\ end \in Ends \cup {"none"}
    /\ wall \in 0..(Deadline + 1)
    /\ cpu \in 0..(Threads * (Deadline + 1))
    /\ high \in BOOLEAN
    /\ killed \in BOOLEAN
    /\ result \in {"none", "OK", "TLE", "MLE", "RE", "SYSTEM_ERROR",
                   "COMPILE_TIMEOUT", "COMPILE_ERROR"}


\* A time limit verdict is for a program that used up its CPU limit, or was
\* still running past the deadline, or brought it upon itself: SIGXCPU is a
\* time-out wherever it comes from (runner.cpp:155), so a program that raises it
\* or has lowered its own limit is reported so, within both limits.
TimeoutIsJustified ==
    result \in {"TLE", "COMPILE_TIMEOUT"} =>
        cpu >= call.limit \/ wall > Deadline \/ (self /\ end = "XCPU")

\* A program that runs out of CPU and leaves SIGXCPU and its limits alone is
\* reported as over its time limit, never as crashed (the reason for
\* rlim_max > rlim_cur, runner.cpp:81).
NoCrashFromCpuLimit ==
    (result \in {"RE", "SYSTEM_ERROR"} /\ ~ignores /\ ~self) => end # "KILL"

\* What is accepted for comparison ended by itself with 0, was not killed by
\* the parent, kept its memory, and its CPU time stayed below the kernel's
\* limits.
OkIsClean ==
    result = "OK" =>
        /\ end = "exit0" /\ ~killed /\ ~high
        /\ cpu < IF ignores THEN HardLimit(call.limit) ELSE SoftLimit(call.limit)

\* What SPEC.md:62 and SPEC.md:25 say: time_limit_ms is the CPU limit of a
\* test point in milliseconds, and exceeding it is a TLE.
OkWithinTimeLimit == (result = "OK" /\ call.kind = "test") => cpu <= call.limit
=============================================================================
