----------------------------- MODULE JudgeQueue -----------------------------
(***************************************************************************)
(* The in-memory judge queue (src/judge/queue.h, queue.cpp): a deque, a    *)
(* stop flag and one condition variable behind one mutex.  Every method    *)
(* holds the mutex from entry to return except inside cv_.wait, so the     *)
(* grain is one action per critical section: push, shutdown, and for pop   *)
(* one action per evaluation of the wait predicate.                        *)
(***************************************************************************)
EXTENDS Naturals, Sequences, FiniteSets

CONSTANTS
    Consumers,  \* threads that call pop (the judge workers, worker.cpp:163)
    Tasks       \* submission ids that can be pushed

ASSUME ConsumersAssumption == IsFiniteSet(Consumers)

VARIABLES
    items,  \* items_: the deque, head first
    stop,   \* stop_
    phase   \* where each consumer is: "out" of pop, about to "check" the
            \* predicate with the mutex held, or asleep in cv_.wait ("wait")

vars == <<items, stop, phase>>

Sleeping == {c \in Consumers : phase[c] = "wait"}
Checking == {c \in Consumers : phase[c] = "check"}

Init ==
    /\ items = <<>>
    /\ stop = FALSE
    /\ phase = [c \in Consumers |-> "out"]

\* Mutant: notify only when the deque was empty before the push.
NotifyIfWasEmpty ==
    IF Sleeping = {} \/ items # <<>>
    THEN phase' = phase
    ELSE \E c \in Sleeping : phase' = [phase EXCEPT ![c] = "check"]

\* notify_one: wakes one sleeper, whichever, or nobody when none sleeps.
NotifyOne ==
    IF Sleeping = {}
    THEN phase' = phase
    ELSE \E c \in Sleeping : phase' = [phase EXCEPT ![c] = "check"]

\* Mutant: shutdown wakes a single waiter.
NotifyAllAsOne == NotifyOne

\* notify_all: wakes every sleeper.
NotifyAll ==
    phase' = [c \in Consumers |-> IF c \in Sleeping THEN "check" ELSE phase[c]]

\* Mutant: push forgets to notify.
PushSilently(t) ==
    /\ items' = Append(items, t)
    /\ UNCHANGED <<stop, phase>>

Push(t) ==
    /\ items' = Append(items, t)
    /\ NotifyOne
    /\ UNCHANGED stop

Shutdown ==
    /\ stop' = TRUE
    /\ NotifyAll
    /\ UNCHANGED items

\* A consumer calls pop and gets the mutex.
EnterPop(c) ==
    /\ phase[c] = "out"
    /\ phase' = [phase EXCEPT ![c] = "check"]
    /\ UNCHANGED <<items, stop>>

\* Mutant: front() without pop_front().
PopTakeKeeps(c, t) ==
    /\ phase[c] = "check"
    /\ items # <<>>
    /\ t = Head(items)
    /\ phase' = [phase EXCEPT ![c] = "out"]
    /\ UNCHANGED <<items, stop>>

\* The predicate holds and there is an item: pop returns true with the head.
PopTake(c, t) ==
    /\ phase[c] = "check"
    /\ items # <<>>
    /\ t = Head(items)
    /\ items' = Tail(items)
    /\ phase' = [phase EXCEPT ![c] = "out"]
    /\ UNCHANGED stop

\* The predicate holds because of stop_ alone: pop returns false.
PopClosed(c) ==
    /\ phase[c] = "check"
    /\ items = <<>>
    /\ stop
    /\ phase' = [phase EXCEPT ![c] = "out"]
    /\ UNCHANGED <<items, stop>>

\* Mutant: a predicate that forgets stop_ goes back to sleep after shutdown.
PopWaitForgetsStop(c) ==
    /\ phase[c] = "check"
    /\ items = <<>>
    /\ phase' = [phase EXCEPT ![c] = "wait"]
    /\ UNCHANGED <<items, stop>>

\* The predicate is false: the thread releases the mutex and sleeps.
PopWait(c) ==
    /\ phase[c] = "check"
    /\ items = <<>>
    /\ ~stop
    /\ phase' = [phase EXCEPT ![c] = "wait"]
    /\ UNCHANGED <<items, stop>>

\* std::condition_variable may wake a waiter that nobody notified.
SpuriousWake(c) ==
    /\ phase[c] = "wait"
    /\ phase' = [phase EXCEPT ![c] = "check"]
    /\ UNCHANGED <<items, stop>>

CheckPop(c) ==
    \/ \E t \in Tasks : PopTake(c, t)
    \/ PopClosed(c)
    \/ PopWait(c)

Next ==
    \/ \E t \in Tasks : Push(t)
    \/ Shutdown
    \/ \E c \in Consumers : EnterPop(c)
    \/ \E c \in Consumers : CheckPop(c)
    \/ \E c \in Consumers : SpuriousWake(c)

\* A thread that is awake inside pop goes on; nobody has to push, to call
\* pop or to wake spuriously.
Fairness == \A c \in Consumers : WF_vars(CheckPop(c))

Spec == Init /\ [][Next]_vars /\ Fairness
-----------------------------------------------------------------------------
TypeOK ==
    /\ items \in Seq(Tasks)
    /\ stop \in BOOLEAN
    /\ phase \in [Consumers -> {"out", "check", "wait"}]

\* No lost wakeup: while somebody sleeps in cv_.wait, every queued task has a
\* consumer of its own already awake inside pop, so push's single notify_one
\* per task (queue.cpp:10) is enough and no task waits for a sleeper.
NoLostWakeup ==
    Sleeping # {} => Len(items) <= Cardinality(Checking)

\* Nobody sleeps once the queue is shut down (queue.cpp:37), even a consumer
\* that was between its check and its sleep when shutdown ran.
NoSleepAfterStop == stop => Sleeping = {}

\* A worker inside pop at or after shutdown comes back out, with a task or
\* with false: stop() can join it.
StopReleases ==
    \A c \in Consumers : (stop /\ phase[c] # "out") ~> (phase[c] = "out")

\* A task at the head of the queue does not stay there while a consumer is
\* asleep or waking in pop: some consumer takes it.
HeadIsTaken ==
    \A c \in Consumers :
        (items # <<>> /\ phase[c] # "out") ~> (items = <<>> \/ phase[c] = "out")
=============================================================================
