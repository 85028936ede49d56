---------------------------- MODULE JudgingService ----------------------------
(***************************************************************************)
(* What the judging pipeline promises its users, without threads, queue or *)
(* SQL: every accepted request to judge a submission (its creation, or a   *)
(* rejudge) is owed exactly one delivery, and while the service is open    *)
(* each delivery happens.  JudgePool is shown to implement this.           *)
(***************************************************************************)
EXTENDS Naturals, FiniteSets

CONSTANT Submissions

VARIABLES
    shown,      \* what a user sees: "none", "waiting", "judged" or "gone"
    owed,       \* deliveries still owed per submission
    abandoned,  \* submissions whose last delivery failed and is not retried
    open        \* deliveries are promised

vars == <<shown, owed, abandoned, open>>

Init ==
    /\ shown = [s \in Submissions |-> "none"]
    /\ owed = [s \in Submissions |-> 0]
    /\ abandoned = {}
    /\ open = TRUE

Submit(s) ==
    /\ shown[s] = "none"
    /\ shown' = [shown EXCEPT ![s] = "waiting"]
    /\ owed' = [owed EXCEPT ![s] = @ + 1]
    /\ UNCHANGED <<abandoned, open>>

\* A rejudge of a row deleted meanwhile is still owed a (void) delivery.
Rejudge(s) ==
    /\ shown[s] # "none"
    /\ shown' = [shown EXCEPT ![s] = IF @ = "gone" THEN "gone" ELSE "waiting"]
    /\ owed' = [owed EXCEPT ![s] = @ + 1]
    /\ abandoned' = abandoned \ {s}
    /\ UNCHANGED open

\* A judging in progress takes an already visible verdict back: only when
\* another delivery is owed.
Reopen(s) ==
    /\ shown[s] = "judged" /\ owed[s] > 0
    /\ shown' = [shown EXCEPT ![s] = "waiting"]
    /\ UNCHANGED <<owed, abandoned, open>>

\* One owed judging ends: with a verdict, or with a failure that is given up.
Deliver(s) ==
    /\ owed[s] > 0
    /\ owed' = [owed EXCEPT ![s] = @ - 1]
    /\ \/ /\ shown' = [shown EXCEPT ![s] = IF @ = "gone" THEN "gone" ELSE "judged"]
          /\ UNCHANGED abandoned
       \/ /\ abandoned' = abandoned \cup {s}
          /\ UNCHANGED shown
    /\ UNCHANGED open

Delete ==
    \E S \in SUBSET Submissions :
        /\ S # {} /\ \A s \in S : shown[s] \in {"waiting", "judged"}
        /\ shown' = [s \in Submissions |-> IF s \in S THEN "gone" ELSE shown[s]]
        /\ UNCHANGED <<owed, abandoned, open>>

Close ==
    /\ open' = FALSE
    /\ UNCHANGED <<shown, owed, abandoned>>

\* Everything owed is in memory and dies with the process.
Crash ==
    /\ owed' = [s \in Submissions |-> 0]
    /\ abandoned' = abandoned \cup {s \in Submissions : shown[s] = "waiting"}
    /\ open' = TRUE
    /\ UNCHANGED shown

Next ==
    \/ \E s \in Submissions : Submit(s) \/ Rejudge(s) \/ Reopen(s) \/ Deliver(s)
    \/ Delete \/ Close \/ Crash

Fairness == \A s \in Submissions : WF_vars(open /\ Deliver(s))

Spec == Init /\ [][Next]_vars /\ Fairness
=============================================================================
