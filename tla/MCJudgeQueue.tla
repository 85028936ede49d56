---------------------------- MODULE MCJudgeQueue ----------------------------
(***************************************************************************)
(* JudgeQueue with its deque bounded for TLC.  The bound cuts pushes only, *)
(* which no fairness forces, so it removes no pop, wakeup or shutdown.     *)
(***************************************************************************)
EXTENDS JudgeQueue

CONSTANT MaxItems  \* longest deque explored

BoundedNext == Next /\ Len(items') <= MaxItems

BoundedSpec == Init /\ [][BoundedNext]_vars /\ Fairness
=============================================================================
