----------------------------- MODULE MCJudgePool -----------------------------
(***************************************************************************)
(* JudgePool for TLC: workers, submissions and handlers are              *)
(* interchangeable, so the safety run identifies states that differ only   *)
(* by a permutation of each set.                                           *)
(***************************************************************************)
EXTENDS JudgePool, TLC

Symmetry ==
    Permutations(Workers) \cup Permutations(Submissions) \cup Permutations(Handlers)
=============================================================================
