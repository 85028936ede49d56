--------------------------- MODULE MCProblemStore ---------------------------
(* Threads, titles and test sets are interchangeable.                       *)
EXTENDS ProblemStore, TLC

Symmetry == Permutations(Staff) \cup Permutations(Titles) \cup Permutations(Versions)
=============================================================================
