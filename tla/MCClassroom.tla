---------------------------- MODULE MCClassroom ----------------------------
(* Users, problems and threads are interchangeable.                         *)
EXTENDS Classroom, TLC

Symmetry == Permutations(Users) \cup Permutations(Problems) \cup Permutations(Handlers)
=============================================================================
