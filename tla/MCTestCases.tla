---------------------------- MODULE MCTestCases ----------------------------
(* Threads, cases and values of a limit are interchangeable.                *)
EXTENDS TestCases

Symmetry == UNION {Permutations(S) : S \in {Staff, Cases, Times, Memories}}

\* A bound: a reader is followed as long as nothing has failed.  What the
\* readers promise is promised of an undamaged directory only, and they change
\* nothing that others see.
SoundReaders == faults + crashes = 0 \/ reader = NoReader
=============================================================================
