------------------------------ MODULE CaseList ------------------------------
(***************************************************************************)
(* What the maintenance of hidden test cases promises (API.md 11.6, 11.7): *)
(* a list of cases that grows at its end, from which any one case can be   *)
(* taken, and which new cases replace as a whole.  The files of a test     *)
(* directory implement it in TestCases.                                    *)
(***************************************************************************)
EXTENDS SequencesExt

CONSTANT Cases

VARIABLE list

Init == list \in Seq(Cases)

\* The new case comes after all the others.
AddCase == \E c \in Cases : list' = Append(list, c)

\* One case goes; the others keep their order.
DeleteCase == \E i \in DOMAIN list : list' = RemoveAt(list, i)

\* Cases that are not on the list take the place of all that are.
ReplaceCases ==
    /\ list' \in Seq(Cases) \ {<<>>}
    /\ Range(list') \cap Range(list) = {}

Next == AddCase \/ DeleteCase \/ ReplaceCases

Spec == Init /\ [][Next]_list
=============================================================================
