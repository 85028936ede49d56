----------------------------- MODULE MCAccounts -----------------------------
(* Threads and the users that are not built in are interchangeable.         *)
EXTENDS Accounts, TLC

Symmetry == Permutations(Handlers) \cup Permutations(Users \ {Root})

\* What the page sends: a role or a status.  Enabling is left to registration,
\* whose users are enabled.
MCChanges ==
    ({"student", "admin"} \X {"keep"}) \cup {<<"keep", "off">>}
=============================================================================
