------------------------------ MODULE Classroom ------------------------------
(***************************************************************************)
(* Classes and what hangs on them: invite codes and members (ojclass.cpp), *)
(* who may see and submit to a problem (problem.cpp, submission.cpp), who  *)
(* may edit one (admin_problem.cpp), and the answers computed from more    *)
(* than one statement: the problem list and the statistics.                *)
(*                                                                         *)
(* A request authenticates, checks and writes by separate statements and   *)
(* without a transaction: one action per SQL statement, and the role of    *)
(* the sender is the one read first.  The statements of user management,   *)
(* whose requests Accounts has, may come at any time here.  Titles, names, *)
(* timings and failing statements are left out; a failing statement ends   *)
(* its request.                                                            *)
(***************************************************************************)
EXTENDS Integers, FiniteSets

CONSTANTS
    Users,       \* ids of the users table
    Problems,    \* ids of the problems table
    Handlers,    \* HTTP threads
    FirstRoles,  \* roles that users start with
    MaxRequests, \* bound on requests
    MaxChanges   \* bound on statements of user management and of judging

Roles == {"student", "teacher", "admin"}
Staff == {"teacher", "admin"}

ASSUME ClassroomAssumption ==
    /\ IsFiniteSet(Users) /\ Users \cap {"nobody", "unborn", "gone"} = {}
    /\ "all" \notin Users \cup Problems
    /\ FirstRoles \subseteq Roles
    /\ MaxRequests \in Nat
    /\ MaxChanges \in Nat

VARIABLES
    role,        \* user -> its role, or "gone"
    class,       \* user -> id and invite code of its class, 0 for none
    members,     \* rows <<class id, student>>
    owner,       \* problem -> created_by, "nobody" for NULL; or no row
    subs,        \* submission rows
    next,        \* next id or code of each kind
    req,         \* thread -> the request it serves
    invited,     \* history: <<t, u>> if u presented a valid code of t
    wasStaff,    \* history: users who have been teachers or administrators
    requests, changes

tables == <<role, class, members, owner, subs, next>>
history == <<invited, wasStaff>>
vars == <<tables, req, history, requests, changes>>

NoClass == [id |-> 0, code |-> 0]
Subs == [id : Nat, user : Users, problem : Problems, ac : BOOLEAN]
Counts == [submit : Nat, ac : Nat]

\* The answer of a query with one row per problem: which rows, and their counts.
Tables == [rows : SUBSET Problems, counts : [Problems -> Counts]]

\* code, dead: of a join; class: the id its look-up found; first: the answer
\* of the first of two statements; raced: something was written since.
Idle == [pc |-> "idle"]
Requests ==
    {Idle}
    \cup [pc : {"classLookup", "classInsert", "codeLookup", "codeUpdate",
                "problems", "list"}, user : Users, role : Roles]
    \cup [pc : {"joinLookup"}, user : Users, code : Nat, dead : BOOLEAN]
    \cup [pc : {"joinDup", "joinInsert"}, user : Users, class : Nat, dead : BOOLEAN]
    \cup [pc : {"visible", "submit", "own", "edit", "delete", "import"},
          user : Users, role : Roles, problem : Problems]
    \cup [pc : {"students", "mine"}, user : Users, role : Roles,
          first : Tables, raced : BOOLEAN]
-----------------------------------------------------------------------------
(* The tables                                                              *)

Exists(u) == role[u] \in Roles
Has(p) == owner[p] \in Users \cup {"nobody"}

\* The WHERE clause of a student's queries.
ClassProblem(p, u) ==
    \E t \in Users : /\ owner[p] = t
                     /\ class[t] # NoClass
                     /\ <<class[t].id, u>> \in members

\* Mutant: being in any class is enough.
VisibleToMembers(p, u, r) ==
    Has(p) /\ (r \in Staff \/ owner[p] = "nobody" \/ \E c \in 1..next.class : <<c, u>> \in members)

\* problem_visible and query_problem_detail.
Visible(p, u, r) ==
    Has(p) /\ (r \in Staff \/ owner[p] = "nobody" \/ ClassProblem(p, u))

Counted(S) == [submit |-> Cardinality(S), ac |-> Cardinality({s \in S : s.ac})]

Table(S) == [rows |-> S,
             counts |-> [p \in Problems |-> Counted({s \in subs : s.problem = p /\ p \in S})]]

ProblemStats(u, r) == Table({p \in Problems : Has(p) /\ (r = "teacher" => owner[p] = u)})

\* Mutant: a student's submissions to other teachers' problems count as well.
StudentStatsOfAll(u, r) ==
    [v \in {v \in Users :
              IF r = "teacher" THEN class[u] # NoClass /\ <<class[u].id, v>> \in members
              ELSE \E s \in subs : s.user = v} |->
        Counted({s \in subs : s.user = v})]

\* One row per member for a teacher, who sees the submissions to her problems;
\* one per submitter for an administrator.
StudentStats(u, r) ==
    [v \in {v \in Users :
              IF r = "teacher" THEN class[u] # NoClass /\ <<class[u].id, v>> \in members
              ELSE \E s \in subs : s.user = v} |->
        Counted({s \in subs : s.user = v /\ (r = "teacher" => owner[s.problem] = u)})]

\* The rows of the CSV file for the filters "all" or one problem, one user.
Exported(u, r, ofProblem, ofUser) ==
    {s \in subs : /\ r = "teacher" => owner[s.problem] = u
                  /\ ofProblem \in {"all", s.problem}
                  /\ ofUser \in {"all", s.user}}

Listed(u, r) == Table({p \in Problems : Visible(p, u, r)})

Mine(u) == [p \in {s.problem : s \in {s \in subs : s.user = u}} |->
                \E s \in subs : s.user = u /\ s.problem = p /\ s.ac]

Init ==
    /\ role \in [Users -> FirstRoles]
    /\ \E T \in SUBSET {u \in Users : role[u] \in Staff} :
          /\ Cardinality(T) <= 1
          /\ class = [u \in Users |-> IF u \in T THEN [id |-> 1, code |-> 1] ELSE NoClass]
          /\ next = [class |-> Cardinality(T) + 1, code |-> Cardinality(T) + 1, sub |-> 1]
          /\ \E S \in SUBSET {u \in Users : role[u] = "student"} :
                /\ T = {} => S = {}
                /\ members = {1} \X S
                /\ invited = T \X S
    /\ owner \in [Problems -> {u \in Users : role[u] = "teacher"} \cup {"nobody", "unborn"}]
    /\ subs = {}
    /\ req = [h \in Handlers |-> Idle]
    /\ wasStaff = {u \in Users : role[u] \in Staff}
    /\ requests = 0 /\ changes = 0

At(h, pc) == req[h].pc = pc
GoTo(h, pc) == req' = [req EXCEPT ![h].pc = pc]
Reply(h) == req' = [req EXCEPT ![h] = Idle]

\* A write, with the next state of the thread that does it: answers that
\* others have half computed are raced.
Raced(r) == IF r.pc \in {"students", "mine"} THEN [r EXCEPT !.raced = TRUE] ELSE r
Wrote(h) == req' = [g \in Handlers |-> IF g = h THEN Idle ELSE Raced(req[g])]

\* resolve_session: a user who exists starts a request.
Begin(h, r) ==
    /\ At(h, "idle") /\ requests < MaxRequests /\ Exists(r.user)
    /\ requests' = requests + 1
    /\ req' = [req EXCEPT ![h] = r]
    /\ UNCHANGED <<tables, history, changes>>

AuthStaff(h, u) ==
    /\ role[u] \in Staff
    /\ \E pc \in {"classLookup", "codeLookup", "problems"} :
          Begin(h, [pc |-> pc, user |-> u, role |-> role[u]])

AuthEditor(h, u, p) ==
    /\ role[u] \in Staff
    /\ \E pc \in {"own", "import"} :
          Begin(h, [pc |-> pc, user |-> u, role |-> role[u], problem |-> p])

AuthUser(h, u, p) ==
    \/ Begin(h, [pc |-> "list", user |-> u, role |-> role[u]])
    \/ Begin(h, [pc |-> "visible", user |-> u, role |-> role[u], problem |-> p])

AuthStudent(h, u, code) ==
    /\ role[u] = "student"
    /\ Begin(h, [pc |-> "joinLookup", user |-> u, code |-> code,
                 dead |-> \A t \in Users : class[t].code # code])
-----------------------------------------------------------------------------
(* create_class and regenerate_invite_code                                 *)

\* A second creation answers with the class that is there.
ClassLookup(h) ==
    /\ At(h, "classLookup")
    /\ IF class[req[h].user] = NoClass THEN GoTo(h, "classInsert") ELSE Reply(h)
    /\ UNCHANGED <<tables, history, requests, changes>>

\* Mutant: the generator starts again with its first code.
ClassInsertRepeats(h) ==
    LET u == req[h].user
        fails == ~Exists(u) \/ class[u] # NoClass
    IN  /\ At(h, "classInsert")
        /\ IF fails
           THEN Reply(h) /\ UNCHANGED <<class, next>>
           ELSE /\ Wrote(h)
                /\ class' = [class EXCEPT ![u] = [id |-> next.class, code |-> 1]]
                /\ next' = [next EXCEPT !.class = @ + 1]
        /\ UNCHANGED <<role, members, owner, subs, history, requests, changes>>

\* uk_teacher and the foreign key let the INSERT fail.
ClassInsert(h) ==
    LET u == req[h].user
        fails == ~Exists(u) \/ class[u] # NoClass
    IN  /\ At(h, "classInsert")
        /\ IF fails
           THEN Reply(h) /\ UNCHANGED <<class, next>>
           ELSE /\ Wrote(h)
                /\ class' = [class EXCEPT ![u] = [id |-> next.class, code |-> next.code]]
                /\ next' = [next EXCEPT !.class = @ + 1, !.code = @ + 1]
        /\ UNCHANGED <<role, members, owner, subs, history, requests, changes>>

CodeLookup(h) ==
    /\ At(h, "codeLookup")
    /\ IF class[req[h].user] = NoClass THEN Reply(h) ELSE GoTo(h, "codeUpdate")
    /\ UNCHANGED <<tables, history, requests, changes>>

\* The UPDATE is by teacher: it finds no row, or a newer one, when the class
\* was deleted after the look-up, and is answered with the new code all the same.
CodeUpdate(h) ==
    LET u == req[h].user
    IN  /\ At(h, "codeUpdate") /\ Wrote(h)
        /\ class' = IF class[u] = NoClass THEN class
                    ELSE [class EXCEPT ![u].code = next.code]
        /\ next' = [next EXCEPT !.code = @ + 1]
        /\ UNCHANGED <<role, members, owner, subs, history, requests, changes>>
-----------------------------------------------------------------------------
(* join_class                                                              *)

JoinLookup(h) ==
    LET found == {t \in Users : class[t] # NoClass /\ class[t].code = req[h].code}
    IN  /\ At(h, "joinLookup")
        /\ \/ found = {} /\ Reply(h) /\ UNCHANGED invited
           \/ \E t \in found :
                /\ req' = [req EXCEPT ![h] = [pc |-> "joinDup", user |-> @.user,
                                              class |-> class[t].id, dead |-> @.dead]]
                /\ invited' = invited \cup {<<t, req[h].user>>}
        /\ UNCHANGED <<tables, wasStaff, requests, changes>>

JoinDup(h) ==
    /\ At(h, "joinDup")
    /\ IF <<req[h].class, req[h].user>> \in members THEN Reply(h) ELSE GoTo(h, "joinInsert")
    /\ UNCHANGED <<tables, history, requests, changes>>

\* Mutant: the row is inserted whether or not the class and the user are there.
JoinInsertUnchecked(h) ==
    /\ At(h, "joinInsert")
    /\ Wrote(h) /\ members' = members \cup {<<req[h].class, req[h].user>>}
    /\ UNCHANGED <<role, class, owner, subs, next, history, requests, changes>>

\* The primary key and the two foreign keys let the INSERT fail.
JoinInsert(h) ==
    LET row == <<req[h].class, req[h].user>>
        fails == \/ row \in members
                 \/ ~Exists(req[h].user)
                 \/ \A t \in Users : class[t].id # req[h].class
    IN  /\ At(h, "joinInsert")
        /\ IF fails THEN Reply(h) /\ UNCHANGED members
           ELSE Wrote(h) /\ members' = members \cup {row}
        /\ UNCHANGED <<role, class, owner, subs, next, history, requests, changes>>
-----------------------------------------------------------------------------
(* create_submission                                                       *)

SubmitCheck(h) ==
    /\ At(h, "visible")
    /\ IF Visible(req[h].problem, req[h].user, req[h].role) THEN GoTo(h, "submit") ELSE Reply(h)
    /\ UNCHANGED <<tables, history, requests, changes>>

SubmitInsert(h) ==
    LET r == req[h]
    IN  /\ At(h, "submit")
        /\ IF ~Exists(r.user) \/ ~Has(r.problem)
           THEN Reply(h) /\ UNCHANGED <<subs, next>>
           ELSE /\ Wrote(h)
                /\ subs' = subs \cup {[id |-> next.sub, user |-> r.user,
                                       problem |-> r.problem, ac |-> FALSE]}
                /\ next' = [next EXCEPT !.sub = @ + 1]
        /\ UNCHANGED <<role, class, members, owner, history, requests, changes>>
-----------------------------------------------------------------------------
(* Import, update and deletion of a problem                                *)

\* Mutant: teachers may edit the problems of nobody.
MayEditGlobal(p, u, r) == Has(p) /\ (r = "teacher" => owner[p] \in {u, "nobody"})

\* check_problem_owner.
MayEdit(p, u, r) == Has(p) /\ (r = "teacher" => owner[p] = u)

\* "edit" stands for an update of the row, its limits or its test cases.
OwnerCheck(h) ==
    /\ At(h, "own")
    /\ IF MayEdit(req[h].problem, req[h].user, req[h].role)
       THEN \E pc \in {"edit", "delete"} : GoTo(h, pc)
       ELSE Reply(h)
    /\ UNCHANGED <<tables, history, requests, changes>>

ProblemEdit(h) ==
    /\ At(h, "edit") /\ Reply(h)
    /\ UNCHANGED <<tables, history, requests, changes>>

ProblemDelete(h) ==
    LET p == req[h].problem
    IN  /\ At(h, "delete") /\ Wrote(h)
        /\ owner' = IF Has(p) THEN [owner EXCEPT ![p] = "gone"] ELSE owner
        /\ subs' = {s \in subs : s.problem # p}
        /\ UNCHANGED <<role, class, members, next, history, requests, changes>>

\* Administrators import for everybody, teachers for their class.
ProblemImport(h) ==
    LET r == req[h]
    IN  /\ At(h, "import")
        /\ IF owner[r.problem] # "unborn" \/ (r.role = "teacher" /\ ~Exists(r.user))
           THEN Reply(h) /\ UNCHANGED owner
           ELSE /\ Wrote(h)
                /\ owner' = [owner EXCEPT ![r.problem] =
                                IF r.role = "admin" THEN "nobody" ELSE r.user]
        /\ UNCHANGED <<role, class, members, subs, next, history, requests, changes>>
-----------------------------------------------------------------------------
(* query_admin_stats and query_problem_list                                *)

StatsProblems(h) ==
    /\ At(h, "problems")
    /\ req' = [req EXCEPT ![h] = [pc |-> "students", user |-> @.user, role |-> @.role,
                                  first |-> ProblemStats(@.user, @.role), raced |-> FALSE]]
    /\ UNCHANGED <<tables, history, requests, changes>>

StatsStudents(h) ==
    /\ At(h, "students") /\ Reply(h)
    /\ UNCHANGED <<tables, history, requests, changes>>

ListProblems(h) ==
    /\ At(h, "list")
    /\ req' = [req EXCEPT ![h] = [pc |-> "mine", user |-> @.user, role |-> @.role,
                                  first |-> Listed(@.user, @.role), raced |-> FALSE]]
    /\ UNCHANGED <<tables, history, requests, changes>>

ListMine(h) ==
    /\ At(h, "mine") /\ Reply(h)
    /\ UNCHANGED <<tables, history, requests, changes>>
-----------------------------------------------------------------------------
(* Statements of user management and of judging                            *)

Change ==
    /\ changes < MaxChanges
    /\ changes' = changes + 1
    /\ req' = [h \in Handlers |-> Raced(req[h])]
    /\ UNCHANGED requests

RoleWritten(u, r) ==
    /\ Change /\ Exists(u)
    /\ role' = [role EXCEPT ![u] = r]
    /\ wasStaff' = IF r \in Staff THEN wasStaff \cup {u} ELSE wasStaff
    /\ UNCHANGED <<class, members, owner, subs, next, invited>>

\* A class takes its members with it.
ClassDropped(t) ==
    /\ Change /\ class[t] # NoClass
    /\ class' = [class EXCEPT ![t] = NoClass]
    /\ members' = {m \in members : m[1] # class[t].id}
    /\ UNCHANGED <<role, owner, subs, next, history>>

\* The foreign keys of sessions apart: CASCADE, and SET NULL for problems.
UserDeleted(u) ==
    /\ Change /\ Exists(u)
    /\ role' = [role EXCEPT ![u] = "gone"]
    /\ class' = [class EXCEPT ![u] = NoClass]
    /\ members' = {m \in members : m[2] # u /\ m[1] # class[u].id}
    /\ owner' = [p \in Problems |-> IF owner[p] = u THEN "nobody" ELSE owner[p]]
    /\ subs' = {s \in subs : s.user # u}
    /\ UNCHANGED <<next, history>>

\* A verdict, of a judging or of a rejudge.
Judged(s) ==
    /\ Change
    /\ subs' = (subs \ {s}) \cup {[s EXCEPT !.ac = ~@]}
    /\ UNCHANGED <<role, class, members, owner, next, history>>
-----------------------------------------------------------------------------
Auth(h) ==
    \E u \in Users :
        \/ AuthStaff(h, u)
        \/ \E p \in Problems : AuthEditor(h, u, p) \/ AuthUser(h, u, p)
        \/ \E code \in 1..(next.code - 1) : AuthStudent(h, u, code)

Classes(h) == ClassLookup(h) \/ ClassInsert(h) \/ CodeLookup(h) \/ CodeUpdate(h)
Join(h) == JoinLookup(h) \/ JoinDup(h) \/ JoinInsert(h)
Submit(h) == SubmitCheck(h) \/ SubmitInsert(h)
Edit(h) == OwnerCheck(h) \/ ProblemEdit(h) \/ ProblemDelete(h) \/ ProblemImport(h)
Answer(h) == StatsProblems(h) \/ StatsStudents(h) \/ ListProblems(h) \/ ListMine(h)

Handler(h) == Auth(h) \/ Classes(h) \/ Join(h) \/ Submit(h) \/ Edit(h) \/ Answer(h)

Others ==
    \/ \E u \in Users : (\E r \in Roles : RoleWritten(u, r)) \/ ClassDropped(u) \/ UserDeleted(u)
    \/ \E s \in subs : Judged(s)

Next == (\E h \in Handlers : Handler(h)) \/ Others

Spec == Init /\ [][Next]_vars
-----------------------------------------------------------------------------
(* Referential integrity is part of the types: every row refers to rows.   *)
TypeOK ==
    /\ role \in [Users -> Roles \cup {"gone"}]
    /\ class \in [Users -> [id : Nat, code : Nat]]
    /\ \A u \in Users : class[u] # NoClass =>
            /\ Exists(u)
            /\ class[u].id \in 1..(next.class - 1)
            /\ class[u].code \in 1..(next.code - 1)
    /\ members \subseteq Nat \X Users
    /\ \A m \in members : Exists(m[2]) /\ \E t \in Users : class[t] # NoClass /\ class[t].id = m[1]
    /\ owner \in [Problems -> Users \cup {"nobody", "unborn", "gone"}]
    /\ \A p \in Problems : owner[p] \in Users => Exists(owner[p])
    /\ subs \subseteq Subs
    /\ \A s \in subs : Exists(s.user) /\ Has(s.problem)
    /\ next \in [class : Nat \ {0}, code : Nat \ {0}, sub : Nat \ {0}]
    /\ req \in [Handlers -> Requests]
    /\ invited \subseteq Users \X Users
    /\ wasStaff \subseteq Users
    /\ requests \in 0..MaxRequests
    /\ changes \in 0..MaxChanges

\* A code that was no class's any more when the join began admits nobody
\* (ojclass.cpp:135), however creations, deletions, new codes and joins
\* interleave.  A code replaced after the look-up still does.
DeadCodesAdmitNobody ==
    \A h \in Handlers : req[h].pc \in {"joinDup", "joinInsert"} => ~req[h].dead

\* SPEC 4.9: whoever was never a teacher or an administrator has submitted to
\* a teacher's problem only after presenting a code of that teacher's class:
\* through look-up, INSERT, visibility check and INSERT (submission.cpp:73), with
\* classes deleted and created anew and roles changed in between.
TeachersProblemsNeedInvitation ==
    \A s \in subs :
        owner[s.problem] \in Users /\ s.user \notin wasStaff
        => <<owner[s.problem], s.user>> \in invited

\* The owner is checked before the writes of an update or deletion
\* (admin_problem.cpp:30): by then the problem is still the sender's, or it is
\* gone, or the sender is.  The sender's role may have changed.
OnlyOwnersEdit ==
    \A h \in Handlers :
        req[h].pc \in {"edit", "delete"} /\ req[h].role = "teacher" =>
            \/ owner[req[h].problem] \in {req[h].user, "gone"}
            \/ owner[req[h].problem] = "nobody" /\ role[req[h].user] = "gone"

\* The sum of a column, as the size of a set with so many pairs for each row.
Total(f, of(_)) == Cardinality(UNION {{x} \X (1..of(f[x])) : x \in DOMAIN f})
Submits(c) == c.submit
Accepted(c) == c.ac

\* The two statements of the statistics (admin_stats.cpp:82) and the CSV file
\* agree: all submissions are some problem's and some student's; a teacher's
\* students have no more than her problems; the file has one line per
\* submission counted.
StatisticsAgree ==
    \A h \in Handlers : At(h, "students") /\ ~req[h].raced =>
        LET r == req[h]
            students == StudentStats(r.user, r.role)
            problems == r.first.counts
        IN  /\ r.role = "admin" => /\ Total(students, Submits) = Total(problems, Submits)
                                   /\ Total(students, Accepted) = Total(problems, Accepted)
            /\ Total(students, Submits) <= Total(problems, Submits)
            /\ Total(students, Accepted) <= Total(problems, Accepted)
            /\ Cardinality(Exported(r.user, r.role, "all", "all")) = Total(problems, Submits)
            /\ \A p \in r.first.rows :
                  Cardinality(Exported(r.user, r.role, p, "all")) = problems[p].submit
            /\ \A v \in DOMAIN students :
                  Cardinality(Exported(r.user, r.role, "all", v)) = students[v].submit

\* A problem shown as solved or attempted has an accepted submission, resp. a
\* submission, in the same list (problem.cpp:467).
ListAgrees ==
    \A h \in Handlers : At(h, "mine") /\ ~req[h].raced =>
        \A p \in req[h].first.rows \cap DOMAIN Mine(req[h].user) :
            /\ req[h].first.counts[p].submit > 0
            /\ Mine(req[h].user)[p] => req[h].first.counts[p].ac > 0

\* An answer put together from several statements is consistent with itself
\* unless something was written between them; nothing else can tear it.
AnswersAgree == StatisticsAgree /\ ListAgrees
=============================================================================
