------------------------------ MODULE Accounts ------------------------------
(***************************************************************************)
(* Users, their roles and the classes they own: registration, the four     *)
(* user operations of an administrator (admin_user.cpp) and the creation   *)
(* of a class (ojclass.cpp).  A request is authenticated by one statement, *)
(* decides on what later statements read, and writes by yet another one,   *)
(* without a transaction: one action per SQL statement.  A SELECT that     *)
(* fails before anything else ends its request without a trace and is left *)
(* out; the other failures are there.                                      *)
(*                                                                         *)
(* Names are left out: a user is the value of its AUTO_INCREMENT id, never *)
(* used again, and Root is the row of schema.sql named admin, the only one *)
(* that can have that name while it exists.  Sessions are left out too: an *)
(* enabled user can log in at any time and a disabled or deleted one is    *)
(* refused by resolve_session, so whoever is enabled can start a request.  *)
(***************************************************************************)
EXTENDS Naturals, FiniteSets

CONSTANTS
    Users,      \* ids of the users table
    Root,       \* the built-in administrator
    Handlers,   \* HTTP threads
    Changes,    \* the <<role, status>> pairs an update can ask for
    MaxFaults   \* bound on failing statements

Roles == {"student", "teacher", "admin"}

\* "keep" is an empty role, resp. a status of -1.
AllChanges == (Roles \cup {"keep"}) \X {"on", "off", "keep"}

ASSUME AccountsAssumption ==
    /\ Root \in Users
    /\ Changes \subseteq AllChanges \ {<<"keep", "keep">>}
    /\ MaxFaults \in Nat

VARIABLES
    role,       \* user -> its role, "unborn" or "gone"
    enabled,    \* users with status = 1
    classes,    \* users who own a class, at most one each (uk_teacher)
    req,        \* thread -> the request it serves
    wasAdmin,   \* history: rows that have had the role admin
    slipped,    \* history: owners of a class that an update did not see
    faults

vars == <<role, enabled, classes, req, wasAdmin, slipped, faults>>
-----------------------------------------------------------------------------
Exists(u) == role[u] \in Roles
AdminRows == {u \in Users : role[u] = "admin"}

\* Those who pass require_admin.
Admins == AdminRows \cap enabled

\* A request: what it does next, who sent it and what it is to change.
Idle == [pc |-> "idle"]
Requests ==
    {Idle}
    \cup [pc : {"read", "count", "hasClass", "dropClass", "write"},
          actor : Users, target : Users, change : Changes]
    \cup [pc : {"readDel", "countDel", "delete"}, actor : Users, target : Users]
    \cup [pc : {"create"}, actor : Users, role : Roles]
    \cup [pc : {"lookup", "insertClass"}, actor : Users, target : Users]

At(h, pc) == req[h].pc = pc
Reply(h) == req' = [req EXCEPT ![h] = Idle]
GoTo(h, pc) == req' = [req EXCEPT ![h].pc = pc]

Fault ==
    /\ faults < MaxFaults
    /\ faults' = faults + 1

\* The rows after the initial INSERT of schema.sql.
Init ==
    /\ role = [u \in Users |-> IF u = Root THEN "admin" ELSE "unborn"]
    /\ enabled = {Root}
    /\ classes = {}
    /\ req = [h \in Handlers |-> Idle]
    /\ wasAdmin = {Root}
    /\ slipped = {}
    /\ faults = 0
-----------------------------------------------------------------------------
(* register_user and create_user                                           *)

InsertUser(u, r) ==
    /\ role[u] = "unborn"
    /\ role' = [role EXCEPT ![u] = r]
    /\ enabled' = enabled \cup {u}
    /\ wasAdmin' = IF r = "admin" THEN wasAdmin \cup {u} ELSE wasAdmin

\* A student, or a teacher if the request has the code of the config table.
Register(u) ==
    /\ \E r \in {"student", "teacher"} : InsertUser(u, r)
    /\ UNCHANGED <<classes, req, slipped, faults>>

CreateAuth(h, a, r) ==
    /\ At(h, "idle") /\ a \in Admins
    /\ req' = [req EXCEPT ![h] = [pc |-> "create", actor |-> a, role |-> r]]
    /\ UNCHANGED <<role, enabled, classes, wasAdmin, slipped, faults>>

\* The INSERT; it changes nothing when the name is taken or it fails.
Create(h) ==
    /\ At(h, "create") /\ Reply(h)
    /\ \/ \E u \in Users : InsertUser(u, req[h].role)
       \/ UNCHANGED <<role, enabled, wasAdmin>>
    /\ UNCHANGED <<classes, slipped, faults>>
-----------------------------------------------------------------------------
(* update_user                                                             *)

UpdateAuth(h, a, u, c) ==
    /\ At(h, "idle") /\ a \in Admins
    /\ req' = [req EXCEPT ![h] = [pc |-> "read", actor |-> a, target |-> u, change |-> c]]
    /\ UNCHANGED <<role, enabled, classes, wasAdmin, slipped, faults>>

Demotes(c) == c[1] \in {"student", "teacher"}

\* Mutant: disabling oneself is not refused.
SelfDemotion(h) == req[h].actor = req[h].target /\ Demotes(req[h].change)

\* Mutant: the built-in account is only protected against itself.
RootDemotesItself(h) ==
    req[h].target = Root /\ req[h].actor = Root /\ Demotes(req[h].change)

\* What a request may not do to its own user and to the built-in one.
SelfHarm(h) ==
    /\ req[h].actor = req[h].target
    /\ Demotes(req[h].change) \/ req[h].change[2] = "off"

HarmsRoot(h) ==
    req[h].target = Root /\ role[Root] = "admin" /\ Demotes(req[h].change)

\* Mutant: the class of a teacher is not looked for.
AfterReadNoClass(cur, u, c) ==
    IF cur = "admin" /\ u # Root /\ Demotes(c) THEN "count" ELSE "write"

\* What follows the checks that need no statement of their own.
AfterRead(cur, u, c) ==
    IF cur = "admin" /\ u # Root /\ Demotes(c) THEN "count"
    ELSE IF cur = "teacher" /\ c[1] = "student" THEN "hasClass"
    ELSE "write"

\* SELECT of the target and the checks on it.
ReadTarget(h) ==
    /\ At(h, "read")
    /\ IF ~Exists(req[h].target) \/ SelfHarm(h) \/ HarmsRoot(h)
       THEN Reply(h)
       ELSE GoTo(h, AfterRead(role[req[h].target], req[h].target, req[h].change))
    /\ UNCHANGED <<role, enabled, classes, wasAdmin, slipped, faults>>

\* count_admins, which is 0 when its query fails.
CountAdmins(h) ==
    /\ At(h, "count")
    /\ \/ /\ IF Cardinality(AdminRows) > 1 THEN GoTo(h, "write") ELSE Reply(h)
          /\ UNCHANGED faults
       \/ Fault /\ Reply(h)
    /\ UNCHANGED <<role, enabled, classes, wasAdmin, slipped>>

\* user_has_class, which is false when its query fails.
HasClass(h) ==
    /\ At(h, "hasClass")
    /\ \/ /\ GoTo(h, IF req[h].target \in classes THEN "dropClass" ELSE "write")
          /\ UNCHANGED <<slipped, faults>>
       \/ /\ Fault /\ GoTo(h, "write")
          /\ slipped' = slipped \cup ({req[h].target} \cap classes)
    /\ UNCHANGED <<role, enabled, classes, wasAdmin>>

DropClass(h) ==
    /\ At(h, "dropClass")
    /\ \/ /\ classes' = classes \ {req[h].target}
          /\ slipped' = slipped \ {req[h].target}
          /\ GoTo(h, "write")
          /\ UNCHANGED faults
       \/ Fault /\ Reply(h) /\ UNCHANGED <<classes, slipped>>
    /\ UNCHANGED <<role, enabled, wasAdmin>>

\* Mutant: a role that is not given is written all the same.
ChangedAll(u, c) ==
    /\ role' = [role EXCEPT ![u] = c[1]]
    /\ enabled' = CASE c[2] = "on" -> enabled \cup {u}
                    [] c[2] = "off" -> enabled \ {u}
                    [] OTHER -> enabled
    /\ wasAdmin' = IF c[1] = "admin" THEN wasAdmin \cup {u} ELSE wasAdmin

\* Only the fields that are given are written.
Changed(u, c) ==
    /\ role' = IF c[1] = "keep" THEN role ELSE [role EXCEPT ![u] = c[1]]
    /\ enabled' = CASE c[2] = "on" -> enabled \cup {u}
                    [] c[2] = "off" -> enabled \ {u}
                    [] OTHER -> enabled
    /\ wasAdmin' = IF c[1] = "admin" THEN wasAdmin \cup {u} ELSE wasAdmin

\* The UPDATE, whose result is ignored, and the row read back for the reply.
Write(h) ==
    /\ At(h, "write") /\ Reply(h)
    /\ \/ /\ Exists(req[h].target)
          /\ Changed(req[h].target, req[h].change)
          /\ UNCHANGED faults
       \/ /\ ~Exists(req[h].target)
          /\ UNCHANGED <<role, enabled, wasAdmin, faults>>
       \/ Fault /\ UNCHANGED <<role, enabled, wasAdmin>>
    /\ UNCHANGED <<classes, slipped>>
-----------------------------------------------------------------------------
(* delete_user                                                             *)

DeleteAuth(h, a, u) ==
    /\ At(h, "idle") /\ a \in Admins
    /\ req' = [req EXCEPT ![h] = [pc |-> "readDel", actor |-> a, target |-> u]]
    /\ UNCHANGED <<role, enabled, classes, wasAdmin, slipped, faults>>

DeleteRead(h) ==
    LET u == req[h].target
    IN  /\ At(h, "readDel")
        /\ IF \/ ~Exists(u) \/ req[h].actor = u
              \/ role[u] = "admin" /\ u = Root
           THEN Reply(h)
           ELSE GoTo(h, IF role[u] = "admin" THEN "countDel" ELSE "delete")
        /\ UNCHANGED <<role, enabled, classes, wasAdmin, slipped, faults>>

DeleteCount(h) ==
    /\ At(h, "countDel")
    /\ \/ /\ IF Cardinality(AdminRows) > 1 THEN GoTo(h, "delete") ELSE Reply(h)
          /\ UNCHANGED faults
       \/ Fault /\ Reply(h)
    /\ UNCHANGED <<role, enabled, classes, wasAdmin, slipped>>

\* The DELETE, which takes the class along (fk_classes_teacher).
Delete(h) ==
    LET u == req[h].target
    IN  /\ At(h, "delete") /\ Reply(h)
        /\ \/ /\ role' = IF Exists(u) THEN [role EXCEPT ![u] = "gone"] ELSE role
              /\ enabled' = enabled \ {u}
              /\ classes' = classes \ {u}
              /\ wasAdmin' = wasAdmin \ {u}
              /\ slipped' = slipped \ {u}
              /\ UNCHANGED faults
           \/ Fault /\ UNCHANGED <<role, enabled, classes, wasAdmin, slipped>>
-----------------------------------------------------------------------------
(* create_class                                                            *)

\* require_staff
ClassAuth(h, a) ==
    /\ At(h, "idle")
    /\ a \in enabled /\ role[a] \in {"teacher", "admin"}
    /\ req' = [req EXCEPT ![h] = [pc |-> "lookup", actor |-> a, target |-> a]]
    /\ UNCHANGED <<role, enabled, classes, wasAdmin, slipped, faults>>

\* A class the user has already is returned as it is.
ClassLookup(h) ==
    /\ At(h, "lookup")
    /\ IF req[h].target \in classes THEN Reply(h) ELSE GoTo(h, "insertClass")
    /\ UNCHANGED <<role, enabled, classes, wasAdmin, slipped, faults>>

\* An update of u has decided on what it read, or has been carried out already.
Overtaken(u) ==
    \/ role[u] = "student"
    \/ \E h \in Handlers : At(h, "write") /\ req[h].target = u

\* The INSERT; the keys of the table refuse a second class and a deleted owner.
ClassInsert(h) ==
    LET u == req[h].target
    IN  /\ At(h, "insertClass") /\ Reply(h)
        /\ \/ /\ classes' = IF Exists(u) THEN classes \cup {u} ELSE classes
              /\ slipped' = IF Exists(u) /\ Overtaken(u) THEN slipped \cup {u} ELSE slipped
              /\ UNCHANGED faults
           \/ Fault /\ UNCHANGED <<classes, slipped>>
        /\ UNCHANGED <<role, enabled, wasAdmin>>
-----------------------------------------------------------------------------
Update(h) ==
    \/ \E a, u \in Users, c \in Changes : UpdateAuth(h, a, u, c)
    \/ ReadTarget(h) \/ CountAdmins(h) \/ HasClass(h) \/ DropClass(h) \/ Write(h)

Remove(h) ==
    \/ \E a, u \in Users : DeleteAuth(h, a, u)
    \/ DeleteRead(h) \/ DeleteCount(h) \/ Delete(h)

OwnClass(h) == (\E a \in Users : ClassAuth(h, a)) \/ ClassLookup(h) \/ ClassInsert(h)

Add(h) == (\E a \in Users, r \in Roles : CreateAuth(h, a, r)) \/ Create(h)

Next ==
    \/ \E u \in Users : Register(u)
    \/ \E h \in Handlers : Add(h) \/ Update(h) \/ Remove(h) \/ OwnClass(h)

Spec == Init /\ [][Next]_vars
-----------------------------------------------------------------------------
TypeOK ==
    /\ role \in [Users -> Roles \cup {"unborn", "gone"}]
    /\ enabled \subseteq Users
    /\ classes \subseteq Users
    /\ req \in [Handlers -> Requests]
    /\ wasAdmin \subseteq Users
    /\ slipped \subseteq Users
    /\ faults \in 0..MaxFaults

\* The built-in account is always there and always an administrator, in every
\* order of the statements of any requests (SPEC.md:347): the checks of
\* update_user and delete_user on the row they read are enough for it.
AdminStays == role[Root] = "admin"

\* The last enabled administrator is taken away only by a request whose own
\* sender has lost the role, or the account, since it was authenticated: each
\* of two administrators can disable the other.  A sender who still is one
\* stays one, because of the checks of admin_user.cpp:152 and 229.
OnlyTheStaleLockOut ==
    [][Admins # {} /\ Admins' = {} =>
        \E h \in Handlers : /\ req[h].pc \in {"write", "delete"}
                            /\ req[h].actor \notin Admins
                            /\ req'[h] = Idle]_vars

\* Demoting a teacher to student deletes its class (admin_user.h:11).  There
\* are three ways for a student to keep one, and no other: to have been an
\* administrator (update_user looks for the class of a teacher only), a query
\* for the class that failed (admin_user.cpp:19 takes it for "no class"), and
\* a class whose row was inserted after the update had looked for it.
KeptClassIsExplained ==
    \A u \in classes : role[u] = "student" => u \in wasAdmin \cup slipped
=============================================================================
