--------------------------- MODULE AccountsProofs ---------------------------
(***************************************************************************)
(* The protection rules of user management, for any users, threads,        *)
(* requests and failing statements, and with any overlap of the requests.  *)
(***************************************************************************)
EXTENDS Accounts, TLAPS

UpdatePcs == {"read", "count", "hasClass", "dropClass", "write"}
DeletePcs == {"readDel", "countDel", "delete"}

\* A request that has passed the checks on the row it read neither demotes or
\* deletes the built-in account nor takes its sender's own role away.
CheckedUpdate(h) ==
    req[h].pc \in UpdatePcs \ {"read"} =>
        /\ req[h].target = Root => ~Demotes(req[h].change)
        /\ req[h].target = req[h].actor =>
               ~Demotes(req[h].change) /\ req[h].change[2] # "off"

CheckedDelete(h) ==
    req[h].pc \in DeletePcs \ {"readDel"} =>
        req[h].target # Root /\ req[h].target # req[h].actor

Checked == \A h \in Handlers : CheckedUpdate(h) /\ CheckedDelete(h)

IInv == TypeOK /\ AdminStays /\ Checked
-----------------------------------------------------------------------------
\* What the label of a request says of its fields.
LEMMA UpdateRequest ==
  ASSUME TypeOK, NEW h \in Handlers, req[h].pc \in UpdatePcs
  PROVE  /\ req[h] \in [pc : UpdatePcs, actor : Users, target : Users, change : Changes]
         /\ req[h].actor \in Users /\ req[h].target \in Users
         /\ req[h].change \in Changes
         /\ req[h].change[1] \in Roles \cup {"keep"}
BY AccountsAssumption DEF TypeOK, Requests, Idle, UpdatePcs, AllChanges

LEMMA DeleteRequest ==
  ASSUME TypeOK, NEW h \in Handlers, req[h].pc \in DeletePcs
  PROVE  /\ req[h] \in [pc : DeletePcs, actor : Users, target : Users]
         /\ req[h].actor \in Users /\ req[h].target \in Users
BY DEF TypeOK, Requests, Idle, DeletePcs

\* A reply, and a step inside an operation, keep the requests typed.
LEMMA ReplyKeeps ==
  ASSUME TypeOK, Checked, NEW h \in Handlers, Reply(h)
  PROVE  req' \in [Handlers -> Requests] /\ Checked'
<1>1. /\ req' \in [Handlers -> Requests]
      /\ req'[h].pc = "idle"
      /\ \A g \in Handlers \ {h} : req'[g] = req[g]
  BY DEF Reply, TypeOK, Requests, Idle
<1>2. CheckedUpdate(h)' /\ CheckedDelete(h)'
  BY <1>1 DEF CheckedUpdate, CheckedDelete, UpdatePcs, DeletePcs
<1> QED
  BY <1>1, <1>2 DEF Checked, CheckedUpdate, CheckedDelete, Demotes

LEMMA GoToKeepsType ==
  ASSUME TypeOK, NEW h \in Handlers, NEW pc,
         \/ req[h].pc \in UpdatePcs /\ pc \in UpdatePcs
         \/ req[h].pc \in DeletePcs /\ pc \in DeletePcs,
         GoTo(h, pc)
  PROVE  /\ req' \in [Handlers -> Requests]
         /\ req'[h].pc = pc
         /\ req'[h].actor = req[h].actor /\ req'[h].target = req[h].target
         /\ req[h].pc \in UpdatePcs => req'[h].change = req[h].change
         /\ \A g \in Handlers \ {h} : req'[g] = req[g]
<1>1. req' = [req EXCEPT ![h] = [req[h] EXCEPT !.pc = pc]]
  BY DEF GoTo
<1>2. CASE req[h].pc \in UpdatePcs
  BY <1>1, <1>2, UpdateRequest DEF TypeOK, Requests, UpdatePcs, DeletePcs
<1>3. CASE req[h].pc \in DeletePcs
  BY <1>1, <1>3, DeleteRequest DEF TypeOK, Requests, UpdatePcs, DeletePcs
<1> QED
  BY <1>2, <1>3

\* Between two steps after the checks nothing has to be checked again.
LEMMA GoToKeeps ==
  ASSUME TypeOK, Checked, NEW h \in Handlers, NEW pc,
         \/ req[h].pc \in UpdatePcs \ {"read"} /\ pc \in UpdatePcs
         \/ req[h].pc \in DeletePcs \ {"readDel"} /\ pc \in DeletePcs,
         GoTo(h, pc)
  PROVE  req' \in [Handlers -> Requests] /\ Checked'
<1>1. /\ req' \in [Handlers -> Requests]
      /\ req'[h].pc = pc
      /\ req'[h].actor = req[h].actor /\ req'[h].target = req[h].target
      /\ req[h].pc \in UpdatePcs => req'[h].change = req[h].change
      /\ \A g \in Handlers \ {h} : req'[g] = req[g]
  BY GoToKeepsType
<1>2. CheckedUpdate(h)' /\ CheckedDelete(h)'
  BY <1>1 DEF Checked, CheckedUpdate, CheckedDelete, Demotes, UpdatePcs, DeletePcs
<1> QED
  BY <1>1, <1>2 DEF Checked, CheckedUpdate, CheckedDelete, Demotes

\* A new request has passed no check yet, and needs none.
LEMMA StartKeeps ==
  ASSUME TypeOK, Checked, NEW h \in Handlers, NEW r \in Requests,
         r.pc \in {"read", "readDel", "create", "lookup", "insertClass"},
         req' = [req EXCEPT ![h] = r]
  PROVE  req' \in [Handlers -> Requests] /\ Checked'
<1>1. /\ req' \in [Handlers -> Requests]
      /\ req'[h] = r
      /\ \A g \in Handlers \ {h} : req'[g] = req[g]
  BY DEF TypeOK
<1>2. CheckedUpdate(h)' /\ CheckedDelete(h)'
  BY <1>1 DEF CheckedUpdate, CheckedDelete, UpdatePcs, DeletePcs
<1> QED
  BY <1>1, <1>2 DEF Checked, CheckedUpdate, CheckedDelete, Demotes

LEMMA FaultType == ASSUME TypeOK, UNCHANGED faults \/ Fault PROVE faults' \in 0..MaxFaults
BY AccountsAssumption DEF TypeOK, Fault
-----------------------------------------------------------------------------
\* Each operation keeps the inductive invariant.

\* The row schema.sql inserts satisfies it: no request is under way.
THEOREM Start == Init => IInv
BY AccountsAssumption
   DEF Init, IInv, TypeOK, AdminStays, Checked, CheckedUpdate, CheckedDelete,
       Roles, Requests, Idle, UpdatePcs, DeletePcs

LEMMA InsertKeeps ==
  ASSUME TypeOK, AdminStays, NEW u \in Users, NEW r \in Roles, InsertUser(u, r)
  PROVE  /\ role' \in [Users -> Roles \cup {"unborn", "gone"}]
         /\ enabled' \subseteq Users /\ wasAdmin' \subseteq Users
         /\ AdminStays'
BY AccountsAssumption DEF InsertUser, TypeOK, AdminStays

LEMMA AddKeeps ==
  ASSUME IInv, NEW h \in Handlers, Add(h)
  PROVE  IInv'
<1>1. CASE \E a \in Users, r \in Roles : CreateAuth(h, a, r)
  <2>1. PICK a \in Users, r \in Roles : CreateAuth(h, a, r)
    BY <1>1
  <2>2. req' \in [Handlers -> Requests] /\ Checked'
    BY <2>1, StartKeeps DEF IInv, CreateAuth, Requests
  <2> QED
    BY <2>1, <2>2 DEF IInv, CreateAuth, TypeOK, AdminStays
<1>2. CASE Create(h)
  <2>1. req' \in [Handlers -> Requests] /\ Checked'
    BY <1>2, ReplyKeeps DEF IInv, Create
  <2>2. req[h].role \in Roles
    BY <1>2 DEF IInv, TypeOK, Create, At, Requests, Idle
  <2>3. \/ \E u \in Users : InsertUser(u, req[h].role)
        \/ UNCHANGED <<role, enabled, wasAdmin>>
    BY <1>2 DEF Create
  <2>4. /\ role' \in [Users -> Roles \cup {"unborn", "gone"}]
        /\ enabled' \subseteq Users /\ wasAdmin' \subseteq Users
        /\ AdminStays'
    BY <2>2, <2>3, InsertKeeps DEF IInv, TypeOK, AdminStays
  <2> QED
    BY <1>2, <2>1, <2>4 DEF IInv, Create, TypeOK
<1> QED
  BY <1>1, <1>2 DEF Add

LEMMA ReadTargetKeeps ==
  ASSUME IInv, NEW h \in Handlers, ReadTarget(h)
  PROVE  IInv'
<1> DEFINE next == AfterRead(role[req[h].target], req[h].target, req[h].change)
<1>1. CASE Reply(h)
  BY <1>1, ReplyKeeps DEF IInv, ReadTarget, TypeOK, AdminStays
<1>2. CASE GoTo(h, next) /\ ~SelfHarm(h) /\ ~HarmsRoot(h)
  <2>1. next \in UpdatePcs \ {"read"} /\ req[h].pc \in UpdatePcs
    BY <1>2 DEF AfterRead, UpdatePcs, ReadTarget, At
  <2>2. /\ req' \in [Handlers -> Requests]
        /\ req'[h].pc = next
        /\ req'[h].actor = req[h].actor /\ req'[h].target = req[h].target
        /\ req'[h].change = req[h].change
        /\ \A g \in Handlers \ {h} : req'[g] = req[g]
    <3> HIDE DEF next
    <3> QED
      BY <1>2, <2>1, GoToKeepsType DEF IInv
  <2>3. CheckedUpdate(h)' /\ CheckedDelete(h)'
    <3> HIDE DEF next
    <3> QED
      BY <1>2, <2>1, <2>2
         DEF IInv, AdminStays, CheckedUpdate, CheckedDelete, SelfHarm, HarmsRoot,
             Demotes, UpdatePcs, DeletePcs
  <2>4. Checked'
    BY <2>2, <2>3 DEF IInv, Checked, CheckedUpdate, CheckedDelete, Demotes
  <2> QED
    BY <2>2, <2>4 DEF IInv, ReadTarget, TypeOK, AdminStays
<1> QED
  BY <1>1, <1>2 DEF ReadTarget

\* What the UPDATE leaves of a checked request's target.
LEMMA WriteKeeps ==
  ASSUME IInv, NEW h \in Handlers, Write(h)
  PROVE  IInv'
<1> DEFINE u == req[h].target
           c == req[h].change
<1>1. u \in Users /\ c[1] \in Roles \cup {"keep"} /\ (u = Root => ~Demotes(c))
  BY UpdateRequest DEF IInv, Checked, CheckedUpdate, Write, At, UpdatePcs
<1>2. req' \in [Handlers -> Requests] /\ Checked'
  BY ReplyKeeps DEF IInv, Write
<1>3. ASSUME Changed(u, c)
      PROVE  /\ role' \in [Users -> Roles \cup {"unborn", "gone"}]
             /\ enabled' \subseteq Users /\ wasAdmin' \subseteq Users
             /\ AdminStays'
  <2>1. role' \in [Users -> Roles \cup {"unborn", "gone"}] /\ AdminStays'
    BY <1>1, <1>3 DEF IInv, TypeOK, AdminStays, Changed, Demotes, Roles
  <2>2. enabled' \subseteq Users /\ wasAdmin' \subseteq Users
    BY <1>1, <1>3 DEF IInv, TypeOK, Changed
  <2> QED
    BY <2>1, <2>2
<1>4. \/ Changed(u, c) /\ UNCHANGED faults
      \/ UNCHANGED <<role, enabled, wasAdmin>> /\ (UNCHANGED faults \/ Fault)
  BY DEF Write
<1>5. faults' \in 0..MaxFaults /\ UNCHANGED <<classes, slipped>>
  BY <1>4, FaultType DEF IInv, Write
<1> QED
  BY <1>2, <1>3, <1>4, <1>5 DEF IInv, TypeOK, AdminStays

LEMMA UpdateKeeps ==
  ASSUME IInv, NEW h \in Handlers, Update(h)
  PROVE  IInv'
<1>1. CASE \E a, u \in Users, c \in Changes : UpdateAuth(h, a, u, c)
  <2>1. PICK a \in Users, u \in Users, c \in Changes : UpdateAuth(h, a, u, c)
    BY <1>1
  <2>2. req' \in [Handlers -> Requests] /\ Checked'
    BY <2>1, StartKeeps DEF IInv, UpdateAuth, Requests
  <2> QED
    BY <2>1, <2>2 DEF IInv, UpdateAuth, TypeOK, AdminStays
<1>2. CASE ReadTarget(h)
  BY <1>2, ReadTargetKeeps
<1>3. CASE CountAdmins(h)
  <2>1. req' \in [Handlers -> Requests] /\ Checked'
    <3>1. Reply(h) \/ GoTo(h, "write")
      BY <1>3 DEF CountAdmins
    <3> QED
      BY <1>3, <3>1, ReplyKeeps, GoToKeeps DEF IInv, CountAdmins, At, UpdatePcs
  <2> QED
    BY <1>3, <2>1, FaultType DEF IInv, CountAdmins, TypeOK, AdminStays
<1>4. CASE HasClass(h)
  <2>1. req' \in [Handlers -> Requests] /\ Checked'
    <3>1. GoTo(h, "dropClass") \/ GoTo(h, "write")
      BY <1>4 DEF HasClass
    <3> QED
      BY <1>4, <3>1, GoToKeeps DEF IInv, HasClass, At, UpdatePcs
  <2>2. slipped' \subseteq Users /\ faults' \in 0..MaxFaults
    BY <1>4, FaultType DEF IInv, HasClass, TypeOK
  <2> QED
    BY <1>4, <2>1, <2>2 DEF IInv, HasClass, TypeOK, AdminStays
<1>5. CASE DropClass(h)
  <2>1. req' \in [Handlers -> Requests] /\ Checked'
    <3>1. Reply(h) \/ GoTo(h, "write")
      BY <1>5 DEF DropClass
    <3> QED
      BY <1>5, <3>1, ReplyKeeps, GoToKeeps DEF IInv, DropClass, At, UpdatePcs
  <2>2. classes' \subseteq Users /\ slipped' \subseteq Users /\ faults' \in 0..MaxFaults
    BY <1>5, FaultType DEF IInv, DropClass, TypeOK
  <2> QED
    BY <1>5, <2>1, <2>2 DEF IInv, DropClass, TypeOK, AdminStays
<1>6. CASE Write(h)
  BY <1>6, WriteKeeps
<1> QED
  BY <1>1, <1>2, <1>3, <1>4, <1>5, <1>6 DEF Update

LEMMA RemoveKeeps ==
  ASSUME IInv, NEW h \in Handlers, Remove(h)
  PROVE  IInv'
<1>1. CASE \E a, u \in Users : DeleteAuth(h, a, u)
  <2>1. PICK a \in Users, u \in Users : DeleteAuth(h, a, u)
    BY <1>1
  <2>2. req' \in [Handlers -> Requests] /\ Checked'
    BY <2>1, StartKeeps DEF IInv, DeleteAuth, Requests
  <2> QED
    BY <2>1, <2>2 DEF IInv, DeleteAuth, TypeOK, AdminStays
<1>2. CASE DeleteRead(h)
  <2>1. CASE Reply(h)
    BY <1>2, <2>1, ReplyKeeps DEF IInv, DeleteRead, TypeOK, AdminStays
  <2>2. ASSUME NEW pc \in DeletePcs \ {"readDel"}, GoTo(h, pc),
               req[h].actor # req[h].target, req[h].target # Root
        PROVE  req' \in [Handlers -> Requests] /\ Checked'
    <3>1. /\ req' \in [Handlers -> Requests]
          /\ req'[h].pc = pc
          /\ req'[h].actor = req[h].actor /\ req'[h].target = req[h].target
          /\ \A g \in Handlers \ {h} : req'[g] = req[g]
      BY <1>2, <2>2, GoToKeepsType DEF IInv, DeleteRead, At, DeletePcs
    <3>2. CheckedUpdate(h)' /\ CheckedDelete(h)'
      BY <2>2, <3>1 DEF CheckedUpdate, CheckedDelete, UpdatePcs, DeletePcs
    <3> QED
      BY <3>1, <3>2 DEF IInv, Checked, CheckedUpdate, CheckedDelete, Demotes
  <2>3. \/ Reply(h)
        \/ /\ GoTo(h, "countDel") \/ GoTo(h, "delete")
           /\ req[h].actor # req[h].target /\ req[h].target # Root
    BY <1>2 DEF DeleteRead, IInv, AdminStays
  <2> QED
    BY <1>2, <2>1, <2>2, <2>3 DEF IInv, DeleteRead, TypeOK, AdminStays, DeletePcs
<1>3. CASE DeleteCount(h)
  <2>1. req' \in [Handlers -> Requests] /\ Checked'
    <3>1. Reply(h) \/ GoTo(h, "delete")
      BY <1>3 DEF DeleteCount
    <3> QED
      BY <1>3, <3>1, ReplyKeeps, GoToKeeps DEF IInv, DeleteCount, At, DeletePcs
  <2> QED
    BY <1>3, <2>1, FaultType DEF IInv, DeleteCount, TypeOK, AdminStays
<1>4. CASE Delete(h)
  <2>1. req' \in [Handlers -> Requests] /\ Checked'
    BY <1>4, ReplyKeeps DEF IInv, Delete
  <2>2. req[h].target \in Users /\ req[h].target # Root
    BY <1>4, DeleteRequest
       DEF IInv, Checked, CheckedDelete, Delete, At, DeletePcs
  <2>3. role' = role \/ role' = [role EXCEPT ![req[h].target] = "gone"]
    BY <1>4 DEF Delete
  <2>4. role' \in [Users -> Roles \cup {"unborn", "gone"}] /\ AdminStays'
    BY <2>2, <2>3, AccountsAssumption DEF IInv, TypeOK, AdminStays
  <2>5. enabled' \subseteq Users /\ classes' \subseteq Users
    BY <1>4 DEF IInv, TypeOK, Delete
  <2>6. faults' \in 0..MaxFaults /\ wasAdmin' \subseteq Users /\ slipped' \subseteq Users
    BY <1>4, FaultType DEF IInv, TypeOK, Delete
  <2> QED
    BY <2>1, <2>4, <2>5, <2>6 DEF IInv, TypeOK
<1> QED
  BY <1>1, <1>2, <1>3, <1>4 DEF Remove

LEMMA OwnClassKeeps ==
  ASSUME IInv, NEW h \in Handlers, OwnClass(h)
  PROVE  IInv'
<1>1. CASE \E a \in Users : ClassAuth(h, a)
  <2>1. PICK a \in Users : ClassAuth(h, a)
    BY <1>1
  <2>2. req' \in [Handlers -> Requests] /\ Checked'
    BY <2>1, StartKeeps DEF IInv, ClassAuth, Requests
  <2> QED
    BY <2>1, <2>2 DEF IInv, ClassAuth, TypeOK, AdminStays
<1>2. CASE ClassLookup(h)
  <2>1. req[h] \in [pc : {"lookup", "insertClass"}, actor : Users, target : Users]
    BY <1>2 DEF IInv, TypeOK, ClassLookup, At, Requests, Idle
  <2>2. req' \in [Handlers -> Requests] /\ Checked'
    <3>1. CASE Reply(h)
      BY <3>1, ReplyKeeps DEF IInv
    <3>2. CASE GoTo(h, "insertClass")
      BY <2>1, <3>2, StartKeeps DEF IInv, GoTo, Requests
    <3> QED
      BY <1>2, <3>1, <3>2 DEF ClassLookup
  <2> QED
    BY <1>2, <2>2 DEF IInv, ClassLookup, TypeOK, AdminStays
<1>3. CASE ClassInsert(h)
  <2>1. req' \in [Handlers -> Requests] /\ Checked'
    BY <1>3, ReplyKeeps DEF IInv, ClassInsert
  <2>2. req[h].target \in Users
    BY <1>3 DEF IInv, TypeOK, ClassInsert, At, Requests, Idle
  <2>3. classes' \subseteq Users /\ slipped' \subseteq Users /\ faults' \in 0..MaxFaults
    BY <1>3, <2>2, FaultType DEF IInv, ClassInsert, TypeOK
  <2> QED
    BY <1>3, <2>1, <2>3 DEF IInv, ClassInsert, TypeOK, AdminStays
<1> QED
  BY <1>1, <1>2, <1>3 DEF OwnClass

\* Every step keeps the inductive invariant.
THEOREM Step == IInv /\ [Next]_vars => IInv'
<1> SUFFICES ASSUME IInv, [Next]_vars PROVE IInv'
  OBVIOUS
<1>1. CASE \E u \in Users : Register(u)
  <2>1. PICK u \in Users, r \in {"student", "teacher"} : InsertUser(u, r)
    BY <1>1 DEF Register
  <2>2. /\ role' \in [Users -> Roles \cup {"unborn", "gone"}]
        /\ enabled' \subseteq Users /\ wasAdmin' \subseteq Users
        /\ AdminStays'
    BY <2>1, InsertKeeps DEF IInv, Roles
  <2>3. UNCHANGED <<classes, req, slipped, faults>>
    BY <1>1 DEF Register
  <2> QED
    BY <2>2, <2>3 DEF IInv, TypeOK, Checked, CheckedUpdate, CheckedDelete, Demotes
<1>2. CASE \E h \in Handlers : Add(h) \/ Update(h) \/ Remove(h) \/ OwnClass(h)
  BY <1>2, AddKeeps, UpdateKeeps, RemoveKeeps, OwnClassKeeps
<1>3. CASE UNCHANGED vars
  BY <1>3 DEF vars, IInv, TypeOK, AdminStays, Checked, CheckedUpdate,
              CheckedDelete, Demotes
<1> QED
  BY <1>1, <1>2, <1>3 DEF Next
-----------------------------------------------------------------------------
\* Every reachable state satisfies the inductive invariant.
THEOREM Invariance == Spec => []IInv
BY Start, Step, PTL DEF Spec

\* The variables of the user management keep their types.
THEOREM TypeInvariant == Spec => []TypeOK
<1>1. IInv => TypeOK
  BY DEF IInv
<1> QED
  BY <1>1, Invariance, PTL

\* The built-in account stays an administrator: update_user and delete_user
\* check it in the row they read, and no other request can have changed that
\* row before they write, because every one of them makes the same checks.
THEOREM BuiltInStaysAdmin == Spec => []AdminStays
<1>1. IInv => AdminStays
  BY DEF IInv
<1> QED
  BY <1>1, Invariance, PTL

\* What the last administrator can be lost to; Taken names the action formula.
Taken == Admins # {} /\ Admins' = {}
StaleWriter ==
    \E h \in Handlers : /\ req[h].pc \in {"write", "delete"}
                        /\ req[h].actor \notin Admins
                        /\ req'[h] = Idle

\* A step that is no UPDATE or DELETE of a row takes no administrator away.
LEMMA OthersKeepAdmins ==
  ASSUME IInv, NEW a \in Admins,
         \/ UNCHANGED <<role, enabled>>
         \/ \E u \in Users, r \in Roles : InsertUser(u, r)
  PROVE  a \in Admins'
BY DEF IInv, TypeOK, InsertUser, Admins, AdminRows, Roles

\* An UPDATE whose sender is an administrator leaves it one.
LEMMA WriterStays ==
  ASSUME IInv, NEW h \in Handlers, Write(h), req[h].actor \in Admins
  PROVE  req[h].actor \in Admins'
<1> DEFINE a == req[h].actor
           u == req[h].target
           c == req[h].change
<1>1. /\ u \in Users /\ a \in Users /\ c[1] \in Roles \cup {"keep"}
      /\ u = a => ~Demotes(c) /\ c[2] # "off"
  BY UpdateRequest DEF IInv, Checked, CheckedUpdate, Write, At, UpdatePcs
<1>2. Changed(u, c) \/ UNCHANGED <<role, enabled>>
  BY DEF Write
<1>3. ASSUME Changed(u, c) PROVE role'[a] = "admin" /\ a \in enabled'
  <2>1. role[a] = "admin" /\ a \in enabled
    BY DEF Admins, AdminRows
  <2>2. role'[a] = "admin"
    BY <1>1, <1>3, <2>1 DEF IInv, TypeOK, Changed, Demotes, Roles
  <2>3. a \in enabled'
    BY <1>1, <1>3, <2>1 DEF Changed
  <2> QED
    BY <2>2, <2>3
<1> QED
  BY <1>1, <1>2, <1>3, OthersKeepAdmins DEF Admins, AdminRows

\* A DELETE whose sender is an administrator is not about that sender.
LEMMA DeleterStays ==
  ASSUME IInv, NEW h \in Handlers, Delete(h), req[h].actor \in Admins
  PROVE  req[h].actor \in Admins'
<1>1. /\ req[h].target \in Users /\ req[h].actor \in Users
      /\ req[h].target # req[h].actor
  BY DeleteRequest DEF IInv, Checked, CheckedDelete, Delete, At, DeletePcs
<1>2. role' = role \/ role' = [role EXCEPT ![req[h].target] = "gone"]
  BY DEF Delete
<1>3. enabled' = enabled \/ enabled' = enabled \ {req[h].target}
  BY DEF Delete
<1> QED
  BY <1>1, <1>2, <1>3 DEF IInv, TypeOK, Admins, AdminRows

\* Nobody but a sender who has lost the role since it was authenticated can
\* take the last enabled administrator away.
THEOREM LockOutIsStale == Spec => OnlyTheStaleLockOut
<1>1. IInv /\ [Next]_vars => [Taken => StaleWriter]_vars
  <2> SUFFICES ASSUME IInv, Next, Taken PROVE StaleWriter
    BY DEF vars, Taken
  <2>1. PICK a : a \in Admins
    BY DEF Taken
  <2>2. a \notin Admins'
    BY DEF Taken
  <2>3. ~(UNCHANGED <<role, enabled>>)
        /\ ~(\E u \in Users, r \in Roles : InsertUser(u, r))
    BY <2>1, <2>2, OthersKeepAdmins
  <2>4. PICK h \in Handlers : Write(h) \/ Delete(h)
    <3>1. \A u \in Users : ~Register(u)
      BY <2>3 DEF Register, Roles
    <3>2. ASSUME NEW h \in Handlers, Add(h) PROVE FALSE
      <4>1. CASE \E b \in Users, r \in Roles : CreateAuth(h, b, r)
        BY <2>3, <4>1 DEF CreateAuth
      <4>2. CASE Create(h)
        <5>1. req[h].role \in Roles
          BY <4>2 DEF IInv, TypeOK, Create, At, Requests, Idle
        <5> QED
          BY <2>3, <4>2, <5>1 DEF Create
      <4> QED
        BY <3>2, <4>1, <4>2 DEF Add
    <3>3. ASSUME NEW h \in Handlers, OwnClass(h) PROVE FALSE
      BY <2>3, <3>3 DEF OwnClass, ClassAuth, ClassLookup, ClassInsert
    <3>4. ASSUME NEW h \in Handlers, Update(h) PROVE Write(h)
      BY <2>3, <3>4 DEF Update, UpdateAuth, ReadTarget, CountAdmins, HasClass, DropClass
    <3>5. ASSUME NEW h \in Handlers, Remove(h) PROVE Delete(h)
      BY <2>3, <3>5 DEF Remove, DeleteAuth, DeleteRead, DeleteCount
    <3> QED
      BY <3>1, <3>2, <3>3, <3>4, <3>5 DEF Next
  <2>5. req[h].actor \notin Admins
    BY <2>4, WriterStays, DeleterStays DEF Taken
  <2>6. req[h].pc \in {"write", "delete"} /\ req'[h] = Idle
    BY <2>4 DEF Write, Delete, At, Reply, IInv, TypeOK
  <2> QED
    BY <2>5, <2>6 DEF StaleWriter
<1>2. [Taken => StaleWriter]_vars
        => [Admins # {} /\ Admins' = {} =>
              \E h \in Handlers : /\ req[h].pc \in {"write", "delete"}
                                  /\ req[h].actor \notin Admins
                                  /\ req'[h] = Idle]_vars
  BY DEF Taken, StaleWriter
<1> QED
  BY <1>1, <1>2, Invariance, PTL DEF Spec, OnlyTheStaleLockOut

-----------------------------------------------------------------------------
(* Which students own a class.  The invariant says of every request that   *)
(* has decided to make a class owner a student why it may: the class was   *)
(* missed, or its owner has been an administrator.                         *)

Marked == \A u \in Users : role[u] = "admin" => u \in wasAdmin
Owned == \A u \in classes \cup wasAdmin : Exists(u)

Explained(u) == u \in wasAdmin \cup slipped

DecidedBy(h) ==
    /\ At(h, "count") => \/ req[h].target \in wasAdmin
                         \/ role[req[h].target] = "gone"
    /\ At(h, "write") /\ req[h].change[1] = "student" /\ req[h].target \in classes
           => Explained(req[h].target)

Decided == \A h \in Handlers : DecidedBy(h)

KInv == Marked /\ Owned /\ Decided /\ KeptClassIsExplained

\* What a request has decided stays right while no class is added and what is
\* known of the rows that are left is not forgotten.
LEMMA DecidedStays ==
  ASSUME TypeOK, Decided, classes' \subseteq classes,
         \A u \in Users : role[u] = "gone" => role'[u] = "gone",
         \A u \in wasAdmin : u \in wasAdmin' \/ role'[u] = "gone",
         \A u \in classes' : Explained(u) => Explained(u)',
         NEW g \in Handlers, req'[g] = req[g]
  PROVE  DecidedBy(g)'
<1>1. At(g, "count") \/ At(g, "write") => req[g].target \in Users
  BY UpdateRequest DEF At, UpdatePcs
<1> QED
  BY <1>1 DEF Decided, DecidedBy, At

LEMMA IdleDecides ==
  ASSUME NEW g \in Handlers, req'[g].pc \notin {"count", "write"}
  PROVE  DecidedBy(g)'
BY DEF DecidedBy, At

\* A step that changes no row and no class, and starts or ends a request.
LEMMA QuietKeepsClasses ==
  ASSUME TypeOK, KInv, UNCHANGED <<role, classes, wasAdmin, slipped>>,
         \A g \in Handlers : req'[g] = req[g] \/ DecidedBy(g)'
  PROVE  KInv'
<1>1. ASSUME NEW g \in Handlers PROVE DecidedBy(g)'
  BY <1>1, DecidedStays DEF KInv, Explained
<1> QED
  BY <1>1 DEF KInv, Marked, Owned, Exists, Decided, KeptClassIsExplained

\* What a reply does to the other requests.
LEMMA ReplyFrame ==
  ASSUME TypeOK, NEW h \in Handlers, Reply(h)
  PROVE  \A g \in Handlers : req'[g] = req[g] \/ DecidedBy(g)'
<1>1. ASSUME NEW g \in Handlers, g # h PROVE req'[g] = req[g]
  BY <1>1 DEF Reply, TypeOK
<1>2. req'[h].pc = "idle"
  BY DEF Reply, TypeOK, Idle
<1> QED
  BY <1>1, <1>2, IdleDecides

\* So does the beginning of one.
LEMMA StartFrame ==
  ASSUME TypeOK, NEW h \in Handlers, NEW r, r.pc \notin {"count", "write"},
         req' = [req EXCEPT ![h] = r]
  PROVE  \A g \in Handlers : req'[g] = req[g] \/ DecidedBy(g)'
<1>1. ASSUME NEW g \in Handlers, g # h PROVE req'[g] = req[g]
  BY <1>1 DEF TypeOK
<1>2. req'[h] = r
  BY DEF TypeOK
<1> QED
  BY <1>1, <1>2, IdleDecides

\* A new row has no class.
LEMMA InsertKeepsClasses ==
  ASSUME TypeOK, KInv, NEW u \in Users, NEW r \in Roles, InsertUser(u, r),
         UNCHANGED <<classes, slipped>>,
         \A g \in Handlers : req'[g] = req[g] \/ DecidedBy(g)'
  PROVE  KInv'
<1>1. ASSUME NEW g \in Handlers PROVE DecidedBy(g)'
  BY <1>1, DecidedStays DEF KInv, Explained, InsertUser, TypeOK
<1>2. u \notin classes
  BY DEF KInv, Owned, Exists, Roles, InsertUser
<1>3. Marked' /\ Owned'
  BY <1>2 DEF KInv, Marked, Owned, Exists, InsertUser, TypeOK, Roles
<1>4. KeptClassIsExplained'
  BY <1>2 DEF KInv, KeptClassIsExplained, InsertUser, TypeOK
<1> QED
  BY <1>1, <1>3, <1>4 DEF KInv, Decided

LEMMA AddKeepsClasses ==
  ASSUME TypeOK, KInv, NEW h \in Handlers, Add(h)
  PROVE  KInv'
<1>1. CASE \E a \in Users, r \in Roles : CreateAuth(h, a, r)
  BY <1>1, StartFrame, QuietKeepsClasses DEF CreateAuth
<1>2. CASE Create(h)
  <2>1. req[h].role \in Roles
    BY <1>2 DEF TypeOK, Create, At, Requests, Idle
  <2>2. \A g \in Handlers : req'[g] = req[g] \/ DecidedBy(g)'
    BY <1>2, ReplyFrame DEF Create
  <2> QED
    BY <1>2, <2>1, <2>2, InsertKeepsClasses, QuietKeepsClasses DEF Create
<1> QED
  BY <1>1, <1>2 DEF Add

\* A request that goes on: its decision is all there is to check.
LEMMA GoToFrame ==
  ASSUME TypeOK, NEW h \in Handlers, NEW pc, req[h].pc \in UpdatePcs, pc \in UpdatePcs,
         GoTo(h, pc), DecidedBy(h)'
  PROVE  \A g \in Handlers : req'[g] = req[g] \/ DecidedBy(g)'
BY GoToKeepsType

LEMMA ReadKeepsClasses ==
  ASSUME TypeOK, KInv, NEW h \in Handlers, ReadTarget(h)
  PROVE  KInv'
<1> DEFINE u == req[h].target
           next == AfterRead(role[u], u, req[h].change)
<1>1. CASE Reply(h)
  BY <1>1, ReplyFrame, QuietKeepsClasses DEF ReadTarget
<1>2. CASE GoTo(h, next) /\ Exists(u) /\ ~HarmsRoot(h)
  <2>1. req[h].pc \in UpdatePcs /\ next \in UpdatePcs
    BY <1>2 DEF AfterRead, UpdatePcs, ReadTarget, At
  <2>2. /\ req'[h].pc = next
        /\ req'[h].target = u /\ req'[h].change = req[h].change
    <3> HIDE DEF next
    <3> QED
      BY <1>2, <2>1, GoToKeepsType
  <2>3. u \in Users
    BY <2>1, UpdateRequest
  <2>4. UNCHANGED <<role, classes, wasAdmin, slipped>>
    BY DEF ReadTarget
  <2>5. next = "count" => u \in wasAdmin
    BY <2>3 DEF AfterRead, KInv, Marked
  <2>6. next = "write" /\ req[h].change[1] = "student" /\ u \in classes => Explained(u)
    BY <1>2, <2>3 DEF AfterRead, Demotes, KInv, Marked, Explained, KeptClassIsExplained,
                      Exists, Roles, HarmsRoot
  <2>7. DecidedBy(h)'
    <3> HIDE DEF next
    <3> QED
      BY <2>2, <2>4, <2>5, <2>6 DEF DecidedBy, At, Explained
  <2>8. \A g \in Handlers : req'[g] = req[g] \/ DecidedBy(g)'
    <3> HIDE DEF next
    <3> QED
      BY <1>2, <2>1, <2>7, GoToFrame
  <2> QED
    BY <2>4, <2>8, QuietKeepsClasses
<1> QED
  BY <1>1, <1>2 DEF ReadTarget

LEMMA UpdateKeepsClasses ==
  ASSUME TypeOK, KInv, NEW h \in Handlers, Update(h)
  PROVE  KInv'
<1> DEFINE u == req[h].target
           c == req[h].change
<1>1. CASE \E a, t \in Users, d \in Changes : UpdateAuth(h, a, t, d)
  BY <1>1, StartFrame, QuietKeepsClasses DEF UpdateAuth
<1>2. CASE ReadTarget(h)
  BY <1>2, ReadKeepsClasses
<1>3. CASE CountAdmins(h)
  <2>1. CASE Reply(h)
    BY <1>3, <2>1, ReplyFrame, QuietKeepsClasses DEF CountAdmins
  <2>2. CASE GoTo(h, "write")
    <3>1. req'[h].pc = "write" /\ req'[h].target = u /\ req'[h].change = c
      BY <1>3, <2>2, GoToKeepsType DEF CountAdmins, At, UpdatePcs
    <3>2. UNCHANGED <<role, classes, wasAdmin, slipped>>
      BY <1>3 DEF CountAdmins
    <3>3. u \in classes => u \in wasAdmin
      BY <1>3 DEF CountAdmins, KInv, Decided, DecidedBy, Owned, Exists, Roles
    <3>4. DecidedBy(h)'
      BY <3>1, <3>2, <3>3 DEF DecidedBy, At, Explained
    <3> QED
      BY <1>3, <2>2, <3>2, <3>4, GoToFrame, QuietKeepsClasses
         DEF CountAdmins, At, UpdatePcs
  <2> QED
    BY <1>3, <2>1, <2>2 DEF CountAdmins
<1>4. CASE HasClass(h)
  <2>1. PICK pc \in {"dropClass", "write"} :
          /\ GoTo(h, pc)
          /\ pc = "write" /\ u \in classes => u \in slipped'
    BY <1>4 DEF HasClass
  <2>2. /\ req'[h].pc = pc /\ req'[h].target = u /\ req'[h].change = c
        /\ \A g \in Handlers \ {h} : req'[g] = req[g]
    BY <1>4, <2>1, GoToKeepsType DEF HasClass, At, UpdatePcs
  <2>3. UNCHANGED <<role, classes, wasAdmin>> /\ slipped \subseteq slipped'
    BY <1>4 DEF HasClass
  <2>4. DecidedBy(h)'
    BY <2>1, <2>2, <2>3 DEF DecidedBy, At, Explained
  <2>5. ASSUME NEW g \in Handlers PROVE DecidedBy(g)'
    BY <2>2, <2>3, <2>4, DecidedStays DEF KInv, Explained
  <2> QED
    BY <2>3, <2>5 DEF KInv, Marked, Owned, Exists, Decided, KeptClassIsExplained
<1>5. CASE DropClass(h)
  <2>1. CASE Reply(h) /\ UNCHANGED <<classes, slipped>>
    BY <1>5, <2>1, ReplyFrame, QuietKeepsClasses DEF DropClass
  <2>2. CASE GoTo(h, "write") /\ classes' = classes \ {u} /\ slipped' = slipped \ {u}
    <3>1. /\ req'[h].pc = "write" /\ req'[h].target = u
          /\ \A g \in Handlers \ {h} : req'[g] = req[g]
      BY <1>5, <2>2, GoToKeepsType DEF DropClass, At, UpdatePcs
    <3>2. UNCHANGED <<role, wasAdmin>>
      BY <1>5 DEF DropClass
    <3>3. DecidedBy(h)'
      BY <2>2, <3>1 DEF DecidedBy, At
    <3>4. ASSUME NEW g \in Handlers PROVE DecidedBy(g)'
      BY <2>2, <3>1, <3>2, <3>3, DecidedStays DEF KInv, Explained
    <3> QED
      BY <2>2, <3>2, <3>4 DEF KInv, Marked, Owned, Exists, Decided, KeptClassIsExplained
  <2> QED
    BY <1>5, <2>1, <2>2 DEF DropClass
<1>6. CASE Write(h)
  <2>1. u \in Users /\ c[1] \in Roles \cup {"keep"}
    BY <1>6, UpdateRequest DEF Write, At, UpdatePcs
  <2>2. \A g \in Handlers : req'[g] = req[g] \/ DecidedBy(g)'
    BY <1>6, ReplyFrame DEF Write
  <2>3. CASE UNCHANGED <<role, enabled, wasAdmin>>
    BY <1>6, <2>2, <2>3, QuietKeepsClasses DEF Write
  <2>4. CASE Exists(u) /\ Changed(u, c)
    <3>1. /\ wasAdmin \subseteq wasAdmin' /\ UNCHANGED <<classes, slipped>>
          /\ \A t \in Users : role'[t] # role[t] =>
                 t = u /\ c[1] \in Roles /\ role'[u] = c[1]
          /\ c[1] = "admin" => u \in wasAdmin'
          /\ wasAdmin' \subseteq wasAdmin \cup {u}
      BY <1>6, <2>1, <2>4 DEF TypeOK, Write, Changed
    <3>2. ASSUME NEW g \in Handlers PROVE DecidedBy(g)'
      BY <2>2, <2>4, <3>1, DecidedStays DEF KInv, Explained, Exists, Roles
    <3>3. Marked' /\ Owned'
      BY <2>1, <2>4, <3>1 DEF KInv, Marked, Owned, Exists, TypeOK
    <3>4. u \in classes /\ c[1] = "student" => u \in wasAdmin \cup slipped
      BY <1>6 DEF Write, KInv, Decided, DecidedBy, Explained
    <3>5. KeptClassIsExplained'
      BY <3>1, <3>4 DEF KInv, KeptClassIsExplained, TypeOK
    <3> QED
      BY <3>2, <3>3, <3>5 DEF KInv, Decided
  <2> QED
    BY <1>6, <2>3, <2>4 DEF Write
<1> QED
  BY <1>1, <1>2, <1>3, <1>4, <1>5, <1>6 DEF Update

LEMMA RemoveKeepsClasses ==
  ASSUME TypeOK, KInv, NEW h \in Handlers, Remove(h)
  PROVE  KInv'
<1> DEFINE u == req[h].target
<1>1. CASE \E a, t \in Users : DeleteAuth(h, a, t)
  BY <1>1, StartFrame, QuietKeepsClasses DEF DeleteAuth
<1>2. CASE DeleteRead(h) \/ DeleteCount(h)
  <2>1. PICK pc \in {"idle", "countDel", "delete"} :
          /\ \/ Reply(h) /\ pc = "idle"
             \/ GoTo(h, pc)
          /\ req[h].pc \in DeletePcs
    BY <1>2 DEF DeleteRead, DeleteCount, At, DeletePcs
  <2>2. req'[h].pc = pc /\ \A g \in Handlers \ {h} : req'[g] = req[g]
    BY <2>1, DeleteRequest DEF Reply, GoTo, TypeOK, Idle
  <2>3. \A g \in Handlers : req'[g] = req[g] \/ DecidedBy(g)'
    BY <2>2, IdleDecides
  <2> QED
    BY <1>2, <2>3, QuietKeepsClasses DEF DeleteRead, DeleteCount
<1>3. CASE Delete(h)
  <2>1. \A g \in Handlers : req'[g] = req[g] \/ DecidedBy(g)'
    BY <1>3, ReplyFrame DEF Delete
  <2>2. CASE UNCHANGED <<role, enabled, classes, wasAdmin, slipped>>
    BY <2>1, <2>2, QuietKeepsClasses
  <2>3. CASE /\ role' = IF Exists(u) THEN [role EXCEPT ![u] = "gone"] ELSE role
             /\ classes' = classes \ {u}
             /\ wasAdmin' = wasAdmin \ {u}
             /\ slipped' = slipped \ {u}
    <3>1. u \in Users
      BY <1>3, DeleteRequest DEF Delete, At, DeletePcs
    <3>2. u \in wasAdmin => role'[u] = "gone"
      BY <2>3, <3>1 DEF TypeOK, Exists, KInv, Owned
    <3>3. ASSUME NEW g \in Handlers PROVE DecidedBy(g)'
      BY <2>1, <2>3, <3>1, <3>2, DecidedStays DEF KInv, Explained, TypeOK
    <3>4. Marked' /\ Owned' /\ KeptClassIsExplained'
      BY <2>3, <3>1 DEF KInv, Marked, Owned, KeptClassIsExplained, Exists, Roles, TypeOK
    <3> QED
      BY <3>3, <3>4 DEF KInv, Decided
  <2> QED
    BY <1>3, <2>2, <2>3 DEF Delete
<1> QED
  BY <1>1, <1>2, <1>3 DEF Remove

LEMMA OwnClassKeepsClasses ==
  ASSUME TypeOK, KInv, NEW h \in Handlers, OwnClass(h)
  PROVE  KInv'
<1> DEFINE u == req[h].target
<1>1. CASE \E a \in Users : ClassAuth(h, a)
  BY <1>1, StartFrame, QuietKeepsClasses DEF ClassAuth
<1>2. CASE ClassLookup(h)
  <2>1. PICK pc \in {"idle", "insertClass"} :
          \/ Reply(h) /\ pc = "idle"
          \/ GoTo(h, pc)
    BY <1>2 DEF ClassLookup
  <2>2. req[h] \in [pc : {"lookup", "insertClass"}, actor : Users, target : Users]
    BY <1>2 DEF TypeOK, ClassLookup, At, Requests, Idle
  <2>3. req'[h].pc = pc /\ \A g \in Handlers \ {h} : req'[g] = req[g]
    BY <2>1, <2>2 DEF Reply, GoTo, TypeOK, Idle
  <2>4. \A g \in Handlers : req'[g] = req[g] \/ DecidedBy(g)'
    BY <2>3, IdleDecides
  <2> QED
    BY <1>2, <2>4, QuietKeepsClasses DEF ClassLookup
<1>3. CASE ClassInsert(h)
  <2>1. \A g \in Handlers : req'[g] = req[g] \/ DecidedBy(g)'
    BY <1>3, ReplyFrame DEF ClassInsert
  <2>2. UNCHANGED <<role, wasAdmin>>
    BY <1>3 DEF ClassInsert
  <2>3. CASE UNCHANGED <<classes, slipped>>
    BY <2>1, <2>2, <2>3, QuietKeepsClasses
  <2>4. CASE /\ Exists(u) /\ classes' = classes \cup {u}
             /\ slipped' = IF Overtaken(u) THEN slipped \cup {u} ELSE slipped
    <3>1. ASSUME NEW g \in Handlers, req'[g] = req[g] PROVE DecidedBy(g)'
      <4>1. At(g, "write") /\ req[g].target = u => u \in wasAdmin' \cup slipped'
        BY <2>4 DEF Overtaken, Explained, At
      <4>2. Explained(req[g].target) => req[g].target \in wasAdmin' \cup slipped'
        BY <2>2, <2>4 DEF Explained
      <4>3. DecidedBy(g)
        BY DEF KInv, Decided
      <4> QED
        BY <2>2, <2>4, <3>1, <4>1, <4>2, <4>3 DEF DecidedBy, At, Explained
    <3>2. Marked' /\ Owned'
      BY <2>2, <2>4 DEF KInv, Marked, Owned, Exists
    <3>3. KeptClassIsExplained'
      BY <2>2, <2>4 DEF KInv, KeptClassIsExplained, Overtaken
    <3> QED
      BY <2>1, <3>1, <3>2, <3>3 DEF KInv, Decided
  <2> QED
    BY <1>3, <2>3, <2>4 DEF ClassInsert
<1> QED
  BY <1>1, <1>2, <1>3 DEF OwnClass

\* Every step keeps it.
LEMMA ClassesStep == TypeOK /\ KInv /\ [Next]_vars => KInv'
<1> SUFFICES ASSUME TypeOK, KInv, [Next]_vars PROVE KInv'
  OBVIOUS
<1>1. CASE \E u \in Users : Register(u)
  <2>1. PICK u \in Users, r \in {"student", "teacher"} : InsertUser(u, r)
    BY <1>1 DEF Register
  <2>2. UNCHANGED <<classes, req, slipped, faults>>
    BY <1>1 DEF Register
  <2> QED
    BY <2>1, <2>2, InsertKeepsClasses DEF Roles
<1>2. CASE \E h \in Handlers : Add(h) \/ Update(h) \/ Remove(h) \/ OwnClass(h)
  BY <1>2, AddKeepsClasses, UpdateKeepsClasses, RemoveKeepsClasses, OwnClassKeepsClasses
<1>3. CASE UNCHANGED vars
  BY <1>3, QuietKeepsClasses DEF vars
<1> QED
  BY <1>1, <1>2, <1>3 DEF Next

\* A student owns a class only for one of the three reasons: update_user
\* drops the class of everybody else it makes a student.
THEOREM KeptClassesAreExplained == Spec => []KeptClassIsExplained
<1>1. Init => KInv
  BY AccountsAssumption
     DEF Init, KInv, Marked, Owned, Exists, Decided, DecidedBy, At, Idle,
         KeptClassIsExplained, Roles
<1>2. KInv => KeptClassIsExplained
  BY DEF KInv
<1> QED
  BY <1>1, <1>2, ClassesStep, TypeInvariant, PTL DEF Spec
=============================================================================
