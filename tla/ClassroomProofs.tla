--------------------------- MODULE ClassroomProofs ---------------------------
(***************************************************************************)
(* Referential integrity, invitations and ownership in a classroom, for    *)
(* any users, problems, threads and bounds.                                *)
(***************************************************************************)
EXTENDS Classroom, FiniteSetTheorems, TLAPS

ClassPcs == {"classLookup", "classInsert", "codeLookup", "codeUpdate", "problems", "list"}
JoinPcs == {"joinDup", "joinInsert"}
ProblemPcs == {"visible", "submit", "own", "edit", "delete", "import"}
AnswerPcs == {"students", "mine"}

\* A join that may go on, and a member: the teacher of the class, if there is
\* one still, has been presented a code by the student.
Admitted(c, u) ==
    /\ c \in 1..(next.class - 1) /\ u \in Users
    /\ \A t \in Users : class[t] # NoClass /\ class[t].id = c => <<t, u>> \in invited

CodeOK(h) ==
    /\ At(h, "joinLookup") =>
           /\ req[h].code \in 1..(next.code - 1)
           /\ req[h].dead => \A t \in Users : class[t].code # req[h].code
    /\ req[h].pc \in JoinPcs => ~req[h].dead /\ Admitted(req[h].class, req[h].user)

\* Who may submit where: staff anywhere, others to problems of nobody and of
\* the teachers who invited them.
MaySubmit(u, p) == owner[p] \in Users /\ u \notin wasStaff => <<owner[p], u>> \in invited

SubmitOK(h) ==
    /\ req[h].pc \in {"visible", "submit"} /\ req[h].role \in Staff
           => req[h].user \in wasStaff
    /\ At(h, "submit") => /\ owner[req[h].problem] # "unborn"
                          /\ MaySubmit(req[h].user, req[h].problem)

OwnOK(h) ==
    /\ At(h, "import") => req[h].role \in Staff
    /\ req[h].pc \in {"edit", "delete"} /\ req[h].role = "teacher" =>
           \/ owner[req[h].problem] \in {req[h].user, "gone"}
           \/ owner[req[h].problem] = "nobody" /\ role[req[h].user] = "gone"

ReqOK(h) == CodeOK(h) /\ SubmitOK(h) /\ OwnOK(h)

UniqueIds ==
    \A t, v \in Users :
        class[t] # NoClass /\ class[v] # NoClass /\ class[t].id = class[v].id => t = v

IInv ==
    /\ TypeOK
    /\ IsFiniteSet(subs)
    /\ UniqueIds
    /\ \A u \in Users : role[u] \in Staff => u \in wasStaff
    /\ \A m \in members : Admitted(m[1], m[2])
    /\ \A s \in subs : MaySubmit(s.user, s.problem)
    /\ \A h \in Handlers : ReqOK(h)
-----------------------------------------------------------------------------
(* What the label of a request says of its fields                          *)

LEMMA ClassRequest ==
  ASSUME TypeOK, NEW h \in Handlers, req[h].pc \in ClassPcs
  PROVE  req[h] \in [pc : ClassPcs, user : Users, role : Roles]
BY DEF TypeOK, Requests, Idle, ClassPcs

LEMMA LookupRequest ==
  ASSUME TypeOK, NEW h \in Handlers, At(h, "joinLookup")
  PROVE  req[h] \in [pc : {"joinLookup"}, user : Users, code : Nat, dead : BOOLEAN]
BY DEF TypeOK, Requests, Idle, At

LEMMA JoinRequest ==
  ASSUME TypeOK, NEW h \in Handlers, req[h].pc \in JoinPcs
  PROVE  req[h] \in [pc : JoinPcs, user : Users, class : Nat, dead : BOOLEAN]
BY DEF TypeOK, Requests, Idle, JoinPcs

LEMMA ProblemRequest ==
  ASSUME TypeOK, NEW h \in Handlers, req[h].pc \in ProblemPcs
  PROVE  req[h] \in [pc : ProblemPcs, user : Users, role : Roles, problem : Problems]
BY DEF TypeOK, Requests, Idle, ProblemPcs

LEMMA AnswerRequest ==
  ASSUME TypeOK, NEW h \in Handlers, req[h].pc \in AnswerPcs
  PROVE  req[h] \in [pc : AnswerPcs, user : Users, role : Roles, first : Tables, raced : BOOLEAN]
BY DEF TypeOK, Requests, Idle, AnswerPcs

\* A request that nobody but a concurrent write has touched.
Same(g) == \/ req'[g] = req[g]
           \/ req[g].pc \in AnswerPcs /\ req'[g].pc = req[g].pc

LEMMA ReplyFrame ==
  ASSUME TypeOK, NEW h \in Handlers, Reply(h)
  PROVE  /\ req' \in [Handlers -> Requests]
         /\ \A g \in Handlers : Same(g) \/ ReqOK(g)'
<1>1. req' \in [Handlers -> Requests] /\ req'[h] = Idle
  BY DEF Reply, TypeOK, Requests
<1>2. ReqOK(h)'
  BY <1>1 DEF ReqOK, CodeOK, SubmitOK, OwnOK, At, Idle, JoinPcs
<1>3. \A g \in Handlers \ {h} : req'[g] = req[g]
  BY DEF Reply, TypeOK
<1> QED
  BY <1>1, <1>2, <1>3 DEF Same

LEMMA RacedFrame ==
  ASSUME TypeOK, NEW g \in Handlers
  PROVE  /\ Raced(req[g]) \in Requests
         /\ \/ Raced(req[g]) = req[g]
            \/ req[g].pc \in AnswerPcs /\ Raced(req[g]).pc = req[g].pc
<1>1. CASE req[g].pc \in AnswerPcs
  <2>1. Raced(req[g]) = [req[g] EXCEPT !.raced = TRUE]
    BY <1>1 DEF Raced, AnswerPcs
  <2>2. Raced(req[g]) \in [pc : AnswerPcs, user : Users, role : Roles, first : Tables,
                           raced : BOOLEAN]
    BY <1>1, <2>1, AnswerRequest
  <2> QED
    BY <1>1, <2>1, <2>2, AnswerRequest DEF Requests, AnswerPcs
<1>2. CASE req[g].pc \notin AnswerPcs
  BY <1>2 DEF Raced, AnswerPcs, TypeOK
<1> QED
  BY <1>1, <1>2

LEMMA WroteFrame ==
  ASSUME TypeOK, NEW h \in Handlers, Wrote(h)
  PROVE  /\ req' \in [Handlers -> Requests]
         /\ \A g \in Handlers : Same(g) \/ ReqOK(g)'
<1>1. \A g \in Handlers : req'[g] = IF g = h THEN Idle ELSE Raced(req[g])
  BY DEF Wrote
<1>2. \A g \in Handlers : req'[g] \in Requests
  BY <1>1, RacedFrame DEF Requests
<1>3. ReqOK(h)'
  BY <1>1 DEF ReqOK, CodeOK, SubmitOK, OwnOK, At, Idle, JoinPcs
<1>4. \A g \in Handlers \ {h} : Same(g)
  BY <1>1, RacedFrame DEF Same
<1>5. req' \in [Handlers -> Requests]
  BY <1>2 DEF Wrote
<1> QED
  BY <1>3, <1>4, <1>5

LEMMA ChangeFrame ==
  ASSUME TypeOK, Change
  PROVE  /\ req' \in [Handlers -> Requests]
         /\ \A g \in Handlers : Same(g) \/ ReqOK(g)'
<1>1. \A g \in Handlers : req'[g] = Raced(req[g])
  BY DEF Change
<1>2. req' \in [Handlers -> Requests]
  BY <1>1, RacedFrame DEF Change
<1> QED
  BY <1>1, <1>2, RacedFrame DEF Same

\* A thread's request is replaced or goes on.
LEMMA NewFrame ==
  ASSUME TypeOK, NEW h \in Handlers, NEW r \in Requests,
         req' = [req EXCEPT ![h] = r], ReqOK(h)'
  PROVE  /\ req' \in [Handlers -> Requests]
         /\ \A g \in Handlers : Same(g) \/ ReqOK(g)'
<1>1. req' \in [Handlers -> Requests] /\ \A g \in Handlers \ {h} : req'[g] = req[g]
  BY DEF TypeOK
<1> QED
  BY <1>1 DEF Same
-----------------------------------------------------------------------------
(* What no step undoes: ids and codes are not used twice, a problem does   *)
(* not change hands, who is gone stays gone, what was done stays done.     *)

Greater == next'.code >= next.code /\ next'.class >= next.class

ClassStep(t) ==
    \/ class'[t] = class[t]
    \/ class'[t] = NoClass
    \/ /\ next'.code > next.code /\ class'[t].code = next.code
       /\ \/ class[t] # NoClass /\ class'[t].id = class[t].id
          \/ next'.class > next.class /\ class'[t].id = next.class

OwnerStep(p) ==
    \/ owner'[p] = owner[p]
    \/ owner[p] = "unborn"
    \/ owner'[p] = "gone"
    \/ owner'[p] = "nobody" /\ owner[p] \in Users /\ role'[owner[p]] = "gone"

Monotone ==
    /\ Greater
    /\ \A t \in Users : ClassStep(t)
    /\ \A p \in Problems : OwnerStep(p)
    /\ \A u \in Users : role[u] = "gone" => role'[u] = "gone"
    /\ invited \subseteq invited' /\ wasStaff \subseteq wasStaff'

LEMMA AdmittedStays ==
  ASSUME TypeOK, TypeOK', Monotone, NEW c, NEW u, Admitted(c, u)
  PROVE  Admitted(c, u)'
<1>1. c \in 1..(next'.class - 1)
  BY DEF Admitted, Monotone, Greater, TypeOK
<1>2. ASSUME NEW t \in Users, class'[t] # NoClass, class'[t].id = c
      PROVE  <<t, u>> \in invited'
  <2>1. class[t] # NoClass /\ class[t].id = c
    BY <1>2 DEF Admitted, Monotone, ClassStep, TypeOK
  <2> QED
    BY <2>1 DEF Admitted, Monotone
<1> QED
  BY <1>1, <1>2 DEF Admitted, NoClass

LEMMA MaySubmitStays ==
  ASSUME Monotone, NEW u \in Users, NEW p \in Problems, owner[p] # "unborn", MaySubmit(u, p)
  PROVE  owner'[p] # "unborn" /\ MaySubmit(u, p)'
BY ClassroomAssumption DEF Monotone, OwnerStep, MaySubmit

LEMMA RequestStays ==
  ASSUME TypeOK, TypeOK', Monotone, NEW g \in Handlers, ReqOK(g), Same(g)
  PROVE  ReqOK(g)'
<1>1. CASE req[g].pc \in AnswerPcs /\ req'[g].pc = req[g].pc
  BY <1>1 DEF ReqOK, CodeOK, SubmitOK, OwnOK, At, AnswerPcs, JoinPcs
<1>2. CASE req'[g] = req[g]
  <2>1. CASE At(g, "joinLookup")
    <3>1. req[g].code \in 1..(next'.code - 1)
      BY <2>1 DEF ReqOK, CodeOK, Monotone, Greater, TypeOK
    <3>2. ASSUME req[g].dead, NEW t \in Users
          PROVE  class'[t].code # req[g].code
      BY <2>1, <3>2 DEF ReqOK, CodeOK, Monotone, ClassStep, NoClass, TypeOK
    <3> QED
      BY <1>2, <2>1, <3>1, <3>2 DEF ReqOK, CodeOK, SubmitOK, OwnOK, At, JoinPcs
  <2>2. CASE req[g].pc \in JoinPcs
    <3>1. Admitted(req[g].class, req[g].user)'
      <4>1. Admitted(req[g].class, req[g].user)
        BY <2>2 DEF ReqOK, CodeOK
      <4> QED
        BY <1>2, <4>1, AdmittedStays DEF Admitted
    <3> QED
      BY <1>2, <2>2, <3>1 DEF ReqOK, CodeOK, SubmitOK, OwnOK, At, JoinPcs
  <2>3. CASE req[g].pc \in {"visible", "submit"}
    <3>1. req[g].user \in Users /\ req[g].problem \in Problems
      BY <2>3, ProblemRequest DEF ProblemPcs
    <3>2. At(g, "submit") => /\ owner'[req[g].problem] # "unborn"
                             /\ MaySubmit(req[g].user, req[g].problem)'
      BY <1>2, <3>1, MaySubmitStays DEF ReqOK, SubmitOK, MaySubmit
    <3> QED
      BY <1>2, <2>3, <3>2 DEF ReqOK, CodeOK, SubmitOK, OwnOK, At, JoinPcs, Monotone
  <2>4. CASE req[g].pc \in {"edit", "delete"}
    <3>1. req[g].user \in Users /\ req[g].problem \in Problems
      BY <2>4, ProblemRequest DEF ProblemPcs
    <3>2. OwnOK(g)'
      BY <1>2, <2>4, <3>1, ClassroomAssumption DEF ReqOK, OwnOK, At, Monotone, OwnerStep
    <3> QED
      BY <1>2, <2>4, <3>2 DEF ReqOK, CodeOK, SubmitOK, At, JoinPcs
  <2> QED
    BY <1>2, <2>1, <2>2, <2>3, <2>4 DEF ReqOK, CodeOK, SubmitOK, OwnOK, At, JoinPcs
<1> QED
  BY <1>1, <1>2 DEF Same

LEMMA Preserved ==
  ASSUME IInv, Monotone, TypeOK', IsFiniteSet(subs'), UniqueIds',
         \A u \in Users : role'[u] \in Staff => u \in wasStaff',
         \A g \in Handlers : Same(g) \/ ReqOK(g)',
         \A m \in members' : m \in members \/ Admitted(m[1], m[2])',
         \A s \in subs' : \/ \E q \in subs : q.user = s.user /\ q.problem = s.problem
                          \/ MaySubmit(s.user, s.problem)'
  PROVE  IInv'
<1>1. \A m \in members' : Admitted(m[1], m[2])'
  <2> SUFFICES ASSUME NEW m \in members', m \in members PROVE Admitted(m[1], m[2])'
    OBVIOUS
  <2>1. Admitted(m[1], m[2])
    BY DEF IInv
  <2> QED
    BY <2>1, AdmittedStays DEF IInv
<1>2. \A s \in subs' : MaySubmit(s.user, s.problem)'
  <2> SUFFICES ASSUME NEW s \in subs', NEW q \in subs, q.user = s.user, q.problem = s.problem
               PROVE  MaySubmit(s.user, s.problem)'
    OBVIOUS
  <2>1. /\ q.user \in Users /\ q.problem \in Problems
        /\ owner[q.problem] # "unborn" /\ MaySubmit(q.user, q.problem)
    BY ClassroomAssumption DEF IInv, TypeOK, Subs, Has
  <2>2. MaySubmit(q.user, q.problem)'
    BY <2>1, MaySubmitStays DEF MaySubmit
  <2> QED
    BY <2>2 DEF MaySubmit
<1>3. \A g \in Handlers : ReqOK(g)'
  BY RequestStays DEF IInv
<1> QED
  BY <1>1, <1>2, <1>3 DEF IInv

\* A step that writes no table.
LEMMA TablesStay ==
  ASSUME IInv, UNCHANGED tables, invited' \subseteq Users \X Users, invited \subseteq invited',
         wasStaff' = wasStaff, requests' \in 0..MaxRequests, changes' \in 0..MaxChanges,
         req' \in [Handlers -> Requests],
         \A g \in Handlers : Same(g) \/ ReqOK(g)'
  PROVE  IInv'
<1>1. TypeOK'
  BY DEF IInv, TypeOK, tables, Exists, Has
<1>2. Monotone
  BY DEF IInv, TypeOK, tables, Monotone, Greater, ClassStep, OwnerStep
<1>3. UniqueIds' /\ IsFiniteSet(subs') /\ members' = members /\ subs' = subs /\ role' = role
  BY DEF IInv, UniqueIds, tables
<1> QED
  BY <1>1, <1>2, <1>3, Preserved DEF IInv
-----------------------------------------------------------------------------
(* The steps that write no table                                           *)

\* TablesStay for a thread that replies or goes on to r.
LEMMA Goes ==
  ASSUME IInv, NEW h \in Handlers, NEW r \in Requests, req' = [req EXCEPT ![h] = r],
         UNCHANGED <<tables, wasStaff, changes>>, requests' \in 0..MaxRequests,
         invited' \subseteq Users \X Users, invited \subseteq invited', ReqOK(h)'
  PROVE  IInv'
<1>1. /\ req' \in [Handlers -> Requests]
      /\ \A g \in Handlers : Same(g) \/ ReqOK(g)'
  BY NewFrame DEF IInv
<1> QED
  BY <1>1, TablesStay DEF IInv, TypeOK

LEMMA Replies ==
  ASSUME IInv, NEW h \in Handlers, Reply(h), UNCHANGED <<tables, history, requests, changes>>
  PROVE  IInv'
<1>1. /\ req' \in [Handlers -> Requests]
      /\ \A g \in Handlers : Same(g) \/ ReqOK(g)'
  BY ReplyFrame DEF IInv
<1> QED
  BY <1>1, TablesStay DEF IInv, TypeOK, history

LEMMA AuthStep ==
  ASSUME IInv, NEW h \in Handlers, Auth(h)
  PROVE  IInv'
<1>1. PICK u \in Users :
        \/ AuthStaff(h, u)
        \/ \E p \in Problems : AuthEditor(h, u, p) \/ AuthUser(h, u, p)
        \/ \E code \in 1..(next.code - 1) : AuthStudent(h, u, code)
  BY DEF Auth
<1>2. ASSUME NEW r \in Requests, Begin(h, r), ReqOK(h)'
      PROVE  IInv'
  <2>1. requests' \in 0..MaxRequests
    BY <1>2, ClassroomAssumption DEF Begin, IInv, TypeOK
  <2> QED
    BY <1>2, <2>1, Goes DEF Begin, IInv, TypeOK, history
<1>3. \A r : Begin(h, r) => req'[h] = r /\ Exists(r.user)
  BY DEF Begin, IInv, TypeOK
<1>4. role[u] \in Staff => u \in wasStaff' \/ \A r : ~Begin(h, r)
  BY DEF IInv, Begin, history
<1>5. CASE AuthStaff(h, u)
  <2>1. PICK pc \in {"classLookup", "codeLookup", "problems"} :
          Begin(h, [pc |-> pc, user |-> u, role |-> role[u]])
    BY <1>5 DEF AuthStaff
  <2> DEFINE r == [pc |-> pc, user |-> u, role |-> role[u]]
  <2>2. r \in Requests
    BY <1>3, <2>1 DEF Requests, Exists
  <2>3. ReqOK(h)'
    BY <1>3, <2>1 DEF ReqOK, CodeOK, SubmitOK, OwnOK, At, JoinPcs
  <2> QED
    BY <1>2, <2>1, <2>2, <2>3
<1>6. ASSUME NEW p \in Problems, NEW pc \in {"own", "import", "visible"},
             pc = "import" => role[u] \in Staff,
             Begin(h, [pc |-> pc, user |-> u, role |-> role[u], problem |-> p])
      PROVE  IInv'
  <2> DEFINE r == [pc |-> pc, user |-> u, role |-> role[u], problem |-> p]
  <2>1. r \in Requests
    BY <1>3, <1>6 DEF Requests, Exists
  <2>2. ReqOK(h)'
    BY <1>3, <1>4, <1>6 DEF ReqOK, CodeOK, SubmitOK, OwnOK, At, JoinPcs
  <2> QED
    BY <1>2, <1>6, <2>1, <2>2
<1>7. ASSUME NEW p \in Problems, AuthEditor(h, u, p) \/ AuthUser(h, u, p)
      PROVE  IInv'
  <2>1. CASE Begin(h, [pc |-> "list", user |-> u, role |-> role[u]])
    <3> DEFINE r == [pc |-> "list", user |-> u, role |-> role[u]]
    <3>1. r \in Requests
      BY <1>3, <2>1 DEF Requests, Exists
    <3>2. ReqOK(h)'
      BY <1>3, <2>1 DEF ReqOK, CodeOK, SubmitOK, OwnOK, At, JoinPcs
    <3> QED
      BY <1>2, <2>1, <3>1, <3>2
  <2> QED
    BY <1>6, <1>7, <2>1 DEF AuthEditor, AuthUser
<1>8. ASSUME NEW code \in 1..(next.code - 1), AuthStudent(h, u, code)
      PROVE  IInv'
  <2> DEFINE r == [pc |-> "joinLookup", user |-> u, code |-> code,
                   dead |-> \A t \in Users : class[t].code # code]
  <2>1. Begin(h, r)
    BY <1>8 DEF AuthStudent
  <2>2. r \in Requests
    <3>1. r.dead \in BOOLEAN /\ code \in Nat
      BY <1>8 DEF IInv, TypeOK
    <3> QED
      BY <3>1 DEF Requests
  <2>3. class' = class /\ next' = next
    BY <2>1 DEF Begin, tables
  <2>4. ReqOK(h)'
    BY <1>3, <1>8, <2>1, <2>3 DEF ReqOK, CodeOK, SubmitOK, OwnOK, At, JoinPcs
  <2> QED
    BY <1>2, <2>1, <2>2, <2>4
<1> QED
  BY <1>1, <1>5, <1>7, <1>8

\* The fields of a request that goes on.
LEMMA Going ==
  ASSUME TypeOK, NEW h \in Handlers, NEW pc, GoTo(h, pc),
         \/ req[h].pc \in ClassPcs /\ pc \in ClassPcs
         \/ req[h].pc \in JoinPcs /\ pc \in JoinPcs
         \/ req[h].pc \in ProblemPcs /\ pc \in ProblemPcs
  PROVE  /\ [req[h] EXCEPT !.pc = pc] \in Requests
         /\ req' = [req EXCEPT ![h] = [req[h] EXCEPT !.pc = pc]]
         /\ req'[h] = [req[h] EXCEPT !.pc = pc] /\ req'[h].pc = pc
<1>1. CASE req[h].pc \in ClassPcs /\ pc \in ClassPcs
  BY <1>1, ClassRequest DEF GoTo, Requests, ClassPcs, TypeOK
<1>2. CASE req[h].pc \in JoinPcs /\ pc \in JoinPcs
  BY <1>2, JoinRequest DEF GoTo, Requests, JoinPcs, TypeOK
<1>3. CASE req[h].pc \in ProblemPcs /\ pc \in ProblemPcs
  BY <1>3, ProblemRequest DEF GoTo, Requests, ProblemPcs, TypeOK
<1> QED
  BY <1>1, <1>2, <1>3

LEMMA LookupSteps ==
  ASSUME IInv, NEW h \in Handlers, ClassLookup(h) \/ CodeLookup(h)
  PROVE  IInv'
<1>1. ASSUME NEW pc \in {"classInsert", "codeUpdate"}, GoTo(h, pc), req[h].pc \in ClassPcs,
             UNCHANGED <<tables, history, requests, changes>>
      PROVE  IInv'
  <2>1. /\ [req[h] EXCEPT !.pc = pc] \in Requests
        /\ req' = [req EXCEPT ![h] = [req[h] EXCEPT !.pc = pc]]
        /\ req'[h].pc = pc
    BY <1>1, Going DEF IInv, ClassPcs
  <2>2. ReqOK(h)'
    BY <2>1, <1>1 DEF ReqOK, CodeOK, SubmitOK, OwnOK, At, JoinPcs
  <2> QED
    BY <1>1, <2>1, <2>2, Goes DEF IInv, TypeOK, history
<1> QED
  BY <1>1, Replies DEF ClassLookup, CodeLookup, At, ClassPcs

LEMMA JoinLookupStep ==
  ASSUME IInv, NEW h \in Handlers, JoinLookup(h)
  PROVE  IInv'
<1>1. CASE Reply(h) /\ UNCHANGED invited
  BY <1>1, Replies DEF JoinLookup, history
<1>2. ASSUME NEW t \in Users, class[t] # NoClass, class[t].code = req[h].code,
             req' = [req EXCEPT ![h] = [pc |-> "joinDup", user |-> req[h].user,
                                        class |-> class[t].id, dead |-> req[h].dead]],
             invited' = invited \cup {<<t, req[h].user>>}
      PROVE  IInv'
  <2> DEFINE r == [pc |-> "joinDup", user |-> req[h].user,
                   class |-> class[t].id, dead |-> req[h].dead]
  <2>1. At(h, "joinLookup") /\ UNCHANGED <<tables, wasStaff, requests, changes>>
    BY DEF JoinLookup
  <2>2. req[h].user \in Users /\ req[h].dead \in BOOLEAN /\ class[t].id \in 1..(next.class - 1)
    BY <1>2, <2>1, LookupRequest DEF IInv, TypeOK
  <2>3. r \in Requests
    <3>1. class[t].id \in Nat
      BY <2>2
    <3> QED
      BY <2>2, <3>1 DEF Requests
  <2>4. /\ req'[h] = r /\ class' = class /\ next' = next
        /\ invited' \subseteq Users \X Users /\ invited \subseteq invited'
    BY <1>2, <2>1, <2>2 DEF IInv, TypeOK, tables
  <2>5. Admitted(r.class, r.user)'
    <3>1. \A v \in Users : class[v] # NoClass /\ class[v].id = class[t].id => v = t
      BY <1>2 DEF IInv, UniqueIds
    <3> QED
      BY <1>2, <2>2, <2>4, <3>1 DEF Admitted
  <2>6. ~r.dead
    BY <1>2, <2>1 DEF IInv, ReqOK, CodeOK
  <2>7. ReqOK(h)'
    BY <2>4, <2>5, <2>6 DEF ReqOK, CodeOK, SubmitOK, OwnOK, At, JoinPcs, Admitted
  <2>8. requests' \in 0..MaxRequests
    BY <2>1 DEF IInv, TypeOK
  <2> QED
    BY <1>2, <2>1, <2>3, <2>4, <2>7, <2>8, Goes
<1> QED
  BY <1>1, <1>2 DEF JoinLookup

LEMMA JoinDupStep ==
  ASSUME IInv, NEW h \in Handlers, JoinDup(h)
  PROVE  IInv'
<1>1. At(h, "joinDup") /\ UNCHANGED <<tables, history, requests, changes>>
  BY DEF JoinDup
<1>2. CASE GoTo(h, "joinInsert")
  <2>1. /\ [req[h] EXCEPT !.pc = "joinInsert"] \in Requests
        /\ req' = [req EXCEPT ![h] = [req[h] EXCEPT !.pc = "joinInsert"]]
        /\ req'[h] = [req[h] EXCEPT !.pc = "joinInsert"]
    BY <1>1, <1>2, Going DEF IInv, JoinPcs, At
  <2>2. req'[h].dead = req[h].dead /\ req'[h].class = req[h].class /\ req'[h].user = req[h].user
        /\ req'[h].pc = "joinInsert"
    BY <1>1, <2>1, JoinRequest DEF IInv, JoinPcs, At
  <2>3. Admitted(req[h].class, req[h].user) /\ ~req[h].dead
    BY <1>1 DEF IInv, ReqOK, CodeOK, At, JoinPcs
  <2>4. next' = next /\ class' = class /\ invited' = invited
    BY <1>1 DEF tables, history
  <2>5. ReqOK(h)'
    BY <2>2, <2>3, <2>4 DEF ReqOK, CodeOK, SubmitOK, OwnOK, At, JoinPcs, Admitted
  <2> QED
    BY <1>1, <2>1, <2>5, Goes DEF IInv, TypeOK, history
<1> QED
  BY <1>1, <1>2, Replies DEF JoinDup

\* The visibility check is where a member is known to have been invited.
LEMMA VisibleInvited ==
  ASSUME IInv, NEW u \in Users, NEW p \in Problems, NEW r, Visible(p, u, r),
         r \in Staff => u \in wasStaff
  PROVE  owner[p] # "unborn" /\ MaySubmit(u, p)
<1>1. owner[p] # "unborn"
  BY ClassroomAssumption DEF Visible, Has
<1>2. CASE ClassProblem(p, u)
  <2>1. PICK t \in Users : owner[p] = t /\ class[t] # NoClass /\ <<class[t].id, u>> \in members
    BY <1>2 DEF ClassProblem
  <2>2. Admitted(class[t].id, u)
    BY <2>1 DEF IInv
  <2> QED
    BY <1>1, <2>1, <2>2 DEF Admitted, MaySubmit
<1> QED
  BY <1>1, <1>2, ClassroomAssumption DEF Visible, MaySubmit

LEMMA SubmitCheckStep ==
  ASSUME IInv, NEW h \in Handlers, SubmitCheck(h)
  PROVE  IInv'
<1>1. At(h, "visible") /\ UNCHANGED <<tables, history, requests, changes>>
  BY DEF SubmitCheck
<1>2. CASE Visible(req[h].problem, req[h].user, req[h].role) /\ GoTo(h, "submit")
  <2>1. /\ [req[h] EXCEPT !.pc = "submit"] \in Requests
        /\ req' = [req EXCEPT ![h] = [req[h] EXCEPT !.pc = "submit"]]
        /\ req'[h] = [req[h] EXCEPT !.pc = "submit"]
    BY <1>1, <1>2, Going DEF IInv, ProblemPcs, At
  <2>2. /\ req[h].user \in Users /\ req[h].problem \in Problems
        /\ req'[h].user = req[h].user /\ req'[h].problem = req[h].problem
        /\ req'[h].role = req[h].role /\ req'[h].pc = "submit"
    BY <1>1, <2>1, ProblemRequest DEF IInv, ProblemPcs, At
  <2>3. req[h].role \in Staff => req[h].user \in wasStaff
    BY <1>1 DEF IInv, ReqOK, SubmitOK, At
  <2>4. owner[req[h].problem] # "unborn" /\ MaySubmit(req[h].user, req[h].problem)
    BY <1>2, <2>2, <2>3, VisibleInvited
  <2>5. owner' = owner /\ wasStaff' = wasStaff /\ invited' = invited
    BY <1>1 DEF tables, history
  <2>6. ReqOK(h)'
    BY <2>2, <2>3, <2>4, <2>5 DEF ReqOK, CodeOK, SubmitOK, OwnOK, At, JoinPcs, MaySubmit
  <2> QED
    BY <1>1, <2>1, <2>6, Goes DEF IInv, TypeOK, history
<1> QED
  BY <1>1, <1>2, Replies DEF SubmitCheck

LEMMA OwnerCheckStep ==
  ASSUME IInv, NEW h \in Handlers, OwnerCheck(h)
  PROVE  IInv'
<1>1. At(h, "own") /\ UNCHANGED <<tables, history, requests, changes>>
  BY DEF OwnerCheck
<1>2. ASSUME MayEdit(req[h].problem, req[h].user, req[h].role),
             NEW pc \in {"edit", "delete"}, GoTo(h, pc)
      PROVE  IInv'
  <2>1. /\ [req[h] EXCEPT !.pc = pc] \in Requests
        /\ req' = [req EXCEPT ![h] = [req[h] EXCEPT !.pc = pc]]
        /\ req'[h] = [req[h] EXCEPT !.pc = pc]
    BY <1>1, <1>2, Going DEF IInv, ProblemPcs, At
  <2>2. /\ req'[h].user = req[h].user /\ req'[h].problem = req[h].problem
        /\ req'[h].role = req[h].role /\ req'[h].pc = pc
    BY <1>1, <2>1, ProblemRequest DEF IInv, ProblemPcs, At
  <2>3. owner' = owner
    BY <1>1 DEF tables
  <2>4. ReqOK(h)'
    BY <1>2, <2>2, <2>3 DEF ReqOK, CodeOK, SubmitOK, OwnOK, At, JoinPcs, MayEdit
  <2> QED
    BY <1>1, <2>1, <2>4, Goes DEF IInv, TypeOK, history
<1> QED
  BY <1>1, <1>2, Replies DEF OwnerCheck

LEMMA TableType ==
  ASSUME IInv, NEW S \in SUBSET Problems
  PROVE  Table(S) \in Tables
<1>1. ASSUME NEW T \in SUBSET subs
      PROVE  Counted(T) \in Counts
  <2>1. IsFiniteSet(T) /\ IsFiniteSet({s \in T : s.ac})
    BY FS_Subset DEF IInv
  <2>2. Cardinality(T) \in Nat /\ Cardinality({s \in T : s.ac}) \in Nat
    BY <2>1, FS_CardinalityType
  <2> QED
    BY <2>2 DEF Counted, Counts
<1>2. \A p \in Problems : Counted({s \in subs : s.problem = p /\ p \in S}) \in Counts
  <2> TAKE p \in Problems
  <2> DEFINE T == {s \in subs : s.problem = p /\ p \in S}
  <2>1. T \in SUBSET subs
    OBVIOUS
  <2> QED
    BY <2>1, <1>1
<1> QED
  BY <1>2 DEF Table, Tables

LEMMA AnswerSteps ==
  ASSUME IInv, NEW h \in Handlers, Answer(h)
  PROVE  IInv'
<1>1. CASE StatsStudents(h) \/ ListMine(h)
  BY <1>1, Replies DEF StatsStudents, ListMine
<1>2. ASSUME NEW S \in SUBSET Problems, NEW pc \in AnswerPcs, req[h].pc \in {"problems", "list"},
             UNCHANGED <<tables, history, requests, changes>>,
             req' = [req EXCEPT ![h] = [pc |-> pc, user |-> req[h].user, role |-> req[h].role,
                                        first |-> Table(S), raced |-> FALSE]]
      PROVE  IInv'
  <2> DEFINE r == [pc |-> pc, user |-> req[h].user, role |-> req[h].role,
                   first |-> Table(S), raced |-> FALSE]
  <2>1. req[h].user \in Users /\ req[h].role \in Roles
    BY <1>2, ClassRequest DEF IInv, ClassPcs
  <2>2. r \in Requests
    BY <1>2, <2>1, TableType DEF Requests, AnswerPcs
  <2>3. req'[h].pc = pc
    BY <1>2 DEF IInv, TypeOK
  <2>4. ReqOK(h)'
    BY <2>3 DEF ReqOK, CodeOK, SubmitOK, OwnOK, At, JoinPcs, AnswerPcs
  <2> QED
    BY <1>2, <2>2, <2>4, Goes DEF IInv, TypeOK, history
<1>3. CASE StatsProblems(h)
  <2> DEFINE S == {p \in Problems : Has(p) /\ (req[h].role = "teacher" => owner[p] = req[h].user)}
  <2>1. ProblemStats(req[h].user, req[h].role) = Table(S)
    BY DEF ProblemStats
  <2> QED
    BY <1>2, <1>3, <2>1 DEF StatsProblems, At, AnswerPcs
<1>4. CASE ListProblems(h)
  <2> DEFINE S == {p \in Problems : Visible(p, req[h].user, req[h].role)}
  <2>1. Listed(req[h].user, req[h].role) = Table(S)
    BY DEF Listed
  <2> QED
    BY <1>2, <1>4, <2>1 DEF ListProblems, At, AnswerPcs
<1> QED
  BY <1>1, <1>3, <1>4 DEF Answer
-----------------------------------------------------------------------------
(* The steps that write                                                    *)

\* A class comes or gets another code.
LEMMA ClassWritten ==
  ASSUME IInv, NEW h \in Handlers, Wrote(h), NEW u \in Users, Exists(u), NEW i \in 1..next.class,
         \/ class[u] # NoClass /\ i = class[u].id /\ next' = [next EXCEPT !.code = @ + 1]
         \/ /\ class[u] = NoClass /\ i = next.class
            /\ next' = [next EXCEPT !.class = @ + 1, !.code = @ + 1],
         class' = [class EXCEPT ![u] = [id |-> i, code |-> next.code]],
         UNCHANGED <<role, members, owner, subs, history, requests, changes>>
  PROVE  IInv'
<1>1. /\ req' \in [Handlers -> Requests]
      /\ \A g \in Handlers : Same(g) \/ ReqOK(g)'
  BY WroteFrame DEF IInv
<1>2. /\ next.code \in Nat \ {0} /\ next.class \in Nat \ {0} /\ next.sub \in Nat \ {0}
      /\ next' \in [class : Nat \ {0}, code : Nat \ {0}, sub : Nat \ {0}]
      /\ next'.code = next.code + 1 /\ next'.class >= next.class
      /\ class[u] = NoClass => next'.class = next.class + 1
  <2>1. next \in [class : Nat \ {0}, code : Nat \ {0}, sub : Nat \ {0}]
    BY DEF IInv, TypeOK
  <2>2. CASE class[u] # NoClass /\ next' = [next EXCEPT !.code = @ + 1]
    BY <2>1, <2>2
  <2>3. CASE class[u] = NoClass /\ next' = [next EXCEPT !.class = @ + 1, !.code = @ + 1]
    <3>1. next' = [class |-> next.class + 1, code |-> next.code + 1, sub |-> next.sub]
      BY <2>1, <2>3
    <3>2. next.class + 1 \in Nat \ {0} /\ next.code + 1 \in Nat \ {0} /\ next.class + 1 >= next.class
      BY <2>1
    <3> QED
      BY <2>1, <2>3, <3>1, <3>2
  <2> QED
    BY <2>2, <2>3
<1>3. /\ class' \in [Users -> [id : Nat, code : Nat]]
      /\ class'[u] = [id |-> i, code |-> next.code]
      /\ \A v \in Users \ {u} : class'[v] = class[v]
  BY <1>2 DEF IInv, TypeOK
<1>4. /\ class'[u] # NoClass
      /\ i \in 1..(next'.class - 1) /\ next.code \in 1..(next'.code - 1)
  BY <1>2, <1>3 DEF NoClass, IInv, TypeOK
<1>5. \A v \in Users : class'[v] # NoClass =>
        Exists(v)' /\ class'[v].id \in 1..(next'.class - 1)
                  /\ class'[v].code \in 1..(next'.code - 1)
  <2> TAKE v \in Users
  <2>1. CASE v = u
    BY <2>1, <1>3, <1>4 DEF Exists
  <2>2. CASE v # u
    BY <2>2, <1>2, <1>3 DEF IInv, TypeOK, Exists
  <2> QED
    BY <2>1, <2>2
<1>6. \A m \in members' : Exists(m[2])' /\ \E t \in Users : class'[t] # NoClass /\ class'[t].id = m[1]
  <2> TAKE m \in members'
  <2>1. PICK t \in Users : class[t] # NoClass /\ class[t].id = m[1]
    BY DEF IInv, TypeOK
  <2>2. class'[t] # NoClass /\ class'[t].id = m[1]
    BY <2>1, <1>3, <1>4
  <2> QED
    BY <2>2 DEF IInv, TypeOK, Exists
<1>7. TypeOK'
  BY <1>1, <1>2, <1>3, <1>5, <1>6 DEF IInv, TypeOK, Exists, Has, history
<1>8. Monotone
  <2>1. ClassStep(u)
    BY <1>2, <1>3 DEF ClassStep
  <2> QED
    BY <1>2, <1>3, <2>1 DEF Monotone, Greater, ClassStep, OwnerStep, history
<1>9. UniqueIds'
  BY <1>2, <1>3 DEF UniqueIds, IInv, TypeOK
<1> QED
  BY <1>1, <1>7, <1>8, <1>9, Preserved DEF IInv, history

LEMMA ClassInsertStep ==
  ASSUME IInv, NEW h \in Handlers, ClassInsert(h)
  PROVE  IInv'
<1> DEFINE u == req[h].user
<1>1. u \in Users
  BY ClassRequest DEF IInv, ClassInsert, At, ClassPcs
<1>2. CASE Exists(u) /\ class[u] = NoClass
  <2>1. next.class \in 1..next.class
    BY DEF IInv, TypeOK
  <2> QED
    BY <1>1, <1>2, <2>1, ClassWritten DEF ClassInsert
<1>3. CASE ~(Exists(u) /\ class[u] = NoClass)
  BY <1>3, Replies DEF ClassInsert, tables
<1> QED
  BY <1>2, <1>3

LEMMA CodeUpdateStep ==
  ASSUME IInv, NEW h \in Handlers, CodeUpdate(h)
  PROVE  IInv'
<1> DEFINE u == req[h].user
<1>1. u \in Users
  BY ClassRequest DEF IInv, CodeUpdate, At, ClassPcs
<1>2. CASE class[u] # NoClass
  <2>1. Exists(u) /\ class[u].id \in 1..next.class
    BY <1>1, <1>2 DEF IInv, TypeOK
  <2>2. class' = [class EXCEPT ![u] = [id |-> class[u].id, code |-> next.code]]
    <3>1. class[u] \in [id : Nat, code : Nat]
      BY <1>1 DEF IInv, TypeOK
    <3>2. [class[u] EXCEPT !.code = next.code] = [id |-> class[u].id, code |-> next.code]
      BY <3>1
    <3>3. class' = [class EXCEPT ![u] = [class[u] EXCEPT !.code = next.code]]
      BY <1>1, <1>2 DEF CodeUpdate, IInv, TypeOK
    <3> QED
      BY <3>2, <3>3
  <2> QED
    BY <1>1, <1>2, <2>1, <2>2, ClassWritten DEF CodeUpdate
<1>3. CASE class[u] = NoClass
  <2>1. class' = class /\ next' = [next EXCEPT !.code = @ + 1] /\ Wrote(h)
        /\ UNCHANGED <<role, members, owner, subs, history, requests, changes>>
    BY <1>3 DEF CodeUpdate
  <2>2. /\ req' \in [Handlers -> Requests]
        /\ \A g \in Handlers : Same(g) \/ ReqOK(g)'
    BY <2>1, WroteFrame DEF IInv
  <2>3. TypeOK'
    BY <2>1, <2>2 DEF IInv, TypeOK, Exists, Has, history
  <2>4. Monotone
    BY <2>1 DEF Monotone, Greater, ClassStep, OwnerStep, history, IInv, TypeOK
  <2>5. UniqueIds'
    BY <2>1 DEF UniqueIds, IInv
  <2> QED
    BY <2>1, <2>2, <2>3, <2>4, <2>5, Preserved DEF IInv, history
<1> QED
  BY <1>2, <1>3

LEMMA JoinInsertStep ==
  ASSUME IInv, NEW h \in Handlers, JoinInsert(h)
  PROVE  IInv'
<1>1. req[h].user \in Users /\ req[h].class \in Nat /\ Admitted(req[h].class, req[h].user)
  BY JoinRequest DEF IInv, JoinInsert, At, JoinPcs, ReqOK, CodeOK
<1> PICK u \in Users, c \in Nat : u = req[h].user /\ c = req[h].class
  BY <1>1
<1>2. CASE Reply(h) /\ UNCHANGED members
  BY <1>2, Replies DEF JoinInsert, tables
<1>3. CASE Exists(u) /\ Wrote(h) /\ members' = members \cup {<<c, u>>}
           /\ \E t \in Users : class[t].id = c
  <2>1. UNCHANGED <<role, class, owner, subs, next, history, requests, changes>>
    BY DEF JoinInsert
  <2>2. /\ req' \in [Handlers -> Requests]
        /\ \A g \in Handlers : Same(g) \/ ReqOK(g)'
    BY <1>3, WroteFrame DEF IInv
  <2>3. \E t \in Users : class[t] # NoClass /\ class[t].id = c
    BY <1>1, <1>3 DEF Admitted, NoClass
  <2>4. /\ members' \subseteq Nat \X Users
        /\ \A m \in members' : Exists(m[2]) /\ \E t \in Users : class[t] # NoClass /\ class[t].id = m[1]
    BY <1>1, <1>3, <2>3 DEF IInv, TypeOK
  <2>5. TypeOK'
    BY <2>1, <2>2, <2>4 DEF IInv, TypeOK, Exists, Has, history
  <2>6. Monotone
    BY <2>1 DEF Monotone, Greater, ClassStep, OwnerStep, history, IInv, TypeOK
  <2>7. UniqueIds' /\ Admitted(c, u)'
    BY <1>1, <2>1 DEF UniqueIds, Admitted, IInv, history
  <2>8. \A m \in members' : m \in members \/ Admitted(m[1], m[2])'
    BY <1>3, <2>7
  <2> QED
    BY <2>1, <2>2, <2>5, <2>6, <2>7, <2>8, Preserved DEF IInv, history
<1> QED
  BY <1>2, <1>3 DEF JoinInsert

LEMMA SubmitInsertStep ==
  ASSUME IInv, NEW h \in Handlers, SubmitInsert(h)
  PROVE  IInv'
<1>1. /\ req[h].user \in Users /\ req[h].problem \in Problems
      /\ MaySubmit(req[h].user, req[h].problem)
  BY ProblemRequest DEF IInv, SubmitInsert, At, ProblemPcs, ReqOK, SubmitOK
<1>2. CASE Reply(h) /\ UNCHANGED <<subs, next>>
  BY <1>2, Replies DEF SubmitInsert, tables
<1>3. CASE /\ Exists(req[h].user) /\ Has(req[h].problem) /\ Wrote(h)
           /\ subs' = subs \cup {[id |-> next.sub, user |-> req[h].user,
                                  problem |-> req[h].problem, ac |-> FALSE]}
           /\ next' = [next EXCEPT !.sub = @ + 1]
  <2> PICK u \in Users, p \in Problems, i \in Nat :
        u = req[h].user /\ p = req[h].problem /\ i = next.sub
    BY <1>1 DEF IInv, TypeOK
  <2> DEFINE new == [id |-> i, user |-> u, problem |-> p, ac |-> FALSE]
  <2>1. UNCHANGED <<role, class, members, owner, history, requests, changes>>
    BY DEF SubmitInsert
  <2>2. /\ req' \in [Handlers -> Requests]
        /\ \A g \in Handlers : Same(g) \/ ReqOK(g)'
    BY <1>3, WroteFrame DEF IInv
  <2>3. new \in Subs /\ Exists(new.user) /\ Has(new.problem) /\ subs' = subs \cup {new}
    BY <1>3 DEF Subs
  <2>4. subs' \subseteq Subs /\ \A s \in subs' : Exists(s.user) /\ Has(s.problem)
    BY <2>3 DEF IInv, TypeOK
  <2>5. next' \in [class : Nat \ {0}, code : Nat \ {0}, sub : Nat \ {0}]
        /\ next'.class = next.class /\ next'.code = next.code
    BY <1>3 DEF IInv, TypeOK
  <2>6. TypeOK'
    BY <2>1, <2>2, <2>4, <2>5 DEF IInv, TypeOK, Exists, Has, history
  <2>7. Monotone
    BY <2>1, <2>5 DEF Monotone, Greater, ClassStep, OwnerStep, history, IInv, TypeOK
  <2>8. UniqueIds' /\ MaySubmit(u, p)'
    BY <1>1, <2>1 DEF UniqueIds, MaySubmit, IInv, history
  <2>9. IsFiniteSet(subs')
    BY <2>3, FS_AddElement DEF IInv
  <2>10. \A s \in subs' : \/ \E q \in subs : q.user = s.user /\ q.problem = s.problem
                          \/ MaySubmit(s.user, s.problem)'
    BY <2>3, <2>8 DEF MaySubmit
  <2> QED
    BY <2>1, <2>2, <2>6, <2>7, <2>8, <2>9, <2>10, Preserved DEF IInv, history
<1> QED
  BY <1>2, <1>3 DEF SubmitInsert

LEMMA ProblemDeleteStep ==
  ASSUME IInv, NEW h \in Handlers, ProblemDelete(h)
  PROVE  IInv'
<1>1. req[h].problem \in Problems
  BY ProblemRequest DEF IInv, ProblemDelete, At, ProblemPcs
<1> PICK p \in Problems : p = req[h].problem
  BY <1>1
<1>2. /\ UNCHANGED <<role, class, members, next, history, requests, changes>>
      /\ owner' = IF Has(p) THEN [owner EXCEPT ![p] = "gone"] ELSE owner
      /\ subs' = {s \in subs : s.problem # p}
      /\ Wrote(h)
  BY DEF ProblemDelete
<1>3. /\ req' \in [Handlers -> Requests]
      /\ \A g \in Handlers : Same(g) \/ ReqOK(g)'
  BY <1>2, WroteFrame DEF IInv
<1>4. /\ owner' \in [Problems -> Users \cup {"nobody", "unborn", "gone"}]
      /\ \A q \in Problems : owner'[q] = owner[q] \/ owner'[q] = "gone"
      /\ \A q \in Problems \ {p} : owner'[q] = owner[q]
  BY <1>2 DEF IInv, TypeOK
<1>5. \A s \in subs' : s \in subs /\ s.problem \in Problems \ {p}
  BY <1>2 DEF IInv, TypeOK, Subs
<1>6. TypeOK'
  <2>1. \A q \in Problems : owner'[q] \in Users => role'[owner'[q]] \in Roles
    BY <1>2, <1>4, ClassroomAssumption DEF IInv, TypeOK, Exists
  <2>2. \A s \in subs' : Exists(s.user)' /\ Has(s.problem)'
    BY <1>2, <1>4, <1>5 DEF IInv, TypeOK, Exists, Has
  <2> QED
    BY <1>2, <1>3, <1>4, <1>5, <2>1, <2>2 DEF IInv, TypeOK, Exists, history
<1>7. Monotone
  BY <1>2, <1>4 DEF Monotone, Greater, ClassStep, OwnerStep, history, IInv, TypeOK
<1>8. UniqueIds' /\ IsFiniteSet(subs')
  BY <1>2, FS_Subset DEF UniqueIds, IInv
<1> QED
  BY <1>2, <1>3, <1>5, <1>6, <1>7, <1>8, Preserved DEF IInv, history

LEMMA ProblemImportStep ==
  ASSUME IInv, NEW h \in Handlers, ProblemImport(h)
  PROVE  IInv'
<1>1. /\ req[h].user \in Users /\ req[h].problem \in Problems
      /\ req[h].role \in Roles /\ req[h].role \in Staff
  BY ProblemRequest DEF IInv, ProblemImport, At, ProblemPcs, ReqOK, OwnOK
<1>2. CASE Reply(h) /\ UNCHANGED owner
  BY <1>2, Replies DEF ProblemImport, tables
<1>3. CASE /\ owner[req[h].problem] = "unborn" /\ (req[h].role = "teacher" => Exists(req[h].user))
           /\ Wrote(h)
           /\ owner' = [owner EXCEPT ![req[h].problem] =
                           IF req[h].role = "admin" THEN "nobody" ELSE req[h].user]
  <2> PICK p \in Problems, o \in Users \cup {"nobody"} :
        p = req[h].problem /\ o = IF req[h].role = "admin" THEN "nobody" ELSE req[h].user
    BY <1>1
  <2>1. /\ UNCHANGED <<role, class, members, subs, next, history, requests, changes>>
        /\ owner[p] = "unborn" /\ owner' = [owner EXCEPT ![p] = o]
        /\ o \in Users => Exists(o)
    BY <1>1, <1>3, ClassroomAssumption DEF ProblemImport, Staff
  <2>2. /\ req' \in [Handlers -> Requests]
        /\ \A g \in Handlers : Same(g) \/ ReqOK(g)'
    BY <1>3, WroteFrame DEF IInv
  <2>3. /\ owner' \in [Problems -> Users \cup {"nobody", "unborn", "gone"}]
        /\ owner'[p] = o /\ \A q \in Problems \ {p} : owner'[q] = owner[q]
    BY <2>1 DEF IInv, TypeOK
  <2>4. TypeOK'
    <3>1. \A q \in Problems : owner'[q] \in Users => role'[owner'[q]] \in Roles
      BY <2>1, <2>3 DEF IInv, TypeOK, Exists
    <3>2. \A s \in subs' : Exists(s.user)' /\ Has(s.problem)'
      BY <2>1, <2>3, ClassroomAssumption DEF IInv, TypeOK, Exists, Has, Subs
    <3> QED
      BY <2>1, <2>2, <2>3, <3>1, <3>2 DEF IInv, TypeOK, Exists, history
  <2>5. Monotone
    BY <2>1, <2>3 DEF Monotone, Greater, ClassStep, OwnerStep, history, IInv, TypeOK
  <2>6. UniqueIds'
    BY <2>1 DEF UniqueIds, IInv
  <2> QED
    BY <2>1, <2>2, <2>4, <2>5, <2>6, Preserved DEF IInv, history
<1> QED
  BY <1>2, <1>3 DEF ProblemImport
-----------------------------------------------------------------------------
(* The statements of user management and of judging                        *)

LEMMA Changed ==
  ASSUME IInv, Change
  PROVE  /\ req' \in [Handlers -> Requests]
         /\ \A g \in Handlers : Same(g) \/ ReqOK(g)'
         /\ requests' = requests /\ changes' \in 0..MaxChanges
<1>1. changes' \in 0..MaxChanges /\ requests' = requests
  BY ClassroomAssumption DEF Change, IInv, TypeOK
<1> QED
  BY <1>1, ChangeFrame DEF IInv

LEMMA RoleWrittenStep ==
  ASSUME IInv, NEW u \in Users, NEW r \in Roles, RoleWritten(u, r)
  PROVE  IInv'
<1>1. /\ UNCHANGED <<class, members, owner, subs, next, invited>> /\ Change
      /\ role' = [role EXCEPT ![u] = r] /\ Exists(u)
      /\ wasStaff' = IF r \in Staff THEN wasStaff \cup {u} ELSE wasStaff
  BY DEF RoleWritten
<1>2. /\ role' \in [Users -> Roles \cup {"gone"}]
      /\ \A v \in Users : role[v] \in Roles <=> role'[v] \in Roles
      /\ \A v \in Users : role'[v] \in Staff => v \in wasStaff'
  BY <1>1 DEF IInv, TypeOK, Exists
<1>3. TypeOK'
  <2>1. \A m \in members : m[2] \in Users
    BY DEF IInv, TypeOK
  <2>2. \A s \in subs : s.user \in Users
    BY DEF IInv, TypeOK, Subs
  <2> QED
    BY <1>1, <1>2, <2>1, <2>2, Changed DEF IInv, TypeOK, Exists, Has
<1>4. Monotone
  BY <1>1, <1>2 DEF Monotone, Greater, ClassStep, OwnerStep, IInv, TypeOK, Exists, Roles
<1>5. UniqueIds'
  BY <1>1 DEF UniqueIds, IInv
<1> QED
  BY <1>1, <1>2, <1>3, <1>4, <1>5, Changed, Preserved DEF IInv

LEMMA ClassDroppedStep ==
  ASSUME IInv, NEW u \in Users, ClassDropped(u)
  PROVE  IInv'
<1>1. /\ UNCHANGED <<role, owner, subs, next, history>> /\ Change
      /\ class' = [class EXCEPT ![u] = NoClass]
      /\ members' = {m \in members : m[1] # class[u].id}
  BY DEF ClassDropped
<1>2. /\ class' \in [Users -> [id : Nat, code : Nat]]
      /\ class'[u] = NoClass /\ \A v \in Users \ {u} : class'[v] = class[v]
  BY <1>1 DEF IInv, TypeOK, NoClass
<1>3. TypeOK'
  <2>1. \A m \in members' : \E t \in Users : class'[t] # NoClass /\ class'[t].id = m[1]
    BY <1>1, <1>2 DEF IInv, TypeOK
  <2> QED
    BY <1>1, <1>2, <2>1, Changed DEF IInv, TypeOK, Exists, Has, history
<1>4. Monotone
  BY <1>1, <1>2 DEF Monotone, Greater, ClassStep, OwnerStep, history, IInv, TypeOK
<1>5. UniqueIds'
  BY <1>2 DEF UniqueIds, IInv
<1> QED
  BY <1>1, <1>3, <1>4, <1>5, Changed, Preserved DEF IInv, history

LEMMA UserDeletedStep ==
  ASSUME IInv, NEW u \in Users, UserDeleted(u)
  PROVE  IInv'
<1>1. /\ UNCHANGED <<next, history>> /\ Change
      /\ role' = [role EXCEPT ![u] = "gone"]
      /\ class' = [class EXCEPT ![u] = NoClass]
      /\ members' = {m \in members : m[2] # u /\ m[1] # class[u].id}
      /\ owner' = [p \in Problems |-> IF owner[p] = u THEN "nobody" ELSE owner[p]]
      /\ subs' = {s \in subs : s.user # u}
  BY DEF UserDeleted
<1>2. /\ class' \in [Users -> [id : Nat, code : Nat]]
      /\ class'[u] = NoClass /\ \A v \in Users \ {u} : class'[v] = class[v]
  BY <1>1 DEF IInv, TypeOK, NoClass
<1>3. /\ role' \in [Users -> Roles \cup {"gone"}]
      /\ role'[u] = "gone" /\ \A v \in Users \ {u} : role'[v] = role[v]
  BY <1>1 DEF IInv, TypeOK
<1>4. /\ owner' \in [Problems -> Users \cup {"nobody", "unborn", "gone"}]
      /\ \A p \in Problems : \/ owner[p] = u /\ owner'[p] = "nobody"
                             \/ owner[p] # u /\ owner'[p] = owner[p]
  <2>1. \A p \in Problems : owner'[p] = IF owner[p] = u THEN "nobody" ELSE owner[p]
    BY <1>1
  <2>2. \A p \in Problems : owner[p] \in Users \cup {"nobody", "unborn", "gone"}
    BY DEF IInv, TypeOK
  <2>3. owner' \in [Problems -> Users \cup {"nobody", "unborn", "gone"}]
    BY <1>1, <2>2
  <2>4. ASSUME NEW p \in Problems
        PROVE  \/ owner[p] = u /\ owner'[p] = "nobody"
               \/ owner[p] # u /\ owner'[p] = owner[p]
    BY <2>1
  <2> QED
    BY <2>3, <2>4
<1>5. TypeOK'
  <2>1. \A m \in members' :
          Exists(m[2])' /\ \E t \in Users : class'[t] # NoClass /\ class'[t].id = m[1]
    BY <1>1, <1>2, <1>3 DEF IInv, TypeOK, Exists
  <2>2. \A p \in Problems : owner'[p] \in Users => role'[owner'[p]] \in Roles
    BY <1>3, <1>4, ClassroomAssumption DEF IInv, TypeOK, Exists
  <2>3. \A s \in subs' : Exists(s.user)' /\ Has(s.problem)'
    BY <1>1, <1>3, <1>4 DEF IInv, TypeOK, Exists, Has, Subs
  <2>4. \A v \in Users : class'[v] # NoClass =>
          /\ Exists(v)' /\ class'[v].id \in 1..(next'.class - 1)
          /\ class'[v].code \in 1..(next'.code - 1)
    BY <1>1, <1>2, <1>3 DEF IInv, TypeOK, Exists
  <2>5. members' \subseteq Nat \X Users /\ subs' \subseteq Subs
    BY <1>1 DEF IInv, TypeOK
  <2> QED
    BY <1>1, <1>2, <1>3, <1>4, <2>1, <2>2, <2>3, <2>4, <2>5, Changed
    DEF IInv, TypeOK, Exists, history
<1>6. Monotone
  BY <1>1, <1>2, <1>3, <1>4 DEF Monotone, Greater, ClassStep, OwnerStep, history, IInv, TypeOK
<1>7. UniqueIds' /\ IsFiniteSet(subs')
  BY <1>1, <1>2, FS_Subset DEF UniqueIds, IInv
<1>8. \A v \in Users : role'[v] \in Staff => v \in wasStaff'
  BY <1>1, <1>3 DEF IInv, history, Staff
<1> QED
  BY <1>1, <1>5, <1>6, <1>7, <1>8, Changed, Preserved DEF IInv, history

LEMMA JudgedStep ==
  ASSUME IInv, NEW s \in subs, Judged(s)
  PROVE  IInv'
<1>1. /\ UNCHANGED <<role, class, members, owner, next, history>> /\ Change
      /\ subs' = (subs \ {s}) \cup {[s EXCEPT !.ac = ~@]}
  BY DEF Judged
<1>2. /\ [s EXCEPT !.ac = ~@] \in Subs
      /\ [s EXCEPT !.ac = ~@].user = s.user /\ [s EXCEPT !.ac = ~@].problem = s.problem
  BY DEF IInv, TypeOK, Subs
<1>3. \A q \in subs' : q \in Subs /\ \E o \in subs : o.user = q.user /\ o.problem = q.problem
  BY <1>1, <1>2 DEF IInv, TypeOK
<1>4. IsFiniteSet(subs')
  <2>1. IsFiniteSet(subs \ {s})
    BY FS_Subset DEF IInv
  <2> QED
    BY <1>1, <2>1, FS_AddElement
<1>5. TypeOK'
  BY <1>1, <1>3, Changed DEF IInv, TypeOK, Exists, Has, history
<1>6. Monotone
  BY <1>1 DEF Monotone, Greater, ClassStep, OwnerStep, history, IInv, TypeOK
<1>7. UniqueIds'
  BY <1>1 DEF UniqueIds, IInv
<1> QED
  BY <1>1, <1>3, <1>4, <1>5, <1>6, <1>7, Changed, Preserved DEF IInv, history
-----------------------------------------------------------------------------
LEMMA InitIInv == Init => IInv
<1> SUFFICES ASSUME Init PROVE IInv
  OBVIOUS
<1>1. PICK T \in SUBSET {u \in Users : role[u] \in Staff},
           S \in SUBSET {u \in Users : role[u] = "student"} :
        /\ Cardinality(T) <= 1
        /\ class = [u \in Users |-> IF u \in T THEN [id |-> 1, code |-> 1] ELSE NoClass]
        /\ next = [class |-> Cardinality(T) + 1, code |-> Cardinality(T) + 1, sub |-> 1]
        /\ T = {} => S = {}
        /\ members = {1} \X S
        /\ invited = T \X S
  BY DEF Init
<1>2. \/ T = {} /\ Cardinality(T) = 0
      \/ \E t \in Users : T = {t} /\ Cardinality(T) = 1
  <2>1. IsFiniteSet(T)
    <3>1. T \subseteq Users
      OBVIOUS
    <3> QED
      BY <3>1, FS_Subset, ClassroomAssumption DEF ClassroomAssumption
  <2>2. Cardinality(T) \in Nat
    BY <2>1, FS_CardinalityType
  <2>3. CASE Cardinality(T) = 0
    BY <2>1, <2>3, FS_EmptySet
  <2>4. CASE Cardinality(T) = 1
    <3>1. \E t : T = {t}
      BY <2>1, <2>4, FS_Singleton
    <3> QED
      BY <2>4, <3>1
  <2> QED
    BY <1>1, <2>2, <2>3, <2>4
<1>3. /\ role \in [Users -> Roles] /\ subs = {} /\ req = [h \in Handlers |-> Idle]
      /\ owner \in [Problems -> {u \in Users : role[u] = "teacher"} \cup {"nobody", "unborn"}]
      /\ wasStaff = {u \in Users : role[u] \in Staff} /\ requests = 0 /\ changes = 0
  BY ClassroomAssumption DEF Init
<1>4. /\ next = [class |-> IF T = {} THEN 1 ELSE 2, code |-> IF T = {} THEN 1 ELSE 2, sub |-> 1]
      /\ \A t, v \in T : t = v
  <2>1. CASE T = {}
    BY <1>1, <1>2, <2>1
  <2>2. CASE \E t \in Users : T = {t} /\ Cardinality(T) = 1
    BY <1>1, <2>2
  <2> QED
    BY <1>2, <2>1, <2>2
<1>5. \A u \in Users : class[u] = IF u \in T THEN [id |-> 1, code |-> 1] ELSE NoClass
  BY <1>1
<1>6. \A u \in Users : class[u] # NoClass <=> u \in T
  BY <1>5 DEF NoClass
<1>7. TypeOK
  <2>1. class \in [Users -> [id : Nat, code : Nat]]
    BY <1>1 DEF NoClass
  <2>2. \A u \in Users : class[u] # NoClass =>
          Exists(u) /\ class[u].id \in 1..(next.class - 1) /\ class[u].code \in 1..(next.code - 1)
    BY <1>3, <1>4, <1>5, <1>6 DEF Exists
  <2>3. \A m \in members : Exists(m[2]) /\ \E t \in Users : class[t] # NoClass /\ class[t].id = m[1]
    <3> TAKE m \in members
    <3>1. m[1] = 1 /\ m[2] \in S /\ T # {}
      BY <1>1
    <3>2. PICK t \in T : TRUE
      BY <3>1
    <3>3. t \in Users /\ class[t] # NoClass /\ class[t].id = 1
      BY <1>5, <1>6
    <3> QED
      BY <1>3, <3>1, <3>3 DEF Exists
  <2>4. owner \in [Problems -> Users \cup {"nobody", "unborn", "gone"}]
    BY <1>3
  <2>5. \A p \in Problems : owner[p] \in Users => Exists(owner[p])
    BY <1>3, ClassroomAssumption DEF Exists
  <2>6. next \in [class : Nat \ {0}, code : Nat \ {0}, sub : Nat \ {0}]
    BY <1>4
  <2>7. req \in [Handlers -> Requests] /\ members \subseteq Nat \X Users
        /\ invited \subseteq Users \X Users
    BY <1>1, <1>3 DEF Requests
  <2> QED
    BY <1>3, <2>1, <2>2, <2>3, <2>4, <2>5, <2>6, <2>7, ClassroomAssumption DEF TypeOK
<1>8. \A m \in members : Admitted(m[1], m[2])
  <2> TAKE m \in members
  <2>1. m[1] = 1 /\ m[2] \in S /\ T # {}
    BY <1>1
  <2> QED
    BY <1>1, <1>4, <1>6, <2>1 DEF Admitted
<1>9. UniqueIds
  BY <1>4, <1>6 DEF UniqueIds
<1>10. IsFiniteSet(subs) /\ \A s \in subs : MaySubmit(s.user, s.problem)
  BY <1>3, FS_EmptySet
<1>11. \A h \in Handlers : ReqOK(h)
  BY <1>3 DEF ReqOK, CodeOK, SubmitOK, OwnOK, At, Idle, JoinPcs
<1> QED
  BY <1>3, <1>7, <1>8, <1>9, <1>10, <1>11 DEF IInv

LEMMA NextIInv == IInv /\ [Next]_vars => IInv'
<1> SUFFICES ASSUME IInv, [Next]_vars PROVE IInv'
  OBVIOUS
<1>1. ASSUME NEW h \in Handlers, Handler(h) PROVE IInv'
  <2>1. CASE Auth(h)
    BY <2>1, AuthStep
  <2>2. CASE Classes(h)
    BY <2>2, LookupSteps, ClassInsertStep, CodeUpdateStep DEF Classes
  <2>3. CASE Join(h)
    BY <2>3, JoinLookupStep, JoinDupStep, JoinInsertStep DEF Join
  <2>4. CASE Submit(h)
    BY <2>4, SubmitCheckStep, SubmitInsertStep DEF Submit
  <2>5. CASE Edit(h)
    <3>1. CASE ProblemEdit(h)
      BY <3>1, Replies DEF ProblemEdit
    <3> QED
      BY <2>5, <3>1, OwnerCheckStep, ProblemDeleteStep, ProblemImportStep DEF Edit
  <2>6. CASE Answer(h)
    BY <2>6, AnswerSteps
  <2> QED
    BY <1>1, <2>1, <2>2, <2>3, <2>4, <2>5, <2>6 DEF Handler
<1>2. CASE Others
  BY <1>2, RoleWrittenStep, ClassDroppedStep, UserDeletedStep, JudgedStep DEF Others
<1>3. CASE UNCHANGED vars
  <2>1. UNCHANGED <<tables, invited, wasStaff, requests, changes, req>>
    BY <1>3 DEF vars, history
  <2>2. \A g \in Handlers : Same(g)
    BY <2>1 DEF Same
  <2> QED
    BY <2>1, <2>2, TablesStay DEF IInv, TypeOK
<1> QED
  BY <1>1, <1>2, <1>3 DEF Next

LEMMA Inductive == Spec => []IInv
BY InitIInv, NextIInv, PTL DEF Spec

\* Every row refers to rows that exist: the cascades of the foreign keys and the
\* statements of all requests keep the tables together (db.cpp:155).
THEOREM TypeInvariant == Spec => []TypeOK
<1>1. IInv => TypeOK
  BY DEF IInv
<1> QED
  BY <1>1, Inductive, PTL

\* A code that was nobody's when the join began admits nobody (ojclass.cpp:135).
THEOREM DeadCodes == Spec => []DeadCodesAdmitNobody
<1>1. IInv => DeadCodesAdmitNobody
  BY DEF IInv, ReqOK, CodeOK, DeadCodesAdmitNobody, JoinPcs
<1> QED
  BY <1>1, Inductive, PTL

\* Whoever submits to a teacher's problem was staff once or has presented a code
\* of that teacher's class (submission.cpp:73).
THEOREM Invitations == Spec => []TeachersProblemsNeedInvitation
<1>1. IInv => TeachersProblemsNeedInvitation
  BY DEF IInv, MaySubmit, TeachersProblemsNeedInvitation
<1> QED
  BY <1>1, Inductive, PTL

\* When a teacher's update or deletion writes, the problem is hers, or it is
\* gone, or she is (admin_problem.cpp:30).
THEOREM Ownership == Spec => []OnlyOwnersEdit
<1>1. IInv => OnlyOwnersEdit
  BY DEF IInv, ReqOK, OwnOK, OnlyOwnersEdit
<1> QED
  BY <1>1, Inductive, PTL
-----------------------------------------------------------------------------
(* Answers put together from two statements                                *)

\* A column that counts the rows of S by key sums up to the size of S.
LEMMA SumByCounting ==
  ASSUME NEW S, IsFiniteSet(S), NEW D, NEW key \in [S -> D], NEW c \in [D -> Nat],
         NEW of, \A x \in D : of[x] = {s \in S : key[s] = x} /\ c[x] = Cardinality(of[x])
  PROVE  Cardinality(UNION {{x} \X (1..c[x]) : x \in D}) = Cardinality(S)
<1> DEFINE U == UNION {{x} \X (1..c[x]) : x \in D}
           B == [x \in D |-> CHOOSE b : b \in Bijection(1..c[x], of[x])]
           g == [e \in U |-> B[e[1]][e[2]]]
<1>1. ASSUME NEW x \in D PROVE B[x] \in Bijection(1..c[x], of[x])
  <2>1. IsFiniteSet(of[x])
    BY FS_Subset
  <2>2. ExistsBijection(1..Cardinality(of[x]), of[x])
    BY <2>1, FS_CardinalityType
  <2>3. \E b : b \in Bijection(1..c[x], of[x])
    BY <2>2 DEF ExistsBijection
  <2> QED
    BY <2>3
<1>2. \A e \in U : e[1] \in D /\ e[2] \in 1..c[e[1]] /\ e = <<e[1], e[2]>>
  OBVIOUS
<1>3. \A x \in D : \A i \in 1..c[x] : <<x, i>> \in U
  OBVIOUS
<1> HIDE DEF U, B
<1>4. ASSUME NEW x \in D
      PROVE  /\ \A i \in 1..c[x] : B[x][i] \in S /\ key[B[x][i]] = x
             /\ \A i, j \in 1..c[x] : B[x][i] = B[x][j] => i = j
             /\ \A s \in S : key[s] = x => \E i \in 1..c[x] : B[x][i] = s
  <2>1. PICK b : b = B[x]
    OBVIOUS
  <2>2. b \in Injection(1..c[x], of[x]) /\ b \in Surjection(1..c[x], of[x])
    BY <1>1, <2>1 DEF Bijection
  <2>3. \A i \in 1..c[x] : b[i] \in of[x]
    BY <2>2 DEF Injection
  <2>4. \A i, j \in 1..c[x] : b[i] = b[j] => i = j
    BY <2>2 DEF Injection, IsInjective
  <2>5. \A s \in of[x] : \E i \in 1..c[x] : b[i] = s
    BY <2>2 DEF Surjection
  <2> QED
    BY <2>1, <2>3, <2>4, <2>5
<1>5. g \in [U -> S]
  BY <1>2, <1>4
<1>6. \A e, f \in U : g[e] = g[f] => e = f
  <2> SUFFICES ASSUME NEW e \in U, NEW f \in U, g[e] = g[f] PROVE e = f
    OBVIOUS
  <2>1. B[e[1]][e[2]] = B[f[1]][f[2]]
    OBVIOUS
  <2>2. key[B[e[1]][e[2]]] = e[1] /\ key[B[f[1]][f[2]]] = f[1]
    BY <1>2, <1>4
  <2>3. e[1] = f[1]
    BY <2>1, <2>2
  <2>4. e[2] = f[2]
    BY <1>2, <1>4, <2>1, <2>3
  <2> QED
    BY <1>2, <2>3, <2>4
<1>7. \A s \in S : \E e \in U : g[e] = s
  <2> SUFFICES ASSUME NEW s \in S PROVE \E e \in U : g[e] = s
    OBVIOUS
  <2>1. PICK i \in 1..c[key[s]] : B[key[s]][i] = s
    BY <1>4
  <2>2. <<key[s], i>> \in U
    BY <1>3
  <2>3. g[<<key[s], i>>] = s
    BY <2>1, <2>2
  <2> QED
    BY <2>2, <2>3
<1> HIDE DEF g
<1>8. g \in Injection(U, S) /\ g \in Surjection(U, S)
  BY <1>5, <1>6, <1>7 DEF Injection, IsInjective, Surjection
<1>9. Cardinality(U) = Cardinality(S)
  BY <1>8, FS_Injection
<1> QED
  BY <1>9 DEF U

\* The tables hold finitely many submissions, so that every count is a number.
LEMMA SubsCounted ==
  ASSUME IInv, NEW S \in SUBSET subs
  PROVE  IsFiniteSet(S) /\ Cardinality(S) \in Nat /\ Counted(S) \in Counts
<1>1. IsFiniteSet(S) /\ IsFiniteSet({s \in S : s.ac})
  BY FS_Subset DEF IInv
<1> QED
  BY <1>1, FS_CardinalityType DEF Counted, Counts

Solved(S) == {s \in S : s.ac}
By(S, v) == {s \in S : s.user = v}

\* The submissions a teacher or an administrator may see, and those of them by
\* the students listed.
Seen(u, r) == {s \in subs : r = "teacher" => owner[s.problem] = u}
Shown(u, r) == {s \in Seen(u, r) : s.user \in DOMAIN StudentStats(u, r)}

\* The problem table of the statistics counts the submissions to its rows, the
\* student table those of its rows to the problems a teacher may see.
LEMMA ProblemTotals ==
  ASSUME IInv, NEW u, NEW r
  PROVE  /\ Total(ProblemStats(u, r).counts, Submits) = Cardinality(Seen(u, r))
         /\ Total(ProblemStats(u, r).counts, Accepted) = Cardinality(Solved(Seen(u, r)))
<1>0. PICK S : S = Seen(u, r) /\ S = {s \in subs : r = "teacher" => owner[s.problem] = u}
  BY DEF Seen
<1> DEFINE rows == {p \in Problems : Has(p) /\ (r = "teacher" => owner[p] = u)}
           Of(p) == {s \in subs : s.problem = p /\ p \in rows}
           T == ProblemStats(u, r).counts
<1>1. T = [p \in Problems |-> Counted(Of(p))]
  BY DEF ProblemStats, Table
<1>2. \A s \in subs : s.problem \in Problems /\ Has(s.problem)
  BY DEF IInv, TypeOK, Subs
<1>3. \A p \in Problems : Of(p) = {s \in S : s.problem = p}
  BY <1>0, <1>2
<1>4. \A p \in Problems : Counted(Of(p)) \in Counts
  BY SubsCounted
<1>5. Total(T, Submits) = Cardinality(UNION {{p} \X (1..T[p].submit) : p \in Problems})
  BY <1>1 DEF Total, Submits
<1>6. Total(T, Accepted) = Cardinality(UNION {{p} \X (1..T[p].ac) : p \in Problems})
  BY <1>1 DEF Total, Accepted
<1>7. Total(T, Submits) = Cardinality(S)
  <2> DEFINE key == [s \in S |-> s.problem]
             c == [p \in Problems |-> T[p].submit]
             of == [p \in Problems |-> Of(p)]
  <2>1. IsFiniteSet(S) /\ key \in [S -> Problems]
    BY <1>0, <1>2, SubsCounted
  <2>2. c \in [Problems -> Nat]
    BY <1>1, <1>4 DEF Counts
  <2>3. \A p \in Problems : of[p] = {s \in S : key[s] = p} /\ c[p] = Cardinality(of[p])
    <3>1. \A p \in Problems : {s \in S : key[s] = p} = Of(p)
      BY <1>3
    <3>2. \A p \in Problems : T[p].submit = Cardinality(Of(p))
      BY <1>1 DEF Counted
    <3> QED
      BY <3>1, <3>2
  <2>4. UNION {{p} \X (1..c[p]) : p \in Problems} = UNION {{p} \X (1..T[p].submit) : p \in Problems}
    OBVIOUS
  <2> HIDE DEF key, c, of
  <2>5. Cardinality(UNION {{p} \X (1..c[p]) : p \in Problems}) = Cardinality(S)
    BY <2>1, <2>2, <2>3, SumByCounting
  <2> QED
    BY <1>5, <2>4, <2>5
<1>8. Total(T, Accepted) = Cardinality({s \in S : s.ac})
  <2> DEFINE A == {s \in S : s.ac}
             key == [s \in A |-> s.problem]
             c == [p \in Problems |-> T[p].ac]
             of == [p \in Problems |-> {s \in Of(p) : s.ac}]
  <2>1. IsFiniteSet(A) /\ key \in [A -> Problems]
    BY <1>0, <1>2, SubsCounted
  <2>2. c \in [Problems -> Nat]
    BY <1>1, <1>4 DEF Counts
  <2>3. \A p \in Problems : of[p] = {s \in A : key[s] = p} /\ c[p] = Cardinality(of[p])
    <3>1. \A p \in Problems : {s \in A : key[s] = p} = {s \in Of(p) : s.ac}
      BY <1>3
    <3>2. \A p \in Problems : T[p].ac = Cardinality({s \in Of(p) : s.ac})
      BY <1>1 DEF Counted
    <3> QED
      BY <3>1, <3>2
  <2>4. UNION {{p} \X (1..c[p]) : p \in Problems} = UNION {{p} \X (1..T[p].ac) : p \in Problems}
    OBVIOUS
  <2> HIDE DEF key, c, of, A
  <2>5. Cardinality(UNION {{p} \X (1..c[p]) : p \in Problems}) = Cardinality(A)
    BY <2>1, <2>2, <2>3, SumByCounting
  <2> QED
    BY <1>6, <2>4, <2>5 DEF A
<1> QED
  BY <1>0, <1>7, <1>8 DEF Solved

LEMMA StudentTotals ==
  ASSUME IInv, NEW u, NEW r
  PROVE  /\ DOMAIN StudentStats(u, r) \subseteq Users
         /\ r # "teacher" => Shown(u, r) = Seen(u, r)
         /\ \A v \in DOMAIN StudentStats(u, r) :
               StudentStats(u, r)[v] = Counted(By(Seen(u, r), v))
         /\ Total(StudentStats(u, r), Submits) = Cardinality(Shown(u, r))
         /\ Total(StudentStats(u, r), Accepted) = Cardinality(Solved(Shown(u, r)))
<1>0. PICK S, V, Z : /\ S = Seen(u, r) /\ S = {s \in subs : r = "teacher" => owner[s.problem] = u}
                     /\ V = DOMAIN StudentStats(u, r)
                     /\ Z = Shown(u, r) /\ Z = {s \in S : s.user \in V}
  BY DEF Seen, Shown
<1> DEFINE Of(v) == {s \in subs : s.user = v /\ (r = "teacher" => owner[s.problem] = u)}
           T == StudentStats(u, r)
<1>1. /\ V = {v \in Users : IF r = "teacher" THEN class[u] # NoClass /\ <<class[u].id, v>> \in members
                            ELSE \E s \in subs : s.user = v}
      /\ T = [v \in V |-> Counted(Of(v))]
  BY <1>0 DEF StudentStats
<1>2. \A s \in subs : s.user \in Users
  BY DEF IInv, TypeOK, Subs
<1>3. V \subseteq Users /\ (r # "teacher" => Z = S)
  BY <1>0, <1>1, <1>2
<1>4. \A v \in V : Of(v) = By(S, v) /\ Of(v) = {s \in Z : s.user = v}
  BY <1>0 DEF By
<1>5. \A v \in V : T[v] = Counted(Of(v)) /\ Counted(Of(v)) \in Counts
  BY <1>1, SubsCounted
<1>6. \A v \in V : T[v] = Counted(By(S, v))
  BY <1>4, <1>5
<1>7. \A v \in V : T[v].submit \in Nat /\ T[v].ac \in Nat
  BY <1>5 DEF Counts
<1>8. Total(T, Submits) = Cardinality(UNION {{v} \X (1..T[v].submit) : v \in V})
  BY <1>0 DEF Total, Submits
<1>9. Total(T, Accepted) = Cardinality(UNION {{v} \X (1..T[v].ac) : v \in V})
  BY <1>0 DEF Total, Accepted
<1>10. Total(T, Submits) = Cardinality(Z)
  <2> DEFINE key == [s \in Z |-> s.user]
             c == [v \in V |-> T[v].submit]
             of == [v \in V |-> Of(v)]
  <2>1. IsFiniteSet(Z) /\ key \in [Z -> V]
    BY <1>0, SubsCounted
  <2>2. c \in [V -> Nat]
    BY <1>7
  <2>3. \A v \in V : of[v] = {s \in Z : key[s] = v} /\ c[v] = Cardinality(of[v])
    <3>1. \A v \in V : {s \in Z : key[s] = v} = Of(v)
      BY <1>4
    <3>2. ASSUME NEW v \in V PROVE T[v].submit = Cardinality(Of(v))
      <4>1. Counted(Of(v)).submit = Cardinality(Of(v))
        BY DEF Counted
      <4> QED
        BY <1>5, <4>1
    <3> QED
      BY <3>1, <3>2
  <2>4. UNION {{v} \X (1..c[v]) : v \in V} = UNION {{v} \X (1..T[v].submit) : v \in V}
    OBVIOUS
  <2> HIDE DEF key, c, of
  <2>5. Cardinality(UNION {{v} \X (1..c[v]) : v \in V}) = Cardinality(Z)
    BY <2>1, <2>2, <2>3, SumByCounting
  <2> QED
    BY <1>8, <2>4, <2>5
<1>11. Total(T, Accepted) = Cardinality({s \in Z : s.ac})
  <2> DEFINE A == {s \in Z : s.ac}
             key == [s \in A |-> s.user]
             c == [v \in V |-> T[v].ac]
             of == [v \in V |-> {s \in Of(v) : s.ac}]
  <2>1. IsFiniteSet(A) /\ key \in [A -> V]
    BY <1>0, SubsCounted
  <2>2. c \in [V -> Nat]
    BY <1>7
  <2>3. \A v \in V : of[v] = {s \in A : key[s] = v} /\ c[v] = Cardinality(of[v])
    <3>1. \A v \in V : {s \in A : key[s] = v} = {s \in Of(v) : s.ac}
      BY <1>4
    <3>2. ASSUME NEW v \in V PROVE T[v].ac = Cardinality({s \in Of(v) : s.ac})
      <4>1. Counted(Of(v)).ac = Cardinality({s \in Of(v) : s.ac})
        BY DEF Counted
      <4> QED
        BY <1>5, <4>1
    <3> QED
      BY <3>1, <3>2
  <2>4. UNION {{v} \X (1..c[v]) : v \in V} = UNION {{v} \X (1..T[v].ac) : v \in V}
    OBVIOUS
  <2> HIDE DEF key, c, of, A
  <2>5. Cardinality(UNION {{v} \X (1..c[v]) : v \in V}) = Cardinality(A)
    BY <2>1, <2>2, <2>3, SumByCounting
  <2> QED
    BY <1>9, <2>4, <2>5 DEF A
<1> QED
  BY <1>0, <1>3, <1>6, <1>10, <1>11 DEF Solved

\* The first answer is the one its query would give now, unless something has
\* been written since.
Current(g) ==
    req[g].pc \in AnswerPcs /\ ~req[g].raced =>
        req[g].first = IF At(g, "students") THEN ProblemStats(req[g].user, req[g].role)
                       ELSE Listed(req[g].user, req[g].role)

AnswersCurrent == \A g \in Handlers : Current(g)

\* What is true of the two answers of one state.
LEMMA StatisticsNow ==
  ASSUME IInv, NEW u, NEW r
  PROVE  LET students == StudentStats(u, r)
             problems == ProblemStats(u, r).counts
         IN  /\ r = "admin" => /\ Total(students, Submits) = Total(problems, Submits)
                               /\ Total(students, Accepted) = Total(problems, Accepted)
             /\ Total(students, Submits) <= Total(problems, Submits)
             /\ Total(students, Accepted) <= Total(problems, Accepted)
             /\ Cardinality(Exported(u, r, "all", "all")) = Total(problems, Submits)
             /\ \A p \in ProblemStats(u, r).rows :
                   Cardinality(Exported(u, r, p, "all")) = problems[p].submit
             /\ \A v \in DOMAIN students :
                   Cardinality(Exported(u, r, "all", v)) = students[v].submit
<1> DEFINE students == StudentStats(u, r)
           problems == ProblemStats(u, r).counts
           rows == ProblemStats(u, r).rows
<1>1. Seen(u, r) \subseteq subs /\ Shown(u, r) \subseteq Seen(u, r)
  BY DEF Seen, Shown
<1>2. /\ Cardinality(Shown(u, r)) <= Cardinality(Seen(u, r))
      /\ Cardinality(Solved(Shown(u, r))) <= Cardinality(Solved(Seen(u, r)))
  <2>1. Solved(Shown(u, r)) \subseteq Solved(Seen(u, r)) /\ Solved(Seen(u, r)) \subseteq subs
    BY <1>1 DEF Solved
  <2>2. IsFiniteSet(Seen(u, r)) /\ IsFiniteSet(Solved(Seen(u, r)))
    BY <1>1, <2>1, SubsCounted
  <2> QED
    BY <1>1, <2>1, <2>2, FS_Subset
<1>3. Exported(u, r, "all", "all") = Seen(u, r)
  BY DEF Exported, Seen
<1>4. ASSUME NEW p \in rows PROVE Cardinality(Exported(u, r, p, "all")) = problems[p].submit
  <2> DEFINE Of == {s \in subs : s.problem = p}
  <2>1. p \in Problems /\ (r = "teacher" => owner[p] = u) /\ p # "all"
    BY ClassroomAssumption DEF ProblemStats, Table
  <2>2. problems[p] = Counted({s \in subs : s.problem = p /\ p \in rows})
    BY <2>1 DEF ProblemStats, Table
  <2>3. {s \in subs : s.problem = p /\ p \in rows} = Of
    OBVIOUS
  <2>4. Exported(u, r, p, "all") = Of
    BY <2>1 DEF Exported
  <2>5. Counted(Of).submit = Cardinality(Of)
    BY DEF Counted
  <2> HIDE DEF Of
  <2> QED
    BY <2>2, <2>3, <2>4, <2>5
<1>5. ASSUME NEW v \in DOMAIN students
      PROVE  Cardinality(Exported(u, r, "all", v)) = students[v].submit
  <2>1. v # "all" /\ students[v] = Counted(By(Seen(u, r), v))
    BY StudentTotals, ClassroomAssumption
  <2>2. Exported(u, r, "all", v) = By(Seen(u, r), v)
    BY <2>1 DEF Exported, Seen, By
  <2>3. Counted(By(Seen(u, r), v)).submit = Cardinality(By(Seen(u, r), v))
    BY DEF Counted
  <2> QED
    BY <2>1, <2>2, <2>3
<1>6. /\ Total(problems, Submits) = Cardinality(Seen(u, r))
      /\ Total(problems, Accepted) = Cardinality(Solved(Seen(u, r)))
  BY ProblemTotals
<1>7. /\ Total(students, Submits) = Cardinality(Shown(u, r))
      /\ Total(students, Accepted) = Cardinality(Solved(Shown(u, r)))
      /\ r = "admin" => Shown(u, r) = Seen(u, r)
  BY StudentTotals
<1> HIDE DEF students, problems, rows
<1>8. /\ r = "admin" => /\ Total(students, Submits) = Total(problems, Submits)
                        /\ Total(students, Accepted) = Total(problems, Accepted)
      /\ Total(students, Submits) <= Total(problems, Submits)
      /\ Total(students, Accepted) <= Total(problems, Accepted)
      /\ Cardinality(Exported(u, r, "all", "all")) = Total(problems, Submits)
  BY <1>2, <1>3, <1>6, <1>7
<1> QED
  BY <1>4, <1>5, <1>8 DEF students, problems, rows

LEMMA ListNow ==
  ASSUME IInv, NEW u, NEW r, NEW p \in Listed(u, r).rows \cap DOMAIN Mine(u)
  PROVE  /\ Listed(u, r).counts[p].submit > 0
         /\ Mine(u)[p] => Listed(u, r).counts[p].ac > 0
<1> DEFINE Of == {s \in subs : s.problem = p}
           Ac == {s \in Of : s.ac}
           rows == Listed(u, r).rows
<1>1. p \in Problems
  BY DEF Listed, Table
<1>2. Listed(u, r).counts[p] = Counted({s \in subs : s.problem = p /\ p \in rows})
  BY <1>1 DEF Listed, Table
<1>3. {s \in subs : s.problem = p /\ p \in rows} = Of
  OBVIOUS
<1>4. \E s \in subs : s.user = u /\ s.problem = p
  BY DEF Mine
<1>5. Mine(u)[p] = \E s \in subs : s.user = u /\ s.problem = p /\ s.ac
  BY DEF Mine
<1>6. IsFiniteSet(Of) /\ IsFiniteSet(Ac)
  BY SubsCounted
<1>7. Cardinality(Of) \in Nat /\ Cardinality(Ac) \in Nat
  BY <1>6, FS_CardinalityType
<1>8. Of # {} /\ (Mine(u)[p] => Ac # {})
  BY <1>4, <1>5
<1>9. Counted(Of).submit = Cardinality(Of) /\ Counted(Of).ac = Cardinality(Ac)
  BY DEF Counted
<1> HIDE DEF Of, Ac
<1>10. Cardinality(Of) > 0 /\ (Mine(u)[p] => Cardinality(Ac) > 0)
  BY <1>6, <1>7, <1>8, FS_EmptySet
<1> QED
  BY <1>2, <1>3, <1>9, <1>10

LEMMA AnswersNow ==
  ASSUME IInv, AnswersCurrent
  PROVE  AnswersAgree
<1>1. ASSUME NEW h \in Handlers, At(h, "students"), ~req[h].raced
      PROVE  req[h].first = ProblemStats(req[h].user, req[h].role)
  BY <1>1 DEF AnswersCurrent, Current, At, AnswerPcs
<1>2. ASSUME NEW h \in Handlers, At(h, "mine"), ~req[h].raced
      PROVE  req[h].first = Listed(req[h].user, req[h].role)
  BY <1>2 DEF AnswersCurrent, Current, At, AnswerPcs
<1>3. StatisticsAgree
  BY <1>1, StatisticsNow DEF StatisticsAgree
<1>4. ListAgrees
  BY <1>2, ListNow DEF ListAgrees
<1> QED
  BY <1>3, <1>4 DEF AnswersAgree

LEMMA QueriesStay ==
  ASSUME UNCHANGED tables, NEW u, NEW r
  PROVE  ProblemStats(u, r)' = ProblemStats(u, r) /\ Listed(u, r)' = Listed(u, r)
<1>1. \A p : Has(p)' <=> Has(p)
  BY DEF tables, Has
<1>2. \A p : ClassProblem(p, u)' <=> ClassProblem(p, u)
  BY DEF tables, ClassProblem
<1>3. \A p : Visible(p, u, r)' <=> Visible(p, u, r)
  BY <1>1, <1>2 DEF tables, Visible
<1>4. \A S : Table(S)' = Table(S)
  BY DEF tables, Table, Counted
<1>5. {p \in Problems : Has(p) /\ (r = "teacher" => owner[p] = u)}'
        = {p \in Problems : Has(p) /\ (r = "teacher" => owner[p] = u)}
  BY <1>1 DEF tables
<1>6. {p \in Problems : Visible(p, u, r)}' = {p \in Problems : Visible(p, u, r)}
  BY <1>3
<1> QED
  BY <1>4, <1>5, <1>6 DEF ProblemStats, Listed

\* The ways in which a step keeps a half-computed answer current.
KeepsCurrent(g) ==
    \/ req'[g] = req[g] /\ UNCHANGED tables
    \/ req'[g].pc \notin AnswerPcs
    \/ req'[g].raced
    \/ Current(g)'

LEMMA CurrentStays ==
  ASSUME AnswersCurrent, NEW g \in Handlers, KeepsCurrent(g)
  PROVE  Current(g)'
<1>1. CASE req'[g] = req[g] /\ UNCHANGED tables
  <2>1. Current(g)
    BY DEF AnswersCurrent
  <2>2. /\ ProblemStats(req[g].user, req[g].role)' = ProblemStats(req[g].user, req[g].role)'
        /\ \A u, r : ProblemStats(u, r)' = ProblemStats(u, r) /\ Listed(u, r)' = Listed(u, r)
    BY <1>1, QueriesStay
  <2> QED
    BY <1>1, <2>1, <2>2 DEF Current, At
<1>2. CASE req'[g].pc \notin AnswerPcs \/ req'[g].raced
  BY <1>2 DEF Current
<1> QED
  BY <1>1, <1>2 DEF KeepsCurrent

LEMMA WriteRaces ==
  ASSUME TypeOK, NEW g \in Handlers, req'[g] = Idle \/ req'[g] = Raced(req[g])
  PROVE  KeepsCurrent(g)
<1>1. CASE req'[g] = Idle
  BY <1>1 DEF KeepsCurrent, Idle, AnswerPcs
<1>2. CASE req'[g] = Raced(req[g]) /\ req[g].pc \in AnswerPcs
  <2>1. req'[g] = [req[g] EXCEPT !.raced = TRUE]
    BY <1>2 DEF Raced, AnswerPcs
  <2> QED
    BY <1>2, <2>1, AnswerRequest DEF KeepsCurrent
<1>3. CASE req'[g] = Raced(req[g]) /\ req[g].pc \notin AnswerPcs
  BY <1>3 DEF Raced, AnswerPcs, KeepsCurrent
<1> QED
  BY <1>1, <1>2, <1>3

\* A step of one thread that writes no table.
LEMMA ReadKeeps ==
  ASSUME TypeOK, NEW h \in Handlers, NEW r, req' = [req EXCEPT ![h] = r], UNCHANGED tables,
         r.pc \notin AnswerPcs \/ Current(h)', NEW g \in Handlers
  PROVE  KeepsCurrent(g)
<1>1. req'[h] = r /\ \A k \in Handlers \ {h} : req'[k] = req[k]
  BY DEF TypeOK
<1> QED
  BY <1>1 DEF KeepsCurrent

LEMMA QueryKeeps ==
  ASSUME TypeOK, NEW h \in Handlers, StatsProblems(h) \/ ListProblems(h), NEW g \in Handlers
  PROVE  KeepsCurrent(g)
<1>1. PICK u, r : u = req[h].user /\ r = req[h].role
  OBVIOUS
<1>2. \A v, q : ProblemStats(v, q)' = ProblemStats(v, q) /\ Listed(v, q)' = Listed(v, q)
  BY QueriesStay DEF StatsProblems, ListProblems
<1>3. CASE StatsProblems(h)
  <2> DEFINE n == [pc |-> "students", user |-> u, role |-> r, first |-> ProblemStats(u, r),
                   raced |-> FALSE]
  <2>1. req' = [req EXCEPT ![h] = n]
    BY <1>1, <1>3 DEF StatsProblems
  <2>2. req'[h] = n
    BY <2>1 DEF TypeOK
  <2>3. /\ req'[h].pc = "students" /\ req'[h].user = u /\ req'[h].role = r
        /\ req'[h].first = ProblemStats(u, r)
    BY <2>2
  <2>4. Current(h)'
    BY <1>2, <2>3 DEF Current, At
  <2> QED
    BY <1>3, <2>1, <2>4, ReadKeeps DEF StatsProblems
<1>4. CASE ListProblems(h)
  <2> DEFINE n == [pc |-> "mine", user |-> u, role |-> r, first |-> Listed(u, r),
                   raced |-> FALSE]
  <2>1. req' = [req EXCEPT ![h] = n]
    BY <1>1, <1>4 DEF ListProblems
  <2>2. req'[h] = n
    BY <2>1 DEF TypeOK
  <2>3. /\ req'[h].pc = "mine" /\ req'[h].user = u /\ req'[h].role = r
        /\ req'[h].first = Listed(u, r)
    BY <2>2
  <2>4. Current(h)'
    BY <1>2, <2>3 DEF Current, At
  <2> QED
    BY <1>4, <2>1, <2>4, ReadKeeps DEF ListProblems
<1> QED
  BY <1>3, <1>4

LEMMA HandlerKeeps ==
  ASSUME TypeOK, NEW h \in Handlers, Handler(h), NEW g \in Handlers
  PROVE  KeepsCurrent(g)
<1>1. CASE Wrote(h)
  <2>1. req'[g] = Idle \/ req'[g] = Raced(req[g])
    BY <1>1 DEF Wrote
  <2> QED
    BY <2>1, WriteRaces
<1>2. ASSUME Reply(h), UNCHANGED tables PROVE KeepsCurrent(g)
  BY <1>2, ReadKeeps DEF Reply, Idle, AnswerPcs
<1>3. ASSUME NEW pc \in ClassPcs \cup JoinPcs \cup ProblemPcs, GoTo(h, pc), UNCHANGED tables,
             \/ req[h].pc \in ClassPcs /\ pc \in ClassPcs
             \/ req[h].pc \in JoinPcs /\ pc \in JoinPcs
             \/ req[h].pc \in ProblemPcs /\ pc \in ProblemPcs
      PROVE  KeepsCurrent(g)
  <2>1. req' = [req EXCEPT ![h] = [req[h] EXCEPT !.pc = pc]] /\ req'[h].pc = pc
        /\ req'[h] = [req[h] EXCEPT !.pc = pc]
    BY <1>3, Going
  <2>2. pc \notin AnswerPcs
    BY DEF ClassPcs, JoinPcs, ProblemPcs, AnswerPcs
  <2> QED
    BY <1>3, <2>1, <2>2, ReadKeeps
<1>4. CASE Auth(h)
  <2>1. ASSUME NEW r, Begin(h, r), r.pc \notin AnswerPcs PROVE KeepsCurrent(g)
    BY <2>1, ReadKeeps DEF Begin
  <2>2. ASSUME NEW u \in Users, AuthStaff(h, u) PROVE KeepsCurrent(g)
    BY <2>1, <2>2 DEF AuthStaff, AnswerPcs
  <2>3. ASSUME NEW u \in Users, NEW p \in Problems, AuthEditor(h, u, p) \/ AuthUser(h, u, p)
        PROVE  KeepsCurrent(g)
    BY <2>1, <2>3 DEF AuthEditor, AuthUser, AnswerPcs
  <2>4. ASSUME NEW u \in Users, NEW code, AuthStudent(h, u, code) PROVE KeepsCurrent(g)
    BY <2>1, <2>4 DEF AuthStudent, AnswerPcs
  <2> QED
    BY <1>4, <2>2, <2>3, <2>4 DEF Auth
<1>5. CASE Classes(h)
  <2>1. CASE ClassLookup(h)
    BY <1>2, <1>3, <2>1 DEF ClassLookup, At, ClassPcs
  <2>2. CASE ClassInsert(h)
    BY <1>1, <1>2, <2>2 DEF ClassInsert, tables
  <2>3. CASE CodeLookup(h)
    BY <1>2, <1>3, <2>3 DEF CodeLookup, At, ClassPcs
  <2>4. CASE CodeUpdate(h)
    BY <1>1, <2>4 DEF CodeUpdate
  <2> QED
    BY <1>5, <2>1, <2>2, <2>3, <2>4 DEF Classes
<1>6. CASE Join(h)
  <2>1. CASE JoinLookup(h)
    <3>1. ASSUME NEW r, r.pc = "joinDup", req' = [req EXCEPT ![h] = r] PROVE KeepsCurrent(g)
      BY <2>1, <3>1, ReadKeeps DEF JoinLookup, AnswerPcs
    <3>2. ASSUME NEW t, req' = [req EXCEPT ![h] = [pc |-> "joinDup", user |-> @.user,
                                                   class |-> class[t].id, dead |-> @.dead]]
          PROVE  KeepsCurrent(g)
      BY <3>1, <3>2
    <3> QED
      BY <1>2, <2>1, <3>2 DEF JoinLookup
  <2>2. CASE JoinDup(h)
    BY <1>2, <1>3, <2>2 DEF JoinDup, At, JoinPcs
  <2>3. CASE JoinInsert(h)
    BY <1>1, <1>2, <2>3 DEF JoinInsert, tables
  <2> QED
    BY <1>6, <2>1, <2>2, <2>3 DEF Join
<1>7. CASE Submit(h)
  <2>1. CASE SubmitCheck(h)
    BY <1>2, <1>3, <2>1 DEF SubmitCheck, At, ProblemPcs
  <2>2. CASE SubmitInsert(h)
    BY <1>1, <1>2, <2>2 DEF SubmitInsert, tables
  <2> QED
    BY <1>7, <2>1, <2>2 DEF Submit
<1>8. CASE Edit(h)
  <2>1. CASE OwnerCheck(h)
    BY <1>2, <1>3, <2>1 DEF OwnerCheck, At, ProblemPcs
  <2>2. CASE ProblemEdit(h)
    BY <1>2, <2>2 DEF ProblemEdit
  <2>3. CASE ProblemDelete(h)
    BY <1>1, <2>3 DEF ProblemDelete
  <2>4. CASE ProblemImport(h)
    BY <1>1, <1>2, <2>4 DEF ProblemImport, tables
  <2> QED
    BY <1>8, <2>1, <2>2, <2>3, <2>4 DEF Edit
<1>9. CASE Answer(h)
  BY <1>2, <1>9, QueryKeeps DEF Answer, StatsStudents, ListMine
<1> QED
  BY <1>4, <1>5, <1>6, <1>7, <1>8, <1>9 DEF Handler

LEMMA NextCurrent ==
  ASSUME TypeOK, AnswersCurrent, [Next]_vars
  PROVE  AnswersCurrent'
<1> SUFFICES ASSUME NEW g \in Handlers PROVE KeepsCurrent(g)
  BY CurrentStays DEF AnswersCurrent
<1>1. CASE \E h \in Handlers : Handler(h)
  BY <1>1, HandlerKeeps
<1>2. CASE Others
  <2>1. Change
    BY <1>2 DEF Others, RoleWritten, ClassDropped, UserDeleted, Judged
  <2> QED
    BY <2>1, WriteRaces DEF Change
<1>3. CASE UNCHANGED vars
  BY <1>3 DEF vars, KeepsCurrent
<1> QED
  BY <1>1, <1>2, <1>3 DEF Next

\* The problem and the student table of the statistics and the exported file, and
\* the problem list and its marks, agree unless something is written between the
\* statements of one answer (admin_stats.cpp:82, problem.cpp:467).
THEOREM AnswersHoldTogether == Spec => []AnswersAgree
<1>1. Init => AnswersCurrent
  BY DEF Init, AnswersCurrent, Current, Idle, AnswerPcs
<1>2. IInv /\ AnswersCurrent /\ [Next]_vars => AnswersCurrent'
  BY NextCurrent DEF IInv
<1>3. IInv /\ AnswersCurrent => AnswersAgree
  BY AnswersNow
<1> QED
  BY <1>1, <1>2, <1>3, Inductive, PTL DEF Spec
=============================================================================
