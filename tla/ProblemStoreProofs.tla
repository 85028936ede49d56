-------------------------- MODULE ProblemStoreProofs --------------------------
(***************************************************************************)
(* What failing steps and crashes can do to a problem's hidden tests, for  *)
(* any number of threads, problems, test sets, faults and crashes.         *)
(* TypeOK holds whether or not requests on one problem overlap; the other  *)
(* theorems are about requests that do not, as the runs are.               *)
(*                                                                         *)
(* The invariant IInv says what every request may rely on at its next      *)
(* step (Sound), what holds of every problem (Kept, Swept), that problems  *)
(* not yet numbered are untouched (Unused), and that no problem has two    *)
(* requests (Exclusive).                                                   *)
(***************************************************************************)
EXTENDS ProblemStore, TLAPS

\* The steps of a request, by the fields it carries.
InsertPcs == {"insert"}
ImportPcs == {"files", "setdir", "undoDir", "undoRow"}
FindPcs == {"title", "meta"}
SwapPcs == {"tmp", "backup", "swap", "restore", "dropBak", "cleanup"}
DeletePcs == {"deleteRow", "rmLive", "rmTmp", "rmBak"}

InsertRequests == [pc : InsertPcs, title : Titles, ver : Versions]
ImportRequests == [pc : ImportPcs, id : Ids, ver : Versions]
FindRequests == [pc : FindPcs, id : Ids, title : Titles, ver : Versions,
                 replace : BOOLEAN, was : Contents]
SwapRequests == [pc : SwapPcs, id : Ids, ver : Versions, was : Contents]
DeleteRequests == [pc : DeletePcs, id : Ids]

UpdatePcs == FindPcs \cup SwapPcs
WorkPcs == ImportPcs \cup UpdatePcs \cup DeletePcs
-----------------------------------------------------------------------------
(* Requests and their types.                                               *)

\* The request of a thread is of the group its next step belongs to.
LEMMA RequestGroups ==
    ASSUME NEW r \in Requests
    PROVE  \/ r = Idle /\ r.pc = "idle"
           \/ r \in InsertRequests /\ r.pc \in InsertPcs
           \/ r \in ImportRequests /\ r.pc \in ImportPcs
           \/ r \in FindRequests /\ r.pc \in FindPcs
           \/ r \in SwapRequests /\ r.pc \in SwapPcs
           \/ r \in DeleteRequests /\ r.pc \in DeletePcs
<1>1. CASE r = Idle
  BY <1>1 DEF Idle
<1>2. CASE r # Idle
  BY <1>2 DEF Requests, Idle, InsertRequests, ImportRequests, FindRequests, SwapRequests,
              DeleteRequests, InsertPcs, ImportPcs, FindPcs, SwapPcs, DeletePcs
<1> QED
  BY <1>1, <1>2

LEMMA GroupsAreRequests ==
    /\ Idle \in Requests
    /\ InsertRequests \subseteq Requests
    /\ ImportRequests \subseteq Requests
    /\ FindRequests \subseteq Requests
    /\ SwapRequests \subseteq Requests
    /\ DeleteRequests \subseteq Requests
BY DEF Requests, InsertRequests, ImportRequests, FindRequests, SwapRequests,
       DeleteRequests, InsertPcs, ImportPcs, FindPcs, SwapPcs, DeletePcs

\* The next step decides the group.
LEMMA RequestOfPc ==
    ASSUME NEW r \in Requests
    PROVE  /\ r.pc = "idle" => r = Idle
           /\ r.pc \in InsertPcs => r \in InsertRequests
           /\ r.pc \in ImportPcs => r \in ImportRequests
           /\ r.pc \in FindPcs => r \in FindRequests
           /\ r.pc \in SwapPcs => r \in SwapRequests
           /\ r.pc \in DeletePcs => r \in DeleteRequests
           /\ r.pc \in {"idle"} \cup InsertPcs \cup WorkPcs
BY RequestGroups DEF InsertPcs, ImportPcs, FindPcs, SwapPcs, DeletePcs, WorkPcs, UpdatePcs

\* A request at work carries the id of its problem.
LEMMA WorkHasId ==
    ASSUME NEW r \in Requests, r.pc \in WorkPcs
    PROVE  r.id \in Ids
BY RequestOfPc DEF WorkPcs, UpdatePcs, ImportRequests, FindRequests, SwapRequests,
                   DeleteRequests

\* The step to another next step of the same group.
LEMMA GoToStays ==
    ASSUME NEW r \in Requests, NEW p
    PROVE  /\ r.pc \in ImportPcs /\ p \in ImportPcs =>
                LET n == [r EXCEPT !.pc = p]
                IN  n \in ImportRequests /\ n.pc = p /\ n.id = r.id /\ n.ver = r.ver
           /\ r.pc \in FindPcs /\ p \in FindPcs =>
                LET n == [r EXCEPT !.pc = p]
                IN  /\ n \in FindRequests /\ n.pc = p /\ n.id = r.id /\ n.ver = r.ver
                    /\ n.was = r.was
           /\ r.pc \in SwapPcs /\ p \in SwapPcs =>
                LET n == [r EXCEPT !.pc = p]
                IN  /\ n \in SwapRequests /\ n.pc = p /\ n.id = r.id /\ n.ver = r.ver
                    /\ n.was = r.was
           /\ r.pc \in DeletePcs /\ p \in DeletePcs =>
                LET n == [r EXCEPT !.pc = p]
                IN  n \in DeleteRequests /\ n.pc = p /\ n.id = r.id
<1>1. CASE r.pc \in ImportPcs
  <2>1. r \in ImportRequests /\ r.pc \notin FindPcs \cup SwapPcs \cup DeletePcs
    BY <1>1, RequestOfPc DEF ImportPcs, FindPcs, SwapPcs, DeletePcs
  <2> QED
    BY <2>1 DEF ImportRequests
<1>2. CASE r.pc \in FindPcs
  <2>1. r \in FindRequests /\ r.pc \notin ImportPcs \cup SwapPcs \cup DeletePcs
    BY <1>2, RequestOfPc DEF ImportPcs, FindPcs, SwapPcs, DeletePcs
  <2> QED
    BY <2>1 DEF FindRequests
<1>3. CASE r.pc \in SwapPcs
  <2>1. r \in SwapRequests /\ r.pc \notin FindPcs \cup ImportPcs \cup DeletePcs
    BY <1>3, RequestOfPc DEF ImportPcs, FindPcs, SwapPcs, DeletePcs
  <2> QED
    BY <2>1 DEF SwapRequests
<1>4. CASE r.pc \in DeletePcs
  <2>1. r \in DeleteRequests /\ r.pc \notin FindPcs \cup SwapPcs \cup ImportPcs
    BY <1>4, RequestOfPc DEF ImportPcs, FindPcs, SwapPcs, DeletePcs
  <2> QED
    BY <2>1 DEF DeleteRequests
<1> QED
  BY <1>1, <1>2, <1>3, <1>4
-----------------------------------------------------------------------------
(* Types.                                                                  *)

\* What a directory can hold.
LEMMA ContentsAre ==
    /\ Versions \subseteq Whole /\ "flawed" \in Whole /\ "absent" \notin Whole
    /\ Whole \subseteq Contents /\ Versions \subseteq Contents
    /\ {"absent", "partial", "flawed"} \subseteq Contents
BY StoreAssumption DEF Whole, Contents

\* A failing step is counted within its bound.
LEMMA FaultTypes ==
    ASSUME TypeOK, Fault
    PROVE  faults' \in 0..MaxFaults /\ faults' >= faults
BY StoreAssumption DEF TypeOK, Fault

\* A row stays a row when one of its columns is written.
LEMMA RowColumns ==
    ASSUME TypeOK, NEW id \in Ids, row[id].there
    PROVE  /\ row[id] \in Rows
           /\ LET n == [row[id] EXCEPT !.filed = TRUE]
              IN  n \in Rows /\ n.there /\ n.filed /\ n.title = row[id].title
           /\ \A t \in Titles :
                LET n == [row[id] EXCEPT !.title = t]
                IN  n \in Rows /\ n.there /\ n.title = t /\ n.filed = row[id].filed
<1>1. row[id] \in Rows
  BY DEF TypeOK, NoRow
<1> QED
  BY <1>1 DEF Rows

LEMMA WorkRequest ==
    ASSUME TypeOK, NEW s \in Staff, req[s].pc \in WorkPcs
    PROVE  req[s].id \in Ids
BY WorkHasId DEF TypeOK

LEMMA ImportTypes ==
    ASSUME TypeOK, NEW s \in Staff, Import(s)
    PROVE  TypeOK'
<1>0. req[s] \in Requests
  BY DEF TypeOK
<1>1. ASSUME NEW t \in Titles, NEW v \in Versions, ImportCheck(s, t, v)
      PROVE  TypeOK'
  <2>1. [pc |-> "insert", title |-> t, ver |-> v] \in Requests
    BY DEF Requests
  <2> QED
    BY <1>1, <2>1 DEF TypeOK, ImportCheck, dirs
<1>2. CASE ImportInsert(s)
  <2>1. req[s].title \in Titles /\ req[s].ver \in Versions
    BY <1>0, <1>2, RequestOfPc DEF ImportInsert, At, InsertPcs, InsertRequests
  <2>2. Idle \in Requests
    BY GroupsAreRequests
  <2>3. nextId \in Ids =>
            /\ [pc |-> "files", id |-> nextId, ver |-> req[s].ver] \in Requests
            /\ [there |-> TRUE, title |-> req[s].title, filed |-> FALSE] \in Rows
            /\ nextId + 1 \in 1..(MaxId + 1)
    BY <2>1, StoreAssumption DEF Requests, Rows, Ids
  <2> QED
    BY <1>2, <2>2, <2>3, FaultTypes DEF TypeOK, ImportInsert, Reply, dirs
<1>3. ASSUME req[s].pc \in ImportPcs
      PROVE  /\ req[s].id \in Ids /\ req[s].ver \in Versions
             /\ Versions \subseteq Contents
             /\ {"absent", "partial", "flawed"} \subseteq Contents
             /\ Idle \in Requests
             /\ \A p \in ImportPcs : [req[s] EXCEPT !.pc = p] \in Requests
  BY <1>0, <1>3, RequestOfPc, GoToStays, GroupsAreRequests, ContentsAre DEF ImportRequests
<1>4. CASE ImportFiles(s)
  <2>1. req[s].pc \in ImportPcs
    BY <1>4 DEF ImportFiles, At, ImportPcs
  <2> QED
    BY <1>3, <1>4, <2>1, FaultTypes DEF TypeOK, ImportFiles, GoTo, ImportPcs
<1>5. CASE ImportSetDir(s)
  <2>1. req[s].pc \in ImportPcs
    BY <1>5 DEF ImportSetDir, At, ImportPcs
  <2>2. row' \in [Ids -> Rows \cup {NoRow}]
    BY <1>3, <1>5, <2>1, RowColumns DEF TypeOK, ImportSetDir
  <2> QED
    BY <1>3, <1>5, <2>1, <2>2, FaultTypes
       DEF TypeOK, ImportSetDir, GoTo, Reply, ImportPcs, dirs
<1>6. CASE ImportUndoDir(s)
  <2>1. req[s].pc \in ImportPcs
    BY <1>6 DEF ImportUndoDir, At, ImportPcs
  <2> QED
    BY <1>3, <1>6, <2>1, FaultTypes DEF TypeOK, ImportUndoDir, GoTo, ImportPcs
<1>7. CASE ImportUndoRow(s)
  <2>1. req[s].pc \in ImportPcs
    BY <1>7 DEF ImportUndoRow, At, ImportPcs
  <2> QED
    BY <1>3, <1>7, <2>1, FaultTypes DEF TypeOK, ImportUndoRow, Reply, dirs
<1> QED
  BY <1>1, <1>2, <1>4, <1>5, <1>6, <1>7 DEF Import

LEMMA UpdateTypes ==
    ASSUME TypeOK, NEW s \in Staff, Update(s)
    PROVE  TypeOK'
<1>0. /\ req[s] \in Requests
      /\ Versions \subseteq Contents /\ {"absent", "partial", "flawed"} \subseteq Contents
      /\ Idle \in Requests
  BY GroupsAreRequests, ContentsAre DEF TypeOK
<1>1. ASSUME NEW id \in Ids, NEW t \in Titles, NEW v \in Versions,
             NEW replace \in BOOLEAN, UpdateFind(s, id, t, v, replace)
      PROVE  TypeOK'
  <2>1. [pc |-> "title", id |-> id, title |-> t, ver |-> v, replace |-> replace,
         was |-> live[id]] \in FindRequests
    BY DEF FindRequests, FindPcs, TypeOK
  <2> QED
    BY <1>1, <2>1, GroupsAreRequests DEF TypeOK, UpdateFind, dirs
<1>2. ASSUME req[s].pc \in FindPcs
      PROVE  /\ req[s].id \in Ids /\ req[s].ver \in Versions /\ req[s].title \in Titles
             /\ req[s].was \in Contents
             /\ \A p \in FindPcs : [req[s] EXCEPT !.pc = p] \in Requests
  BY <1>0, <1>2, RequestOfPc, GoToStays, GroupsAreRequests DEF FindRequests
<1>3. CASE UpdateTitle(s)
  <2>1. req[s].pc \in FindPcs
    BY <1>3 DEF UpdateTitle, At, FindPcs
  <2> QED
    BY <1>0, <1>2, <1>3, <2>1 DEF TypeOK, UpdateTitle, GoTo, Reply, FindPcs, dirs
<1>4. CASE UpdateMeta(s)
  <2>1. req[s].pc \in FindPcs
    BY <1>4 DEF UpdateMeta, At, FindPcs
  <2>2. row' \in [Ids -> Rows \cup {NoRow}]
    <3>1. CASE row' = row
      BY <3>1 DEF TypeOK
    <3>2. CASE row[req[s].id].there
               /\ row' = [row EXCEPT ![req[s].id].title = req[s].title]
      <4>1. [row[req[s].id] EXCEPT !.title = req[s].title] \in Rows
        BY <1>2, <2>1, <3>2, RowColumns
      <4> QED
        BY <1>2, <2>1, <3>2, <4>1 DEF TypeOK
    <3> QED
      BY <1>4, <3>1, <3>2 DEF UpdateMeta
  <2>3. [pc |-> "tmp", id |-> req[s].id, ver |-> req[s].ver, was |-> req[s].was]
            \in Requests
    BY <1>2, <2>1 DEF Requests
  <2>4. req' \in [Staff -> Requests]
    BY <1>0, <1>4, <2>3 DEF TypeOK, UpdateMeta, Reply
  <2> QED
    BY <1>4, <2>2, <2>4, FaultTypes DEF TypeOK, UpdateMeta, dirs
<1>5. ASSUME req[s].pc \in SwapPcs
      PROVE  /\ req[s].id \in Ids /\ req[s].ver \in Versions /\ req[s].was \in Contents
             /\ live[req[s].id] \in Contents /\ tmp[req[s].id] \in Contents
             /\ bak[req[s].id] \in Contents
             /\ \A p \in SwapPcs : [req[s] EXCEPT !.pc = p] \in Requests
  BY <1>0, <1>5, RequestOfPc, GoToStays, GroupsAreRequests DEF SwapRequests, TypeOK
<1>6. CASE UpdateTmp(s)
  <2>1. req[s].pc \in SwapPcs
    BY <1>6 DEF UpdateTmp, At, SwapPcs
  <2> QED
    BY <1>0, <1>5, <1>6, <2>1, FaultTypes DEF TypeOK, UpdateTmp, GoTo, SwapPcs
<1>7. CASE UpdateBackup(s)
  <2>1. req[s].pc \in SwapPcs
    BY <1>7 DEF UpdateBackup, At, SwapPcs
  <2>2. /\ live' \in [Ids -> Contents] /\ bak' \in [Ids -> Contents]
        /\ req' \in [Staff -> Requests]
        /\ faults' \in 0..MaxFaults
    BY <1>0, <1>5, <1>7, <2>1, FaultTypes DEF TypeOK, UpdateBackup, GoTo, SwapPcs
  <2> QED
    BY <1>7, <2>2 DEF TypeOK, UpdateBackup
<1>8. CASE UpdateSwap(s)
  <2>1. req[s].pc \in SwapPcs
    BY <1>8 DEF UpdateSwap, At, SwapPcs
  <2>2. /\ live' \in [Ids -> Contents] /\ tmp' \in [Ids -> Contents]
        /\ req' \in [Staff -> Requests]
        /\ faults' \in 0..MaxFaults
    BY <1>0, <1>5, <1>8, <2>1, FaultTypes DEF TypeOK, UpdateSwap, GoTo, SwapPcs
  <2> QED
    BY <1>8, <2>2 DEF TypeOK, UpdateSwap
<1>9. CASE UpdateRestore(s)
  <2>1. req[s].pc \in SwapPcs
    BY <1>9 DEF UpdateRestore, At, SwapPcs
  <2>2. /\ live' \in [Ids -> Contents] /\ bak' \in [Ids -> Contents]
        /\ req' \in [Staff -> Requests]
        /\ faults' \in 0..MaxFaults
    BY <1>0, <1>5, <1>9, <2>1, FaultTypes DEF TypeOK, UpdateRestore, GoTo, SwapPcs
  <2> QED
    BY <1>9, <2>2 DEF TypeOK, UpdateRestore
<1>10. CASE UpdateDropBak(s)
  <2>1. req[s].pc \in SwapPcs
    BY <1>10 DEF UpdateDropBak, At, SwapPcs
  <2>2. /\ bak' \in [Ids -> Contents] /\ leaked' \subseteq Ids
        /\ req' \in [Staff -> Requests]
        /\ faults' \in 0..MaxFaults
    BY <1>0, <1>5, <1>10, <2>1, FaultTypes DEF TypeOK, UpdateDropBak, Reply
  <2> QED
    BY <1>10, <2>2 DEF TypeOK, UpdateDropBak
<1>11. CASE UpdateCleanup(s)
  <2>1. req[s].pc \in SwapPcs
    BY <1>11 DEF UpdateCleanup, At, SwapPcs
  <2> QED
    BY <1>0, <1>5, <1>11, <2>1, FaultTypes DEF TypeOK, UpdateCleanup, Reply
<1> QED
  BY <1>1, <1>3, <1>4, <1>6, <1>7, <1>8, <1>9, <1>10, <1>11 DEF Update

\* A removal leaves a directory that is gone, or marked.
LEMMA RemovedTypes ==
    ASSUME TypeOK, NEW id \in Ids, NEW dir \in [Ids -> Contents], NEW next,
           Removed(dir, next, id)
    PROVE  /\ next \in [Ids -> Contents] /\ leaked' \subseteq Ids
           /\ faults' \in 0..MaxFaults /\ faults' >= faults
           /\ leaked \subseteq leaked'
           /\ \A i \in Ids \ {id} : next[i] = dir[i]
           /\ next[id] = "absent" \/ id \in leaked'
<1>1. leaked \subseteq Ids /\ faults \in 0..MaxFaults /\ faults >= faults
  BY StoreAssumption DEF TypeOK
<1>2. CASE next = [dir EXCEPT ![id] = "absent"] /\ UNCHANGED <<leaked, faults>>
  BY <1>1, <1>2, ContentsAre
<1>3. CASE /\ Fault /\ leaked' = leaked \cup {id}
           /\ \E left \in {"partial", dir[id]} : next = [dir EXCEPT ![id] = left]
  BY <1>1, <1>3, ContentsAre, FaultTypes
<1> QED
  BY <1>2, <1>3 DEF Removed

LEMMA DeleteTypes ==
    ASSUME TypeOK, NEW s \in Staff, Delete(s)
    PROVE  TypeOK'
<1>0. /\ req[s] \in Requests /\ {"absent", "partial"} \subseteq Contents
      /\ Idle \in Requests
  BY GroupsAreRequests, ContentsAre DEF TypeOK
<1>1. ASSUME NEW id \in Ids, DeleteFind(s, id)
      PROVE  TypeOK'
  <2>1. [pc |-> "deleteRow", id |-> id] \in DeleteRequests
    BY DEF DeleteRequests, DeletePcs
  <2> QED
    BY <1>1, <2>1, GroupsAreRequests DEF TypeOK, DeleteFind, dirs
<1>2. ASSUME req[s].pc \in DeletePcs
      PROVE  /\ req[s].id \in Ids
             /\ \A p \in DeletePcs : [req[s] EXCEPT !.pc = p] \in Requests
  BY <1>0, <1>2, RequestOfPc, GoToStays, GroupsAreRequests DEF DeleteRequests
<1>3. CASE DeleteRow(s)
  <2>1. req[s].pc \in DeletePcs
    BY <1>3 DEF DeleteRow, At, DeletePcs
  <2> QED
    BY <1>0, <1>2, <1>3, <2>1, FaultTypes
       DEF TypeOK, DeleteRow, GoTo, Reply, DeletePcs, dirs
<1>4. CASE DeleteLive(s)
  <2>1. req[s].pc \in DeletePcs
    BY <1>4 DEF DeleteLive, At, DeletePcs
  <2>2. live \in [Ids -> Contents] /\ Removed(live, live', req[s].id)
    BY <1>4 DEF TypeOK, DeleteLive
  <2>3. /\ live' \in [Ids -> Contents] /\ leaked' \subseteq Ids
        /\ faults' \in 0..MaxFaults
    BY <1>2, <2>1, <2>2, RemovedTypes
  <2> QED
    BY <1>2, <1>4, <2>1, <2>3 DEF TypeOK, DeleteLive, GoTo, DeletePcs
<1>5. CASE DeleteTmp(s)
  <2>1. req[s].pc \in DeletePcs
    BY <1>5 DEF DeleteTmp, At, DeletePcs
  <2>2. tmp \in [Ids -> Contents] /\ Removed(tmp, tmp', req[s].id)
    BY <1>5 DEF TypeOK, DeleteTmp
  <2>3. /\ tmp' \in [Ids -> Contents] /\ leaked' \subseteq Ids
        /\ faults' \in 0..MaxFaults
    BY <1>2, <2>1, <2>2, RemovedTypes
  <2> QED
    BY <1>2, <1>5, <2>1, <2>3 DEF TypeOK, DeleteTmp, GoTo, DeletePcs
<1>6. CASE DeleteBak(s)
  <2>1. req[s].pc \in DeletePcs
    BY <1>6 DEF DeleteBak, At, DeletePcs
  <2>2. bak \in [Ids -> Contents] /\ Removed(bak, bak', req[s].id)
    BY <1>6 DEF TypeOK, DeleteBak
  <2>3. /\ bak' \in [Ids -> Contents] /\ leaked' \subseteq Ids
        /\ faults' \in 0..MaxFaults
    BY <1>2, <2>1, <2>2, RemovedTypes
  <2> QED
    BY <1>0, <1>6, <2>3 DEF TypeOK, DeleteBak, Reply
<1> QED
  BY <1>1, <1>3, <1>4, <1>5, <1>6 DEF Delete

LEMMA NextTypes == TypeOK /\ [Next]_vars => TypeOK'
<1> SUFFICES ASSUME TypeOK, [Next]_vars PROVE TypeOK'
  OBVIOUS
<1>1. CASE Crash
  <2>1. Idle \in Requests
    BY GroupsAreRequests
  <2> QED
    BY <1>1, <2>1, StoreAssumption DEF TypeOK, Crash, dirs
<1>2. CASE UNCHANGED vars
  BY <1>2 DEF TypeOK, vars, dirs
<1> QED
  BY <1>1, <1>2, ImportTypes, UpdateTypes, DeleteTypes DEF Next

\* Every row, directory and request keeps its type, also when requests on one
\* problem overlap (import_problem, update_problem and delete_problem,
\* problem.cpp).
THEOREM StoreTypes == Spec => []TypeOK
<1>1. Init => TypeOK
  BY StoreAssumption, GroupsAreRequests, ContentsAre DEF Init, TypeOK
<1> QED
  BY <1>1, NextTypes, PTL DEF Spec
-----------------------------------------------------------------------------
(* The invariant.                                                          *)

\* A problem at rest: finished, or nothing of it is there, or it is known to
\* have been left behind.
Clean(id) ==
    ~row[id].there /\ live[id] = "absent" /\ tmp[id] = "absent" /\ bak[id] = "absent"
Marked(id) == Filed(id) \/ id \in leaked
Swept(id) == Active(id) \/ Marked(id) \/ Clean(id)

\* A finished problem's tests are complete in one of the two places, and the
\* backup is the one only when the directory is gone.
Kept(id) ==
    Filed(id) => \/ live[id] \in Whole
                 \/ live[id] = "absent" /\ bak[id] \in Whole

\* What a request may rely on at its next step.
ImportSound(s) ==
    LET id == req[s].id
    IN  At(s, "files") \/ At(s, "setdir") \/ At(s, "undoDir") \/ At(s, "undoRow") =>
            /\ row[id].there /\ ~row[id].filed
            /\ tmp[id] = "absent" /\ bak[id] = "absent"
            /\ At(s, "setdir") => live[id] \in Whole
            /\ At(s, "undoRow") => live[id] = "absent" \/ id \in leaked

UpdateSound(s) ==
    LET id == req[s].id
        was == req[s].was
    IN  /\ req[s].pc \in UpdatePcs => Marked(id)
        /\ req[s].pc \in FindPcs \cup {"tmp", "backup"} => live[id] = was
        /\ req[s].pc \in {"backup", "swap"} => tmp[id] \in Whole
        /\ req[s].pc \in {"swap", "restore"} =>
                live[id] = "absent" /\ (was # "absent" => bak[id] = was)
        /\ At(s, "restore") => faults >= 1
        /\ At(s, "dropBak") => live[id] \in Whole
        /\ At(s, "cleanup") => (was # "absent" /\ faults <= 1 => live[id] = was)

DeleteSound(s) ==
    LET id == req[s].id
    IN  /\ At(s, "deleteRow") => Marked(id)
        /\ req[s].pc \in {"rmLive", "rmTmp", "rmBak"} => ~row[id].there
        /\ req[s].pc \in {"rmTmp", "rmBak"} => live[id] = "absent" \/ id \in leaked
        /\ At(s, "rmBak") => tmp[id] = "absent" \/ id \in leaked

Sound(s) == ImportSound(s) /\ UpdateSound(s) /\ DeleteSound(s)

\* An id the database has not given out yet.
Unused ==
    \A id \in Ids : id >= nextId => ~Active(id) /\ Clean(id)

Exclusive ==
    \A s1, s2 \in Staff, id \in Ids : WorksOn(s1, id) /\ WorksOn(s2, id) => s1 = s2

IInv == /\ TypeOK
        /\ \A s \in Staff : Sound(s)
        /\ \A id \in Ids : Kept(id) /\ Swept(id)
        /\ Unused
        /\ Exclusive
-----------------------------------------------------------------------------
(* A step of one request leaves the other requests and problems alone.     *)

\* What a step of s that works on id may change.
Touches(s, id) ==
    /\ \A o \in Staff \ {s} : req'[o] = req[o]
    /\ \/ req'[s].pc = "idle"
       \/ req'[s].pc \in WorkPcs /\ req'[s].id = id
    /\ \A i \in Ids \ {id} :
            row'[i] = row[i] /\ live'[i] = live[i] /\ tmp'[i] = tmp[i] /\ bak'[i] = bak[i]
    /\ leaked \subseteq leaked'
    /\ faults' >= faults
    /\ nextId' >= nextId /\ id < nextId'

\* Only s works on id, if any request does.
Owns(s, id) ==
    /\ \A o \in Staff \ {s} : ~WorksOn(o, id)
    /\ \A i \in Ids \ {id} : ~WorksOn(s, i)

LEMMA OwnProblem ==
    ASSUME IInv, NEW s \in Staff, req[s].pc \in WorkPcs
    PROVE  req[s].id \in Ids /\ req[s].id < nextId /\ Owns(s, req[s].id)
<1>1. req[s].id \in Ids
  BY WorkRequest DEF IInv
<1>2. WorksOn(s, req[s].id) /\ Active(req[s].id)
  BY DEF WorksOn, Active, WorkPcs, UpdatePcs, ImportPcs, FindPcs, SwapPcs, DeletePcs
<1>3. req[s].id < nextId
  BY <1>1, <1>2, StoreAssumption DEF IInv, TypeOK, Unused, Ids
<1>4. Owns(s, req[s].id)
  BY <1>1, <1>2 DEF IInv, Exclusive, Owns, WorksOn
<1> QED
  BY <1>1, <1>3, <1>4

\* A request that no step touches and whose problem none touches stays sound.
LEMMA SoundStays ==
    ASSUME TypeOK, NEW o \in Staff, Sound(o), req'[o] = req[o],
           leaked \subseteq leaked', faults \in Nat, faults' \in Nat, faults' >= faults,
           req[o].pc \in WorkPcs =>
                /\ row'[req[o].id] = row[req[o].id]
                /\ live'[req[o].id] = live[req[o].id]
                /\ tmp'[req[o].id] = tmp[req[o].id]
                /\ bak'[req[o].id] = bak[req[o].id]
    PROVE  Sound(o)'
<1>1. CASE req[o].pc \notin WorkPcs
  BY <1>1 DEF Sound, ImportSound, UpdateSound, DeleteSound, At, WorkPcs, UpdatePcs,
              ImportPcs, FindPcs, SwapPcs, DeletePcs
<1>2. CASE req[o].pc \in WorkPcs
  <2>1. Marked(req[o].id) => Marked(req[o].id)'
    BY <1>2 DEF Marked, Filed
  <2>2. ImportSound(o)'
    BY <1>2 DEF Sound, ImportSound, At
  <2>3. UpdateSound(o)'
    BY <1>2, <2>1 DEF Sound, UpdateSound, At
  <2>4. DeleteSound(o)'
    BY <1>2, <2>1 DEF Sound, DeleteSound, At
  <2> QED
    BY <2>2, <2>3, <2>4 DEF Sound
<1> QED
  BY <1>1, <1>2

\* A step on one problem keeps IInv when it keeps what IInv says of that
\* problem and of the request itself.
LEMMA OneProblem ==
    ASSUME IInv, TypeOK', NEW s \in Staff, NEW id \in Ids, Owns(s, id), Touches(s, id),
           Sound(s)', Kept(id)', req'[s].pc = "idle" => Marked(id)' \/ Clean(id)'
    PROVE  IInv'
<1>0. /\ nextId \in Nat /\ nextId' \in Nat /\ Ids \subseteq Nat
      /\ faults \in Nat /\ faults' \in Nat
  BY StoreAssumption DEF IInv, TypeOK, Ids
<1>1. \A o \in Staff \ {s} : \A i : WorksOn(o, i)' <=> WorksOn(o, i)
  BY DEF Touches, WorksOn
<1>2. \A i \in Ids \ {id} : ~WorksOn(s, i)'
  BY DEF Touches, WorksOn
<1>3. \A i \in Ids \ {id} : Active(i)' <=> Active(i)
  BY <1>1, <1>2 DEF Active, Owns
<1>4. \A i \in Ids \ {id} : Kept(i)' /\ Swept(i)'
  <2> SUFFICES ASSUME NEW i \in Ids \ {id} PROVE Kept(i)' /\ Swept(i)'
    OBVIOUS
  <2>1. /\ row'[i] = row[i] /\ live'[i] = live[i] /\ tmp'[i] = tmp[i] /\ bak'[i] = bak[i]
        /\ leaked \subseteq leaked'
    BY DEF Touches
  <2>2. Kept(i)'
    BY <2>1 DEF IInv, Kept, Filed
  <2>3. Swept(i)'
    BY <1>3, <2>1 DEF IInv, Swept, Marked, Clean, Filed
  <2> QED
    BY <2>2, <2>3
<1>5. Swept(id)'
  <2>1. CASE req'[s].pc = "idle"
    BY <2>1 DEF Swept
  <2>2. CASE req'[s].pc \in WorkPcs /\ req'[s].id = id
    <3>1. WorksOn(s, id)'
      BY <2>2 DEF WorksOn, WorkPcs, UpdatePcs, ImportPcs, FindPcs, SwapPcs, DeletePcs
    <3> QED
      BY <3>1 DEF Swept, Active
  <2> QED
    BY <2>1, <2>2 DEF Touches
<1>6. Unused'
  <2> SUFFICES ASSUME NEW i \in Ids, i >= nextId' PROVE ~Active(i)' /\ Clean(i)'
    BY DEF Unused
  <2>1. i # id /\ i >= nextId
    BY <1>0 DEF Touches
  <2> QED
    BY <1>3, <2>1 DEF IInv, Unused, Clean, Touches
<1>7. Exclusive'
  <2> SUFFICES ASSUME NEW s1 \in Staff, NEW s2 \in Staff, NEW i \in Ids,
                      WorksOn(s1, i)', WorksOn(s2, i)'
               PROVE  s1 = s2
    BY DEF Exclusive
  <2>1. CASE i = id
    BY <1>1, <2>1 DEF Owns
  <2>2. CASE i # id
    BY <1>1, <1>2, <2>2 DEF IInv, Exclusive
  <2> QED
    BY <2>1, <2>2
<1>8. \A o \in Staff \ {s} : Sound(o)'
  <2> SUFFICES ASSUME NEW o \in Staff \ {s} PROVE Sound(o)'
    OBVIOUS
  <2>1. req[o].pc \in WorkPcs => req[o].id \in Ids \ {id}
    <3> SUFFICES ASSUME req[o].pc \in WorkPcs PROVE req[o].id \in Ids \ {id}
      OBVIOUS
    <3>1. WorksOn(o, req[o].id) /\ req[o].id \in Ids
      BY WorkRequest DEF IInv, WorksOn, WorkPcs, UpdatePcs, ImportPcs, FindPcs, SwapPcs,
                         DeletePcs
    <3> QED
      BY <3>1 DEF Owns
  <2> QED
    BY <1>0, <2>1, SoundStays DEF IInv, Touches
<1> QED
  BY <1>4, <1>5, <1>6, <1>7, <1>8 DEF IInv

\* A step that has no problem yet, or gives up before it has one.
LEMMA NoProblem ==
    ASSUME IInv, TypeOK', NEW s \in Staff, UNCHANGED <<row, dirs, nextId, leaked>>,
           faults' >= faults, \A o \in Staff \ {s} : req'[o] = req[o],
           req[s].pc \in {"idle", "insert"}, req'[s].pc \in {"idle", "insert"}
    PROVE  IInv'
<1>0. faults \in Nat /\ faults' \in Nat
  BY StoreAssumption DEF IInv, TypeOK
<1>1. \A o \in Staff : \A i : WorksOn(o, i)' <=> WorksOn(o, i)
  BY DEF WorksOn
<1>2. \A i : /\ Active(i)' <=> Active(i)
             /\ Kept(i)' <=> Kept(i)
             /\ Swept(i)' <=> Swept(i)
             /\ Clean(i)' <=> Clean(i)
  BY <1>1 DEF Active, Kept, Swept, Marked, Clean, Filed, dirs
<1>3. \A o \in Staff \ {s} : Sound(o)'
  BY <1>0, SoundStays DEF IInv, dirs
<1>4. Sound(s)'
  BY DEF Sound, ImportSound, UpdateSound, DeleteSound, At, UpdatePcs, FindPcs, SwapPcs
<1>5. Unused' /\ Exclusive'
  BY <1>1, <1>2 DEF IInv, Unused, Exclusive
<1> QED
  BY <1>2, <1>3, <1>4, <1>5 DEF IInv
-----------------------------------------------------------------------------
(* import_problem.                                                         *)

\* The two ways a step moves the request on.
LEMMA GoToIs ==
    ASSUME TypeOK, NEW s \in Staff, NEW p, GoTo(s, p)
    PROVE  /\ req'[s] = [req[s] EXCEPT !.pc = p]
           /\ \A o \in Staff \ {s} : req'[o] = req[o]
BY DEF TypeOK, GoTo

LEMMA GoToKeepsId ==
    ASSUME TypeOK, NEW s \in Staff, NEW p, GoTo(s, p),
           \/ req[s].pc \in ImportPcs /\ p \in ImportPcs
           \/ req[s].pc \in FindPcs /\ p \in FindPcs
           \/ req[s].pc \in SwapPcs /\ p \in SwapPcs
           \/ req[s].pc \in DeletePcs /\ p \in DeletePcs
    PROVE  /\ req'[s].pc = p /\ req'[s].id = req[s].id
           /\ req[s].pc \in FindPcs \cup SwapPcs => req'[s].was = req[s].was
           /\ req[s].pc \notin DeletePcs => req'[s].ver = req[s].ver
           /\ \A o \in Staff \ {s} : req'[o] = req[o]
<1>1. req[s] \in Requests
  BY DEF TypeOK
<1>2. /\ req'[s] = [req[s] EXCEPT !.pc = p]
      /\ \A o \in Staff \ {s} : req'[o] = req[o]
  BY GoToIs
<1> DEFINE r == req[s]
           n == [r EXCEPT !.pc = p]
<1>3. /\ n.pc = p /\ n.id = r.id
      /\ r.pc \in FindPcs \cup SwapPcs => n.was = r.was
      /\ r.pc \notin DeletePcs => n.ver = r.ver
  BY <1>1, GoToStays DEF ImportPcs, FindPcs, SwapPcs, DeletePcs
<1> QED
  BY <1>2, <1>3

LEMMA ReplyIs ==
    ASSUME TypeOK, NEW s \in Staff, Reply(s)
    PROVE  /\ req'[s].pc = "idle"
           /\ \A o \in Staff \ {s} : req'[o] = req[o]
BY DEF TypeOK, Reply, Idle

\* What is known of the requests an import step is about.
LEMMA AtImport ==
    ASSUME IInv, NEW s \in Staff, req[s].pc \in ImportPcs
    PROVE  /\ req[s].id \in Ids /\ req[s].ver \in Versions
           /\ req[s].id < nextId /\ Owns(s, req[s].id)
           /\ req[s].pc \in WorkPcs /\ TypeOK
<1>1. req[s].pc \in WorkPcs
  BY DEF WorkPcs
<1>2. req[s] \in Requests /\ TypeOK
  BY DEF IInv, TypeOK
<1> QED
  BY <1>1, <1>2, OwnProblem, RequestOfPc DEF ImportRequests

LEMMA ImportInsertKeeps ==
    ASSUME IInv, TypeOK', NEW s \in Staff, ImportInsert(s)
    PROVE  IInv'
<1>0. /\ req \in [Staff -> Requests] /\ nextId \in Nat /\ faults \in Nat
      /\ row \in [Ids -> Rows \cup {NoRow}]
  BY StoreAssumption DEF IInv, TypeOK
<1>1. CASE Reply(s) /\ UNCHANGED <<row, nextId>> /\ (Fault \/ UNCHANGED faults)
  <2>1. req'[s].pc = "idle" /\ \A o \in Staff \ {s} : req'[o] = req[o]
    BY <1>0, <1>1 DEF Reply, Idle
  <2>2. faults' >= faults
    BY <1>0, <1>1 DEF Fault
  <2> QED
    BY <1>1, <2>1, <2>2, NoProblem DEF ImportInsert, At
<1>2. CASE /\ nextId \in Ids
           /\ row' = [row EXCEPT ![nextId] = [there |-> TRUE, title |-> req[s].title,
                                              filed |-> FALSE]]
           /\ nextId' = nextId + 1
           /\ req' = [req EXCEPT ![s] = [pc |-> "files", id |-> nextId,
                                         ver |-> req[s].ver]]
           /\ UNCHANGED faults
  <2>0. PICK id \in Ids : id = nextId
    BY <1>2
  <2>1. Clean(id) /\ ~Active(id)
    BY <1>0, <2>0 DEF IInv, Unused
  <2>2. Owns(s, id)
    BY <2>1 DEF Owns, Active, ImportInsert, At, WorksOn
  <2>3. req'[s].pc = "files" /\ req'[s].id = id /\ req'[s].pc \in WorkPcs
    BY <1>0, <1>2, <2>0 DEF WorkPcs, ImportPcs
  <2>4. Touches(s, id)
    BY <1>0, <1>2, <2>0, <2>3 DEF Touches, ImportInsert, dirs
  <2>5. row'[id].there /\ ~row'[id].filed
    BY <1>0, <1>2, <2>0
  <2>6. Kept(id)'
    BY <2>5 DEF Kept, Filed
  <2>7. Sound(s)'
    BY <1>2, <2>1, <2>3, <2>5
       DEF Sound, ImportSound, UpdateSound, DeleteSound, At, Clean, UpdatePcs, FindPcs,
           SwapPcs, ImportInsert, dirs
  <2> QED
    BY <2>2, <2>3, <2>4, <2>6, <2>7, OneProblem
<1> QED
  BY <1>1, <1>2 DEF ImportInsert

LEMMA ImportFilesKeeps ==
    ASSUME IInv, TypeOK', NEW s \in Staff, ImportFiles(s)
    PROVE  IInv'
<1>0. /\ req \in [Staff -> Requests] /\ faults \in Nat /\ live \in [Ids -> Contents]
      /\ req[s].pc \in ImportPcs
  BY StoreAssumption DEF IInv, TypeOK, ImportFiles, At, ImportPcs
<1>1. PICK id \in Ids : id = req[s].id
  BY <1>0, AtImport
<1>2. /\ Owns(s, id) /\ id < nextId /\ req[s].ver \in Versions
      /\ row[id].there /\ ~row[id].filed /\ tmp[id] = "absent" /\ bak[id] = "absent"
  BY <1>0, <1>1, AtImport DEF IInv, Sound, ImportSound, ImportFiles, At
<1>3. /\ req'[s].pc \in {"setdir", "undoDir"} /\ req'[s].id = id
      /\ req'[s].pc = "setdir" => live'[id] \in Whole
      /\ \A o \in Staff \ {s} : req'[o] = req[o]
      /\ faults' >= faults
  <2>1. CASE GoTo(s, "setdir") /\ (UNCHANGED faults \/ Fault)
             /\ \E v \in Whole : live' = [live EXCEPT ![req[s].id] = v]
    <3>1. /\ req'[s].pc = "setdir" /\ req'[s].id = id
          /\ \A o \in Staff \ {s} : req'[o] = req[o]
      BY <1>0, <1>1, <2>1, AtImport, GoToKeepsId DEF ImportPcs
    <3> QED
      BY <1>0, <1>1, <2>1, <3>1 DEF Fault
  <2>2. CASE GoTo(s, "undoDir") /\ Fault
    <3>1. /\ req'[s].pc = "undoDir" /\ req'[s].id = id
          /\ \A o \in Staff \ {s} : req'[o] = req[o]
      BY <1>0, <1>1, <2>2, AtImport, GoToKeepsId DEF ImportPcs
    <3> QED
      BY <1>0, <2>2, <3>1 DEF Fault
  <2> QED
    BY <1>2, <2>1, <2>2, ContentsAre DEF ImportFiles
<1>4. Touches(s, id)
  BY <1>0, <1>1, <1>2, <1>3
     DEF Touches, ImportFiles, IInv, TypeOK, WorkPcs, ImportPcs
<1>5. Sound(s)'
  BY <1>2, <1>3 DEF Sound, ImportSound, UpdateSound, DeleteSound, At, UpdatePcs, FindPcs,
                    SwapPcs, ImportFiles
<1>6. Kept(id)'
  BY <1>2 DEF Kept, Filed, ImportFiles
<1> QED
  BY <1>2, <1>3, <1>4, <1>5, <1>6, OneProblem

LEMMA ImportSetDirKeeps ==
    ASSUME IInv, TypeOK', NEW s \in Staff, ImportSetDir(s)
    PROVE  IInv'
<1>0. /\ req \in [Staff -> Requests] /\ faults \in Nat
      /\ row \in [Ids -> Rows \cup {NoRow}]
      /\ req[s].pc \in ImportPcs
  BY StoreAssumption DEF IInv, TypeOK, ImportSetDir, At, ImportPcs
<1>1. PICK id \in Ids : id = req[s].id
  BY <1>0, AtImport
<1>2. /\ Owns(s, id) /\ id < nextId
      /\ row[id].there /\ ~row[id].filed /\ tmp[id] = "absent" /\ bak[id] = "absent"
      /\ live[id] \in Whole
  BY <1>0, <1>1, AtImport DEF IInv, Sound, ImportSound, ImportSetDir, At
<1>3. /\ \A o \in Staff \ {s} : req'[o] = req[o]
      /\ \A i \in Ids \ {id} : row'[i] = row[i]
      /\ faults' >= faults
      /\ \/ /\ req'[s].pc = "idle"
            /\ row'[id].there /\ row'[id].filed
         \/ /\ req'[s].pc = "undoDir" /\ req'[s].id = id
            /\ row'[id] = row[id]
  <2>1. [row[id] EXCEPT !.filed = TRUE].there /\ [row[id] EXCEPT !.filed = TRUE].filed
    BY <1>2, RowColumns DEF IInv
  <2>2. CASE Reply(s) /\ UNCHANGED faults /\ row' = [row EXCEPT ![req[s].id].filed = TRUE]
    BY <1>0, <1>1, <1>2, <2>1, <2>2, ReplyIs, AtImport
  <2>3. CASE Fault /\ GoTo(s, "undoDir") /\ UNCHANGED row
    <3>1. /\ req'[s].pc = "undoDir" /\ req'[s].id = id
          /\ \A o \in Staff \ {s} : req'[o] = req[o]
      BY <1>0, <1>1, <2>3, AtImport, GoToKeepsId DEF ImportPcs
    <3> QED
      BY <1>0, <2>3, <3>1 DEF Fault
  <2> QED
    BY <1>1, <1>2, <2>2, <2>3 DEF ImportSetDir
<1>4. Touches(s, id)
  BY <1>0, <1>2, <1>3 DEF Touches, ImportSetDir, dirs, IInv, TypeOK, WorkPcs, ImportPcs
<1>5. Sound(s)'
  BY <1>2, <1>3 DEF Sound, ImportSound, UpdateSound, DeleteSound, At, UpdatePcs, FindPcs,
                    SwapPcs, ImportSetDir, dirs
<1>6. Kept(id)' /\ (req'[s].pc = "idle" => Marked(id)')
  BY <1>2, <1>3 DEF Kept, Marked, Filed, ImportSetDir, dirs
<1> QED
  BY <1>2, <1>4, <1>5, <1>6, OneProblem

LEMMA ImportUndoDirKeeps ==
    ASSUME IInv, TypeOK', NEW s \in Staff, ImportUndoDir(s)
    PROVE  IInv'
<1>0. /\ req \in [Staff -> Requests] /\ faults \in Nat /\ live \in [Ids -> Contents]
      /\ req[s].pc \in ImportPcs
  BY StoreAssumption DEF IInv, TypeOK, ImportUndoDir, At, ImportPcs
<1>1. PICK id \in Ids : id = req[s].id
  BY <1>0, AtImport
<1>2. /\ Owns(s, id) /\ id < nextId
      /\ row[id].there /\ ~row[id].filed /\ tmp[id] = "absent" /\ bak[id] = "absent"
  BY <1>0, <1>1, AtImport DEF IInv, Sound, ImportSound, ImportUndoDir, At
<1>3. /\ req'[s].pc = "undoRow" /\ req'[s].id = id
      /\ live'[id] = "absent" \/ id \in leaked'
      /\ \A o \in Staff \ {s} : req'[o] = req[o]
      /\ \A i \in Ids \ {id} : live'[i] = live[i]
      /\ faults' >= faults /\ leaked \subseteq leaked'
  BY <1>0, <1>1, <1>2, AtImport DEF ImportUndoDir, GoTo, Fault, ImportPcs
<1>4. Touches(s, id)
  BY <1>2, <1>3 DEF Touches, ImportUndoDir, IInv, TypeOK, WorkPcs, ImportPcs
<1>5. Sound(s)'
  BY <1>2, <1>3 DEF Sound, ImportSound, UpdateSound, DeleteSound, At, UpdatePcs, FindPcs,
                    SwapPcs, ImportUndoDir
<1>6. Kept(id)'
  BY <1>2 DEF Kept, Filed, ImportUndoDir
<1> QED
  BY <1>2, <1>3, <1>4, <1>5, <1>6, OneProblem

LEMMA ImportUndoRowKeeps ==
    ASSUME IInv, TypeOK', NEW s \in Staff, ImportUndoRow(s)
    PROVE  IInv'
<1>0. /\ req \in [Staff -> Requests] /\ faults \in Nat
      /\ row \in [Ids -> Rows \cup {NoRow}]
      /\ req[s].pc \in ImportPcs
  BY StoreAssumption DEF IInv, TypeOK, ImportUndoRow, At, ImportPcs
<1>1. PICK id \in Ids : id = req[s].id
  BY <1>0, AtImport
<1>2. /\ Owns(s, id) /\ id < nextId
      /\ row[id].there /\ ~row[id].filed /\ tmp[id] = "absent" /\ bak[id] = "absent"
      /\ live[id] = "absent" \/ id \in leaked
  BY <1>0, <1>1, AtImport DEF IInv, Sound, ImportSound, ImportUndoRow, At
<1>3. /\ req'[s].pc = "idle"
      /\ \A o \in Staff \ {s} : req'[o] = req[o]
      /\ \A i \in Ids \ {id} : row'[i] = row[i]
      /\ faults' >= faults /\ leaked \subseteq leaked'
      /\ \/ ~row'[id].there
         \/ id \in leaked' /\ row'[id] = row[id]
  BY <1>0, <1>1, <1>2 DEF ImportUndoRow, Reply, Fault, Idle, NoRow
<1>4. Touches(s, id)
  BY <1>2, <1>3 DEF Touches, ImportUndoRow, dirs, IInv, TypeOK
<1>5. Sound(s)'
  BY <1>3 DEF Sound, ImportSound, UpdateSound, DeleteSound, At, UpdatePcs, FindPcs,
              SwapPcs
<1>6. Kept(id)' /\ (Marked(id)' \/ Clean(id)')
  BY <1>2, <1>3 DEF Kept, Filed, Marked, Clean, ImportUndoRow, dirs
<1> QED
  BY <1>2, <1>3, <1>4, <1>5, <1>6, OneProblem

LEMMA ImportKeeps ==
    ASSUME IInv, TypeOK', NEW s \in Staff, Import(s)
    PROVE  IInv'
<1>1. ASSUME NEW t \in Titles, NEW v \in Versions, ImportCheck(s, t, v)
      PROVE  IInv'
  <2>1. /\ req[s].pc = "idle" /\ req'[s].pc = "insert"
        /\ \A o \in Staff \ {s} : req'[o] = req[o]
        /\ UNCHANGED <<row, dirs, nextId, leaked>> /\ faults' = faults /\ faults \in Nat
    BY <1>1, StoreAssumption DEF ImportCheck, At, IInv, TypeOK
  <2> QED
    BY <2>1, NoProblem
<1> QED
  BY <1>1, ImportInsertKeeps, ImportFilesKeeps, ImportSetDirKeeps, ImportUndoDirKeeps,
     ImportUndoRowKeeps DEF Import
-----------------------------------------------------------------------------
(* update_problem.                                                         *)

\* A request that is let in finds its problem free.
LEMMA FreeIsOwned ==
    ASSUME IInv, ~Overlap, NEW s \in Staff, At(s, "idle"), NEW id \in Ids, Free(id),
           row[id].there
    PROVE  Owns(s, id) /\ id < nextId /\ Marked(id)
<1>1. ~Active(id)
  BY DEF Free
<1>2. Owns(s, id)
  BY <1>1 DEF Owns, Active, At, WorksOn
<1>3. id < nextId
  BY StoreAssumption DEF IInv, TypeOK, Unused, Clean, Ids
<1>4. Marked(id)
  BY <1>1 DEF IInv, Swept, Clean
<1> QED
  BY <1>2, <1>3, <1>4

\* What is known of the requests an update step is about.
LEMMA AtUpdate ==
    ASSUME IInv, NEW s \in Staff, req[s].pc \in UpdatePcs
    PROVE  /\ req[s].id \in Ids /\ req[s].ver \in Versions
           /\ req[s].id < nextId /\ Owns(s, req[s].id)
           /\ Marked(req[s].id) /\ Kept(req[s].id)
           /\ UpdateSound(s) /\ TypeOK /\ faults \in Nat /\ faults <= faults
<1>1. req[s].pc \in WorkPcs
  BY DEF WorkPcs
<1>2. req[s].id \in Ids /\ req[s].id < nextId /\ Owns(s, req[s].id)
  BY <1>1, OwnProblem
<1>3. req[s] \in Requests /\ TypeOK /\ faults \in Nat
  BY StoreAssumption DEF IInv, TypeOK
<1>4. req[s].ver \in Versions
  BY <1>3, RequestOfPc DEF UpdatePcs, FindRequests, SwapRequests
<1>5. UpdateSound(s) /\ Kept(req[s].id)
  BY <1>2 DEF IInv, Sound
<1>6. Marked(req[s].id)
  BY <1>5 DEF UpdateSound
<1> QED
  BY <1>2, <1>3, <1>4, <1>5, <1>6

\* An update step is neither an import's nor a deletion's.
LEMMA UpdateIsSound ==
    ASSUME NEW s \in Staff, UpdateSound(s)', req'[s].pc \in {"idle"} \cup UpdatePcs
    PROVE  Sound(s)'
BY DEF Sound, ImportSound, DeleteSound, At, UpdatePcs, FindPcs, SwapPcs

\* What was marked stays so unless its row or its marks go.
LEMMA MarkStays ==
    ASSUME NEW id \in Ids, Marked(id), leaked \subseteq leaked',
           row[id].there => row'[id].there,
           row[id].there /\ row[id].filed => row'[id].filed
    PROVE  Marked(id)'
BY DEF Marked, Filed

LEMMA UpdateFindKeeps ==
    ASSUME IInv, TypeOK', ~Overlap, NEW s \in Staff, NEW id \in Ids, NEW t \in Titles,
           NEW v \in Versions, NEW replace \in BOOLEAN, UpdateFind(s, id, t, v, replace)
    PROVE  IInv'
<1>1. /\ req \in [Staff -> Requests] /\ faults \in Nat /\ nextId \in Nat
      /\ leaked \subseteq Ids
  BY StoreAssumption DEF IInv, TypeOK
<1>2. Owns(s, id) /\ id < nextId /\ Marked(id)
  BY FreeIsOwned DEF UpdateFind
<1>3. /\ req'[s].pc = "title" /\ req'[s].id = id /\ req'[s].was = live[id]
      /\ \A o \in Staff \ {s} : req'[o] = req[o]
  BY <1>1 DEF UpdateFind
<1>4. UNCHANGED <<row, live, tmp, bak, nextId, leaked, faults>>
  BY DEF UpdateFind, dirs
<1>5. Touches(s, id)
  BY <1>1, <1>2, <1>3, <1>4 DEF Touches, WorkPcs, UpdatePcs, FindPcs
<1>6. Sound(s)'
  <2>1. UpdateSound(s)'
    BY <1>2, <1>3, <1>4
       DEF UpdateSound, At, UpdatePcs, FindPcs, SwapPcs, Marked, Filed
  <2> QED
    BY <1>3, <2>1, UpdateIsSound DEF UpdatePcs, FindPcs
<1>7. Kept(id)'
  BY <1>4 DEF IInv, Kept, Filed
<1> QED
  BY <1>2, <1>3, <1>5, <1>6, <1>7, OneProblem

LEMMA UpdateTitleKeeps ==
    ASSUME IInv, TypeOK', NEW s \in Staff, UpdateTitle(s)
    PROVE  IInv'
<1>1. req[s].pc = "title" /\ req[s].pc \in UpdatePcs /\ req[s].pc \in FindPcs
  BY DEF UpdateTitle, At, UpdatePcs, FindPcs
<1>2. PICK id \in Ids : id = req[s].id
  BY <1>1, AtUpdate
<1>3. Owns(s, id) /\ id < nextId /\ Marked(id) /\ live[id] = req[s].was
  BY <1>1, <1>2, AtUpdate DEF UpdateSound
<1>4. /\ \/ req'[s].pc = "idle"
         \/ req'[s].pc = "meta" /\ req'[s].id = id /\ req'[s].was = req[s].was
      /\ \A o \in Staff \ {s} : req'[o] = req[o]
  BY <1>1, <1>2, AtUpdate, GoToKeepsId, ReplyIs DEF UpdateTitle, FindPcs
<1>5. UNCHANGED <<row, live, tmp, bak, nextId, leaked, faults>>
  BY DEF UpdateTitle, dirs
<1>6. Touches(s, id)
  BY <1>1, <1>3, <1>4, <1>5, AtUpdate, StoreAssumption
     DEF Touches, WorkPcs, UpdatePcs, FindPcs, TypeOK
<1>7. Marked(id)' /\ Kept(id)'
  BY <1>1, <1>2, <1>3, <1>5, AtUpdate DEF Kept, Marked, Filed
<1>8. Sound(s)'
  <2>1. UpdateSound(s)'
    BY <1>3, <1>4, <1>5, <1>7 DEF UpdateSound, At, UpdatePcs, FindPcs, SwapPcs
  <2> QED
    BY <1>4, <2>1, UpdateIsSound DEF UpdatePcs, FindPcs
<1> QED
  BY <1>3, <1>6, <1>7, <1>8, OneProblem

LEMMA UpdateMetaKeeps ==
    ASSUME IInv, TypeOK', NEW s \in Staff, UpdateMeta(s)
    PROVE  IInv'
<1>1. req[s].pc = "meta" /\ req[s].pc \in UpdatePcs /\ req[s].pc \in FindPcs
  BY DEF UpdateMeta, At, UpdatePcs, FindPcs
<1>2. PICK id \in Ids : id = req[s].id
  BY <1>1, AtUpdate
<1>3. Owns(s, id) /\ id < nextId /\ Marked(id) /\ live[id] = req[s].was
  BY <1>1, <1>2, AtUpdate DEF UpdateSound
<1>4. /\ \/ req'[s].pc = "idle"
         \/ req'[s].pc = "tmp" /\ req'[s].id = id /\ req'[s].was = req[s].was
      /\ \A o \in Staff \ {s} : req'[o] = req[o]
  <2>1. CASE Reply(s)
    BY <1>1, <2>1, AtUpdate, ReplyIs
  <2>2. CASE req' = [req EXCEPT ![s] = [pc |-> "tmp", id |-> req[s].id,
                                        ver |-> req[s].ver, was |-> req[s].was]]
    <3>1. req \in [Staff -> Requests]
      BY DEF IInv, TypeOK
    <3> QED
      BY <1>2, <2>2, <3>1
  <2> QED
    BY <2>1, <2>2 DEF UpdateMeta
<1>5. /\ row'[id].there <=> row[id].there
      /\ row[id].there => (row'[id].filed <=> row[id].filed)
      /\ \A i \in Ids \ {id} : row'[i] = row[i]
  <2>0. row \in [Ids -> Rows \cup {NoRow}]
    BY DEF IInv, TypeOK
  <2>1. CASE row' = row
    BY <2>1
  <2>2. CASE row[id].there /\ row' = [row EXCEPT ![id].title = req[s].title]
    <3>1. req[s].title \in Titles
      <4>1. req[s] \in Requests
        BY DEF IInv, TypeOK
      <4> QED
        BY <1>1, <4>1, RequestOfPc DEF FindRequests
    <3>2. PICK t \in Titles : t = req[s].title
      BY <3>1
    <3>3. row' = [row EXCEPT ![id] = [row[id] EXCEPT !.title = t]]
      BY <2>2, <3>2
    <3>4. row'[id] = [row[id] EXCEPT !.title = t] /\ \A i \in Ids \ {id} : row'[i] = row[i]
      BY <2>0, <3>3
    <3>5. [row[id] EXCEPT !.title = t].there
          /\ [row[id] EXCEPT !.title = t].filed = row[id].filed
      BY <2>2, RowColumns DEF IInv
    <3> QED
      BY <2>2, <3>4, <3>5
  <2> QED
    BY <1>2, <2>1, <2>2 DEF UpdateMeta
<1>6. UNCHANGED <<live, tmp, bak, nextId, leaked>> /\ faults' >= faults
  BY <1>1, AtUpdate DEF UpdateMeta, dirs, Fault
<1>7. Touches(s, id)
  BY <1>3, <1>4, <1>5, <1>6 DEF Touches, WorkPcs, UpdatePcs, SwapPcs, IInv, TypeOK
<1>8. Marked(id)' /\ Kept(id)'
  <2>1. Kept(id) /\ Marked(id)
    BY <1>1, <1>2, AtUpdate
  <2> QED
    BY <1>5, <1>6, <2>1 DEF Kept, Marked, Filed
<1>9. Sound(s)'
  <2>1. UpdateSound(s)'
    BY <1>3, <1>4, <1>6, <1>8 DEF UpdateSound, At, UpdatePcs, FindPcs, SwapPcs
  <2> QED
    BY <1>4, <2>1, UpdateIsSound DEF UpdatePcs, SwapPcs
<1> QED
  BY <1>3, <1>7, <1>8, <1>9, OneProblem
-----------------------------------------------------------------------------
(* The exchange of the test files.                                         *)

LEMMA UpdateTmpKeeps ==
    ASSUME IInv, TypeOK', NEW s \in Staff, UpdateTmp(s)
    PROVE  IInv'
<1>1. req[s].pc = "tmp" /\ req[s].pc \in UpdatePcs /\ req[s].pc \in SwapPcs
  BY DEF UpdateTmp, At, UpdatePcs, SwapPcs
<1>2. PICK id \in Ids : id = req[s].id
  BY <1>1, AtUpdate
<1>3. /\ Owns(s, id) /\ id < nextId /\ Marked(id) /\ Kept(id)
      /\ TypeOK /\ req[s].ver \in Versions
  BY <1>1, <1>2, AtUpdate
<1>4. live[id] = req[s].was
  BY <1>1, <1>2, AtUpdate DEF UpdateSound
<1>5. /\ req'[s].pc \in {"backup", "cleanup"}
      /\ req'[s].id = id /\ req'[s].was = req[s].was /\ req'[s].ver = req[s].ver
      /\ \A o \in Staff \ {s} : req'[o] = req[o]
  BY <1>1, <1>2, <1>3, GoToKeepsId DEF UpdateTmp, SwapPcs, DeletePcs
<1>6. UNCHANGED <<row, live, bak, nextId, leaked>> /\ faults' >= faults
  BY <1>1, AtUpdate DEF UpdateTmp, Fault
<1>7. /\ \A i \in Ids \ {id} : tmp'[i] = tmp[i]
      /\ req'[s].pc = "backup" => tmp'[id] \in Whole
  <2>1. tmp \in [Ids -> Contents]
    BY <1>3 DEF TypeOK
  <2>2. CASE \E v \in Whole : tmp' = [tmp EXCEPT ![req[s].id] = v]
    BY <1>2, <2>1, <2>2
  <2>3. CASE tmp' = [tmp EXCEPT ![req[s].id] = "partial"] /\ GoTo(s, "cleanup")
    <3>1. req'[s].pc = "cleanup"
      BY <1>1, <1>3, <2>3, GoToKeepsId DEF SwapPcs
    <3> QED
      BY <1>2, <2>1, <2>3, <3>1
  <2> QED
    BY <1>3, <2>2, <2>3, ContentsAre DEF UpdateTmp
<1>8. Touches(s, id)
  BY <1>3, <1>5, <1>6, <1>7 DEF Touches, WorkPcs, UpdatePcs, SwapPcs, TypeOK
<1>9. Marked(id)' /\ Kept(id)'
  BY <1>3, <1>4, <1>5, <1>6, <1>7 DEF Kept, Marked, Filed
<1>10. Sound(s)'
  <2>1. UpdateSound(s)'
    BY <1>3, <1>4, <1>5, <1>6, <1>7, <1>9 DEF UpdateSound, At, UpdatePcs, FindPcs, SwapPcs
  <2> QED
    BY <1>5, <2>1, UpdateIsSound DEF UpdatePcs, SwapPcs
<1> QED
  BY <1>3, <1>8, <1>9, <1>10, OneProblem

LEMMA UpdateBackupKeeps ==
    ASSUME IInv, TypeOK', NEW s \in Staff, UpdateBackup(s)
    PROVE  IInv'
<1>1. req[s].pc = "backup" /\ req[s].pc \in UpdatePcs /\ req[s].pc \in SwapPcs
  BY DEF UpdateBackup, At, UpdatePcs, SwapPcs
<1>2. PICK id \in Ids : id = req[s].id
  BY <1>1, AtUpdate
<1>3. /\ Owns(s, id) /\ id < nextId /\ Marked(id) /\ Kept(id)
      /\ TypeOK /\ req[s].ver \in Versions
  BY <1>1, <1>2, AtUpdate
<1>4. live[id] = req[s].was /\ tmp[id] \in Whole
  BY <1>1, <1>2, AtUpdate DEF UpdateSound
<1>5. /\ req'[s].pc \in {"swap", "cleanup"}
      /\ req'[s].id = id /\ req'[s].was = req[s].was /\ req'[s].ver = req[s].ver
      /\ \A o \in Staff \ {s} : req'[o] = req[o]
  BY <1>1, <1>2, <1>3, GoToKeepsId DEF UpdateBackup, SwapPcs, DeletePcs
<1>6. UNCHANGED <<row, tmp, nextId, leaked>> /\ faults' >= faults
  BY <1>1, AtUpdate DEF UpdateBackup, Fault
<1>7. /\ \A i \in Ids \ {id} : live'[i] = live[i] /\ bak'[i] = bak[i]
      /\ \/ live'[id] = "absent" /\ live[id] = "absent" /\ bak'[id] = bak[id]
            /\ req'[s].pc = "swap"
         \/ live'[id] = "absent" /\ live[id] # "absent" /\ bak'[id] = live[id]
            /\ req'[s].pc = "swap"
         \/ live'[id] = live[id] /\ live[id] # "absent" /\ req'[s].pc = "cleanup"
  <2>1. live \in [Ids -> Contents] /\ bak \in [Ids -> Contents]
    BY <1>3 DEF TypeOK
  <2>2. \A p \in SwapPcs : GoTo(s, p) => req'[s].pc = p
    BY <1>1, <1>3, GoToKeepsId
  <2>3. CASE live[id] = "absent" /\ GoTo(s, "swap") /\ UNCHANGED <<live, bak>>
    BY <2>2, <2>3 DEF SwapPcs
  <2>4. CASE /\ live[id] # "absent" /\ GoTo(s, "swap")
             /\ bak' = [bak EXCEPT ![id] = live[id]]
             /\ live' = [live EXCEPT ![id] = "absent"]
    BY <2>1, <2>2, <2>4 DEF SwapPcs
  <2>5. CASE /\ live[id] # "absent" /\ GoTo(s, "cleanup") /\ UNCHANGED live
             /\ \E left \in {"absent", "partial", bak[id]} :
                    bak' = [bak EXCEPT ![id] = left]
    BY <2>1, <2>2, <2>5 DEF SwapPcs
  <2> QED
    BY <1>2, <2>3, <2>4, <2>5 DEF UpdateBackup
<1>8. Touches(s, id)
  BY <1>3, <1>5, <1>6, <1>7 DEF Touches, WorkPcs, UpdatePcs, SwapPcs, TypeOK
<1>9. Marked(id)' /\ Kept(id)'
  BY <1>3, <1>4, <1>5, <1>6, <1>7 DEF Kept, Marked, Filed
<1>10. Sound(s)'
  <2>1. UpdateSound(s)'
    BY <1>3, <1>4, <1>5, <1>6, <1>7, <1>9 DEF UpdateSound, At, UpdatePcs, FindPcs, SwapPcs
  <2> QED
    BY <1>5, <2>1, UpdateIsSound DEF UpdatePcs, SwapPcs
<1> QED
  BY <1>3, <1>8, <1>9, <1>10, OneProblem

LEMMA UpdateSwapKeeps ==
    ASSUME IInv, TypeOK', NEW s \in Staff, UpdateSwap(s)
    PROVE  IInv'
<1>1. req[s].pc = "swap" /\ req[s].pc \in UpdatePcs /\ req[s].pc \in SwapPcs
  BY DEF UpdateSwap, At, UpdatePcs, SwapPcs
<1>2. PICK id \in Ids : id = req[s].id
  BY <1>1, AtUpdate
<1>3. /\ Owns(s, id) /\ id < nextId /\ Marked(id) /\ Kept(id)
      /\ TypeOK /\ req[s].ver \in Versions
  BY <1>1, <1>2, AtUpdate
<1>4. /\ live[id] = "absent" /\ tmp[id] \in Whole /\ tmp[id] # "absent"
      /\ req[s].was # "absent" => bak[id] = req[s].was
  BY <1>1, <1>2, <1>3, AtUpdate, ContentsAre DEF UpdateSound
<1>5. /\ req'[s].pc \in {"dropBak", "restore"}
      /\ req'[s].id = id /\ req'[s].was = req[s].was /\ req'[s].ver = req[s].ver
      /\ \A o \in Staff \ {s} : req'[o] = req[o]
  BY <1>1, <1>2, <1>3, GoToKeepsId DEF UpdateSwap, SwapPcs, DeletePcs
<1>6. UNCHANGED <<row, bak, nextId, leaked>> /\ faults' >= faults
  BY <1>1, <1>2, <1>4, AtUpdate DEF UpdateSwap, Fault
<1>7. /\ \A i \in Ids \ {id} : live'[i] = live[i] /\ tmp'[i] = tmp[i]
      /\ \/ live'[id] \in Whole /\ req'[s].pc = "dropBak"
         \/ /\ live'[id] = live[id] /\ tmp'[id] = tmp[id] /\ req'[s].pc = "restore"
            /\ faults' >= 1
  <2>1. live \in [Ids -> Contents] /\ tmp \in [Ids -> Contents]
    BY <1>3 DEF TypeOK
  <2>2. \A p \in SwapPcs : GoTo(s, p) => req'[s].pc = p
    BY <1>1, <1>3, GoToKeepsId
  <2>3. CASE /\ GoTo(s, "dropBak")
             /\ live' = [live EXCEPT ![id] = tmp[id]]
             /\ tmp' = [tmp EXCEPT ![id] = "absent"]
    BY <1>4, <2>1, <2>2, <2>3 DEF SwapPcs
  <2>4. CASE GoTo(s, "restore") /\ UNCHANGED <<live, tmp>> /\ Fault
    <3>1. faults' >= 1
      BY <1>1, <2>4, AtUpdate DEF Fault
    <3> QED
      BY <2>2, <2>4, <3>1 DEF SwapPcs
  <2> QED
    BY <1>2, <1>4, <2>3, <2>4 DEF UpdateSwap
<1>8. Touches(s, id)
  BY <1>3, <1>5, <1>6, <1>7 DEF Touches, WorkPcs, UpdatePcs, SwapPcs, TypeOK
<1>9. Marked(id)' /\ Kept(id)'
  BY <1>3, <1>4, <1>5, <1>6, <1>7 DEF Kept, Marked, Filed
<1>10. Sound(s)'
  <2>1. UpdateSound(s)'
    BY <1>3, <1>4, <1>5, <1>6, <1>7, <1>9 DEF UpdateSound, At, UpdatePcs, FindPcs, SwapPcs
  <2> QED
    BY <1>5, <2>1, UpdateIsSound DEF UpdatePcs, SwapPcs
<1> QED
  BY <1>3, <1>8, <1>9, <1>10, OneProblem

LEMMA UpdateRestoreKeeps ==
    ASSUME IInv, TypeOK', NEW s \in Staff, UpdateRestore(s)
    PROVE  IInv'
<1>1. req[s].pc = "restore" /\ req[s].pc \in UpdatePcs /\ req[s].pc \in SwapPcs
  BY DEF UpdateRestore, At, UpdatePcs, SwapPcs
<1>2. PICK id \in Ids : id = req[s].id
  BY <1>1, AtUpdate
<1>3. /\ Owns(s, id) /\ id < nextId /\ Marked(id) /\ Kept(id)
      /\ TypeOK /\ req[s].ver \in Versions
  BY <1>1, <1>2, AtUpdate
<1>4. /\ live[id] = "absent" /\ faults >= 1 /\ faults \in Nat
      /\ req[s].was # "absent" => bak[id] = req[s].was
  BY <1>1, <1>2, AtUpdate DEF UpdateSound, At
<1>5. /\ req'[s].pc = "cleanup"
      /\ req'[s].id = id /\ req'[s].was = req[s].was /\ req'[s].ver = req[s].ver
      /\ \A o \in Staff \ {s} : req'[o] = req[o]
  BY <1>1, <1>2, <1>3, GoToKeepsId DEF UpdateRestore, SwapPcs, DeletePcs
<1>6. UNCHANGED <<row, tmp, nextId, leaked>> /\ faults' >= faults
  BY <1>2, <1>4 DEF UpdateRestore, Fault
<1>7. /\ \A i \in Ids \ {id} : live'[i] = live[i] /\ bak'[i] = bak[i]
      /\ \/ live'[id] = bak[id]
         \/ live'[id] = live[id] /\ bak'[id] = bak[id] /\ faults' >= 2
         \/ live'[id] = live[id] /\ bak'[id] = bak[id] /\ bak[id] = "absent"
  <2>1. live \in [Ids -> Contents] /\ bak \in [Ids -> Contents]
    BY <1>3 DEF TypeOK
  <2>2. CASE /\ live' = [live EXCEPT ![id] = bak[id]]
             /\ bak' = [bak EXCEPT ![id] = "absent"]
    BY <2>1, <2>2
  <2>3. CASE UNCHANGED <<live, bak>> /\ (Fault \/ bak[id] = "absent")
    BY <1>4, <2>3 DEF Fault
  <2> QED
    BY <1>2, <1>4, <2>2, <2>3 DEF UpdateRestore
<1>8. Touches(s, id)
  BY <1>3, <1>5, <1>6, <1>7 DEF Touches, WorkPcs, UpdatePcs, SwapPcs, TypeOK
<1>9. Marked(id)' /\ Kept(id)'
  BY <1>3, <1>4, <1>5, <1>6, <1>7, ContentsAre DEF Kept, Marked, Filed
<1>10. Sound(s)'
  <2>1. faults' \in Nat
    BY StoreAssumption DEF TypeOK
  <2>2. req[s].was # "absent" /\ faults' <= 1 => live'[id] = req[s].was
    BY <1>4, <1>7, <2>1
  <2>3. UpdateSound(s)'
    BY <1>5, <1>9, <2>2 DEF UpdateSound, At, UpdatePcs, FindPcs, SwapPcs
  <2> QED
    BY <1>5, <2>3, UpdateIsSound DEF UpdatePcs, SwapPcs
<1> QED
  BY <1>3, <1>8, <1>9, <1>10, OneProblem

LEMMA UpdateDropBakKeeps ==
    ASSUME IInv, TypeOK', NEW s \in Staff, UpdateDropBak(s)
    PROVE  IInv'
<1>1. req[s].pc = "dropBak" /\ req[s].pc \in UpdatePcs /\ req[s].pc \in SwapPcs
  BY DEF UpdateDropBak, At, UpdatePcs, SwapPcs
<1>2. PICK id \in Ids : id = req[s].id
  BY <1>1, AtUpdate
<1>3. /\ Owns(s, id) /\ id < nextId /\ Marked(id) /\ Kept(id)
      /\ TypeOK /\ req[s].ver \in Versions
  BY <1>1, <1>2, AtUpdate
<1>4. live[id] \in Whole
  BY <1>1, <1>2, AtUpdate DEF UpdateSound, At
<1>5. req'[s].pc = "idle" /\ \A o \in Staff \ {s} : req'[o] = req[o]
  BY <1>3, ReplyIs DEF UpdateDropBak
<1>6. /\ UNCHANGED <<row, live, tmp, nextId>> /\ leaked \subseteq leaked'
      /\ faults' >= faults
  BY <1>1, AtUpdate DEF UpdateDropBak, Fault
<1>7. \A i \in Ids \ {id} : bak'[i] = bak[i]
  <2>1. bak \in [Ids -> Contents]
    BY <1>3 DEF TypeOK
  <2> QED
    BY <1>2, <2>1 DEF UpdateDropBak
<1>8. Touches(s, id)
  BY <1>3, <1>5, <1>6, <1>7 DEF Touches, WorkPcs, UpdatePcs, SwapPcs, TypeOK
<1>9. Marked(id)' /\ Kept(id)'
  BY <1>3, <1>4, <1>5, <1>6, <1>7 DEF Kept, Marked, Filed
<1>10. Sound(s)'
  <2>1. UpdateSound(s)'
    BY <1>3, <1>4, <1>5, <1>6, <1>7, <1>9 DEF UpdateSound, At, UpdatePcs, FindPcs, SwapPcs
  <2> QED
    BY <1>5, <2>1, UpdateIsSound DEF UpdatePcs, SwapPcs
<1> QED
  BY <1>3, <1>8, <1>9, <1>10, OneProblem

LEMMA UpdateCleanupKeeps ==
    ASSUME IInv, TypeOK', NEW s \in Staff, UpdateCleanup(s)
    PROVE  IInv'
<1>1. req[s].pc = "cleanup" /\ req[s].pc \in UpdatePcs /\ req[s].pc \in SwapPcs
  BY DEF UpdateCleanup, At, UpdatePcs, SwapPcs
<1>2. PICK id \in Ids : id = req[s].id
  BY <1>1, AtUpdate
<1>3. /\ Owns(s, id) /\ id < nextId /\ Marked(id) /\ Kept(id)
      /\ TypeOK /\ req[s].ver \in Versions
  BY <1>1, <1>2, AtUpdate
<1>5. req'[s].pc = "idle" /\ \A o \in Staff \ {s} : req'[o] = req[o]
  BY <1>3, ReplyIs DEF UpdateCleanup
<1>6. /\ UNCHANGED <<row, live, bak, nextId>> /\ leaked \subseteq leaked'
      /\ faults' >= faults
  BY <1>1, AtUpdate DEF UpdateCleanup, Fault
<1>7. \A i \in Ids \ {id} : tmp'[i] = tmp[i]
  <2>1. tmp \in [Ids -> Contents]
    BY <1>3 DEF TypeOK
  <2> QED
    BY <1>2, <2>1 DEF UpdateCleanup
<1>8. Touches(s, id)
  BY <1>3, <1>5, <1>6, <1>7 DEF Touches, WorkPcs, UpdatePcs, SwapPcs, TypeOK
<1>9. Marked(id)' /\ Kept(id)'
  BY <1>3, <1>5, <1>6, <1>7 DEF Kept, Marked, Filed
<1>10. Sound(s)'
  <2>1. UpdateSound(s)'
    BY <1>3, <1>5, <1>6, <1>7, <1>9 DEF UpdateSound, At, UpdatePcs, FindPcs, SwapPcs
  <2> QED
    BY <1>5, <2>1, UpdateIsSound DEF UpdatePcs, SwapPcs
<1> QED
  BY <1>3, <1>8, <1>9, <1>10, OneProblem

LEMMA UpdateKeeps ==
    ASSUME IInv, TypeOK', ~Overlap, NEW s \in Staff, Update(s)
    PROVE  IInv'
BY UpdateFindKeeps, UpdateTitleKeeps, UpdateMetaKeeps, UpdateTmpKeeps, UpdateBackupKeeps,
   UpdateSwapKeeps, UpdateRestoreKeeps, UpdateDropBakKeeps, UpdateCleanupKeeps DEF Update
-----------------------------------------------------------------------------
(* delete_problem and crashes.                                             *)

LEMMA AtDelete ==
    ASSUME IInv, NEW s \in Staff, req[s].pc \in DeletePcs
    PROVE  /\ req[s].id \in Ids /\ req[s].id < nextId /\ Owns(s, req[s].id)
           /\ Kept(req[s].id) /\ DeleteSound(s) /\ TypeOK /\ faults \in Nat
<1>1. req[s].pc \in WorkPcs
  BY DEF WorkPcs
<1>2. req[s].id \in Ids /\ req[s].id < nextId /\ Owns(s, req[s].id)
  BY <1>1, OwnProblem
<1> QED
  BY <1>2, StoreAssumption DEF IInv, Sound, TypeOK

LEMMA DeleteIsSound ==
    ASSUME NEW s \in Staff, DeleteSound(s)', req'[s].pc \in {"idle"} \cup DeletePcs
    PROVE  Sound(s)'
BY DEF Sound, ImportSound, UpdateSound, At, UpdatePcs, FindPcs, SwapPcs, DeletePcs

LEMMA DeleteFindKeeps ==
    ASSUME IInv, TypeOK', ~Overlap, NEW s \in Staff, NEW id \in Ids, DeleteFind(s, id)
    PROVE  IInv'
<1>1. req \in [Staff -> Requests] /\ faults \in Nat /\ nextId \in Nat
  BY StoreAssumption DEF IInv, TypeOK
<1>2. Owns(s, id) /\ id < nextId /\ Marked(id)
  BY FreeIsOwned DEF DeleteFind
<1>3. /\ req'[s].pc = "deleteRow" /\ req'[s].id = id
      /\ \A o \in Staff \ {s} : req'[o] = req[o]
  BY <1>1 DEF DeleteFind
<1>4. UNCHANGED <<row, live, tmp, bak, nextId, leaked, faults>>
  BY DEF DeleteFind, dirs
<1>5. Touches(s, id)
  BY <1>1, <1>2, <1>3, <1>4 DEF Touches, WorkPcs, DeletePcs
<1>6. DeleteSound(s)'
  BY <1>2, <1>3, <1>4 DEF DeleteSound, At, Marked, Filed
<1>7. Kept(id)'
  BY <1>4 DEF IInv, Kept, Filed
<1> QED
  BY <1>2, <1>3, <1>5, <1>6, <1>7, OneProblem, DeleteIsSound DEF DeletePcs

LEMMA DeleteRowKeeps ==
    ASSUME IInv, TypeOK', NEW s \in Staff, DeleteRow(s)
    PROVE  IInv'
<1>1. req[s].pc = "deleteRow" /\ req[s].pc \in DeletePcs
  BY DEF DeleteRow, At, DeletePcs
<1>2. PICK id \in Ids : id = req[s].id
  BY <1>1, AtDelete
<1>3. Owns(s, id) /\ id < nextId /\ Kept(id) /\ Marked(id) /\ TypeOK
  BY <1>1, <1>2, AtDelete DEF DeleteSound, At
<1>4. UNCHANGED <<live, tmp, bak, nextId, leaked>> /\ faults' >= faults
  BY <1>1, AtDelete DEF DeleteRow, dirs, Fault
<1>5. /\ \A o \in Staff \ {s} : req'[o] = req[o]
      /\ \A i \in Ids \ {id} : row'[i] = row[i]
      /\ \/ ~row'[id].there /\ req'[s].pc = "rmLive" /\ req'[s].id = id
         \/ row'[id] = row[id] /\ req'[s].pc = "idle"
  <2>1. row \in [Ids -> Rows \cup {NoRow}]
    BY <1>3 DEF TypeOK
  <2>2. CASE row' = [row EXCEPT ![req[s].id] = NoRow] /\ GoTo(s, "rmLive")
    <3>1. /\ req'[s].pc = "rmLive" /\ req'[s].id = id
          /\ \A o \in Staff \ {s} : req'[o] = req[o]
      BY <1>1, <1>2, <1>3, <2>2, GoToKeepsId DEF DeletePcs
    <3> QED
      BY <1>2, <2>1, <2>2, <3>1 DEF NoRow
  <2>3. CASE Reply(s) /\ UNCHANGED row
    BY <1>3, <2>3, ReplyIs
  <2> QED
    BY <2>2, <2>3 DEF DeleteRow
<1>6. Touches(s, id)
  BY <1>3, <1>4, <1>5 DEF Touches, WorkPcs, DeletePcs, TypeOK
<1>7. Kept(id)' /\ (req'[s].pc = "idle" => Marked(id)')
  BY <1>3, <1>4, <1>5 DEF Kept, Marked, Filed
<1>8. DeleteSound(s)'
  BY <1>5 DEF DeleteSound, At
<1> QED
  BY <1>3, <1>5, <1>6, <1>7, <1>8, OneProblem, DeleteIsSound DEF DeletePcs

LEMMA DeleteLiveKeeps ==
    ASSUME IInv, TypeOK', NEW s \in Staff, DeleteLive(s)
    PROVE  IInv'
<1>1. req[s].pc = "rmLive" /\ req[s].pc \in DeletePcs
  BY DEF DeleteLive, At, DeletePcs
<1>2. PICK id \in Ids : id = req[s].id
  BY <1>1, AtDelete
<1>3. /\ Owns(s, id) /\ id < nextId /\ ~row[id].there /\ TypeOK
  BY <1>1, <1>2, AtDelete DEF DeleteSound, At
<1>4. UNCHANGED <<row, tmp, bak, nextId>>
  BY DEF DeleteLive
<1>5. /\ req'[s].pc = "rmTmp" /\ req'[s].id = id
      /\ \A o \in Staff \ {s} : req'[o] = req[o]
  BY <1>1, <1>2, <1>3, GoToKeepsId DEF DeleteLive, DeletePcs
<1>6. /\ \A i \in Ids \ {id} : live'[i] = live[i]
      /\ live'[id] = "absent" \/ id \in leaked'
      /\ faults' >= faults /\ leaked \subseteq leaked'
  <2>1. live \in [Ids -> Contents] /\ Removed(live, live', id)
    BY <1>2, <1>3 DEF TypeOK, DeleteLive
  <2> QED
    BY <1>3, <2>1, RemovedTypes
<1>7. Touches(s, id)
  BY <1>3, <1>4, <1>5, <1>6 DEF Touches, TypeOK, WorkPcs, DeletePcs
<1>8. Kept(id)'
  BY <1>3, <1>4, <1>6 DEF Kept, Marked, Clean, Filed
<1>9. DeleteSound(s)'
  BY <1>3, <1>4, <1>5, <1>6 DEF DeleteSound, At
<1> QED
  BY <1>3, <1>5, <1>7, <1>8, <1>9, OneProblem, DeleteIsSound DEF DeletePcs

LEMMA DeleteTmpKeeps ==
    ASSUME IInv, TypeOK', NEW s \in Staff, DeleteTmp(s)
    PROVE  IInv'
<1>1. req[s].pc = "rmTmp" /\ req[s].pc \in DeletePcs
  BY DEF DeleteTmp, At, DeletePcs
<1>2. PICK id \in Ids : id = req[s].id
  BY <1>1, AtDelete
<1>3. /\ Owns(s, id) /\ id < nextId /\ ~row[id].there /\ TypeOK
      /\ live[id] = "absent" \/ id \in leaked
  BY <1>1, <1>2, AtDelete DEF DeleteSound, At
<1>4. UNCHANGED <<row, live, bak, nextId>>
  BY DEF DeleteTmp
<1>5. /\ req'[s].pc = "rmBak" /\ req'[s].id = id
      /\ \A o \in Staff \ {s} : req'[o] = req[o]
  BY <1>1, <1>2, <1>3, GoToKeepsId DEF DeleteTmp, DeletePcs
<1>6. /\ \A i \in Ids \ {id} : tmp'[i] = tmp[i]
      /\ tmp'[id] = "absent" \/ id \in leaked'
      /\ faults' >= faults /\ leaked \subseteq leaked'
  <2>1. tmp \in [Ids -> Contents] /\ Removed(tmp, tmp', id)
    BY <1>2, <1>3 DEF TypeOK, DeleteTmp
  <2> QED
    BY <1>3, <2>1, RemovedTypes
<1>7. Touches(s, id)
  BY <1>3, <1>4, <1>5, <1>6 DEF Touches, TypeOK, WorkPcs, DeletePcs
<1>8. Kept(id)'
  BY <1>3, <1>4, <1>6 DEF Kept, Marked, Clean, Filed
<1>9. DeleteSound(s)'
  BY <1>3, <1>4, <1>5, <1>6 DEF DeleteSound, At
<1> QED
  BY <1>3, <1>5, <1>7, <1>8, <1>9, OneProblem, DeleteIsSound DEF DeletePcs

LEMMA DeleteBakKeeps ==
    ASSUME IInv, TypeOK', NEW s \in Staff, DeleteBak(s)
    PROVE  IInv'
<1>1. req[s].pc = "rmBak" /\ req[s].pc \in DeletePcs
  BY DEF DeleteBak, At, DeletePcs
<1>2. PICK id \in Ids : id = req[s].id
  BY <1>1, AtDelete
<1>3. /\ Owns(s, id) /\ id < nextId /\ ~row[id].there /\ TypeOK
      /\ live[id] = "absent" \/ id \in leaked
      /\ tmp[id] = "absent" \/ id \in leaked
  BY <1>1, <1>2, AtDelete DEF DeleteSound, At
<1>4. UNCHANGED <<row, live, tmp, nextId>>
  BY DEF DeleteBak
<1>5. req'[s].pc = "idle" /\ \A o \in Staff \ {s} : req'[o] = req[o]
  BY <1>3, ReplyIs DEF DeleteBak
<1>6. /\ \A i \in Ids \ {id} : bak'[i] = bak[i]
      /\ bak'[id] = "absent" \/ id \in leaked'
      /\ faults' >= faults /\ leaked \subseteq leaked'
  <2>1. bak \in [Ids -> Contents] /\ Removed(bak, bak', id)
    BY <1>2, <1>3 DEF TypeOK, DeleteBak
  <2> QED
    BY <1>3, <2>1, RemovedTypes
<1>7. Touches(s, id)
  BY <1>3, <1>4, <1>5, <1>6 DEF Touches, TypeOK, WorkPcs, DeletePcs
<1>8. Kept(id)' /\ (Marked(id)' \/ Clean(id)')
  BY <1>3, <1>4, <1>6 DEF Kept, Marked, Clean, Filed
<1>9. DeleteSound(s)'
  BY <1>3, <1>4, <1>5, <1>6 DEF DeleteSound, At
<1> QED
  BY <1>3, <1>5, <1>7, <1>8, <1>9, OneProblem, DeleteIsSound DEF DeletePcs

\* Every request is gone; what one was working on is marked.
LEMMA CrashKeeps ==
    ASSUME IInv, TypeOK', Crash
    PROVE  IInv'
<1>1. \A s \in Staff : req'[s].pc = "idle"
  BY DEF Crash, Idle
<1>2. \A i : ~Active(i)'
  BY <1>1 DEF Active, WorksOn
<1>3. UNCHANGED <<row, live, tmp, bak, nextId>>
  BY DEF Crash, dirs
<1>4. \A s \in Staff : Sound(s)'
  BY <1>1 DEF Sound, ImportSound, UpdateSound, DeleteSound, At, UpdatePcs, FindPcs,
              SwapPcs
<1>5. \A i \in Ids : Kept(i)' /\ Swept(i)'
  BY <1>3 DEF IInv, Kept, Swept, Marked, Clean, Filed, Crash
<1>6. Unused'
  BY <1>2, <1>3 DEF IInv, Unused, Clean
<1>7. Exclusive'
  BY <1>1 DEF Exclusive, WorksOn
<1> QED
  BY <1>4, <1>5, <1>6, <1>7 DEF IInv

LEMMA NextKeeps == ~Overlap /\ IInv /\ [Next]_vars => IInv'
<1> SUFFICES ASSUME ~Overlap, IInv, [Next]_vars PROVE IInv'
  OBVIOUS
<1>0. TypeOK'
  BY NextTypes DEF IInv
<1>1. CASE UNCHANGED vars
  <2>1. \A i : /\ Active(i)' <=> Active(i)
               /\ Kept(i)' <=> Kept(i)
               /\ Swept(i)' <=> Swept(i)
               /\ Clean(i)' <=> Clean(i)
    BY <1>1 DEF vars, dirs, Active, WorksOn, Kept, Swept, Marked, Clean, Filed
  <2>2. \A s : Sound(s)' <=> Sound(s)
    BY <1>1 DEF vars, dirs, Sound, ImportSound, UpdateSound, DeleteSound, At, Marked, Filed
  <2>3. Unused' /\ Exclusive'
    BY <1>1, <2>1 DEF vars, IInv, Unused, Exclusive, WorksOn
  <2> QED
    BY <1>0, <2>1, <2>2, <2>3 DEF IInv
<1>2. ASSUME NEW s \in Staff, Delete(s)
      PROVE  IInv'
  BY <1>0, <1>2, DeleteFindKeeps, DeleteRowKeeps, DeleteLiveKeeps, DeleteTmpKeeps,
     DeleteBakKeeps DEF Delete
<1> QED
  BY <1>0, <1>1, <1>2, ImportKeeps, UpdateKeeps, CrashKeeps DEF Next

LEMMA InitKeeps == Init => IInv
<1> SUFFICES ASSUME Init PROVE IInv
  OBVIOUS
<1>1. TypeOK
  BY StoreAssumption, GroupsAreRequests, ContentsAre DEF Init, TypeOK
<1>2. \A s \in Staff : req[s].pc = "idle"
  BY DEF Init, Idle
<1>3. \A i \in Ids : Clean(i) /\ ~Active(i) /\ ~Filed(i)
  BY <1>2 DEF Init, Clean, Active, WorksOn, Filed, NoRow
<1>4. \A s \in Staff : Sound(s)
  BY <1>2 DEF Sound, ImportSound, UpdateSound, DeleteSound, At, UpdatePcs, FindPcs,
              SwapPcs
<1>5. Exclusive
  BY <1>2 DEF Exclusive, WorksOn
<1> QED
  BY <1>1, <1>3, <1>4, <1>5 DEF IInv, Kept, Swept, Unused
-----------------------------------------------------------------------------
(* The theorems.                                                           *)

\* When no two requests on one problem overlap, every request finds its problem
\* as the step before left it (problem.cpp:258-411).
THEOREM StoreInvariant == ASSUME ~Overlap PROVE Spec => []IInv
<1>1. Init => IInv
  BY InitKeeps
<1>2. IInv /\ [Next]_vars => IInv'
  BY NextKeeps
<1> QED
  BY <1>1, <1>2, PTL DEF Spec

\* However many steps report a failure and however often the process dies, the
\* hidden tests of a finished problem are in its directory or its backup as the
\* last request that succeeded left them (problem.cpp:349-388): a complete set,
\* or one that this request itself took for complete, when no two requests on
\* one problem overlap.
THEOREM TestsAreNeverLost == ASSUME ~Overlap PROVE Spec => []TestsNeverLost
<1>1. IInv => TestsNeverLost
  BY DEF IInv, Kept, TestsNeverLost
<1> QED
  BY <1>1, StoreInvariant, PTL

\* An update that one failing step turns into an error leaves the hidden tests
\* as it found them (problem.cpp:350-387), when no two requests on one problem
\* overlap.
THEOREM FailedUpdatesKeepTests == ASSUME ~Overlap PROVE Spec => []FailedUpdateKeepsTests
<1>1. IInv => FailedUpdateKeepsTests
  BY DEF IInv, Sound, UpdateSound, FailedUpdateKeepsTests
<1> QED
  BY <1>1, StoreInvariant, PTL

\* A failed import or a deletion leaves nothing of a problem, unless a cleanup
\* failed or a crash cut it off (problem.cpp:300-312, 392-411), when no two
\* requests on one problem overlap.
THEOREM NothingIsLeftBehind == ASSUME ~Overlap PROVE Spec => []NothingLeftBehind
<1>1. IInv => NothingLeftBehind
  BY DEF IInv, Swept, Marked, Clean, NothingLeftBehind
<1> QED
  BY <1>1, StoreInvariant, PTL
=============================================================================
