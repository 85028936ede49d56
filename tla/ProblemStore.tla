---------------------------- MODULE ProblemStore ----------------------------
(***************************************************************************)
(* Importing, updating and deleting problems (problem.cpp): a row of the   *)
(* problems table and up to three directories per problem,                 *)
(* <root>/<id>, <root>/<id>.tmp and <root>/<id>.bak.  There is no          *)
(* transaction over the two: each SQL statement and each directory         *)
(* operation is one action, any of them can fail, and the process can die  *)
(* between any two.                                                        *)
(*                                                                         *)
(* A directory is abstracted to the test set it holds: a version is a      *)
(* complete set of <n>.in / <n>.out files, "partial" what a reported error *)
(* or a crash leaves of one, and "flawed" a set that its request takes for *)
(* complete although it is not: write_file looks at the stream before its  *)
(* buffer is flushed, and the errors of removing an old .tmp and of        *)
(* copying the score file are ignored.                                     *)
(***************************************************************************)
EXTENDS Naturals, FiniteSets

CONSTANTS
    Staff,      \* HTTP threads serving staff requests
    Titles,
    Versions,   \* test sets a request can carry
    MaxId,      \* bound on problems.id
    Overlap,    \* may requests on one problem overlap?
    MaxFaults,  \* bound on failing steps
    MaxCrashes  \* bound on process crashes

ASSUME StoreAssumption ==
    /\ Versions \cap {"absent", "partial", "flawed"} = {}
    /\ MaxId \in Nat
    /\ Overlap \in BOOLEAN
    /\ MaxFaults \in Nat
    /\ MaxCrashes \in Nat

VARIABLES
    row,        \* id -> NoRow or the row of the problems table
    live, tmp, bak, \* id -> content of the three directories
    nextId,     \* AUTO_INCREMENT
    req,        \* thread -> the request it serves
    leaked,     \* history: ids whose cleanup failed and was ignored, or that a
                \* request was working on when the process died
    faults, crashes

dirs == <<live, tmp, bak>>
vars == <<row, dirs, nextId, req, leaked, faults, crashes>>

Ids == 1..MaxId
\* What a request takes for the test set it wrote.
Whole == Versions \cup {"flawed"}
Contents == Whole \cup {"absent", "partial"}
NoRow == [there |-> FALSE]

\* The columns that matter here: the title, which stands for the metadata,
\* and whether test_dir has been filled in.
Rows == [there : {TRUE}, title : Titles, filed : BOOLEAN]

\* pc names the next step; was is the test set when an update began.
Idle == [pc |-> "idle"]
Requests ==
    {Idle}
    \cup [pc : {"insert"}, title : Titles, ver : Versions]
    \cup [pc : {"files", "setdir", "undoDir", "undoRow"}, id : Ids, ver : Versions]
    \cup [pc : {"title", "meta"}, id : Ids, title : Titles, ver : Versions,
          replace : BOOLEAN, was : Contents]
    \cup [pc : {"tmp", "backup", "swap", "restore", "dropBak", "cleanup"},
          id : Ids, ver : Versions, was : Contents]
    \cup [pc : {"deleteRow", "rmLive", "rmTmp", "rmBak"}, id : Ids]

Taken(t, id) == \E i \in Ids \ {id} : row[i].there /\ row[i].title = t
WorksOn(s, id) == req[s].pc \notin {"idle", "insert"} /\ req[s].id = id
Active(id) == \E s \in Staff : WorksOn(s, id)

Init ==
    /\ row = [i \in Ids |-> NoRow]
    /\ live = [i \in Ids |-> "absent"]
    /\ tmp = [i \in Ids |-> "absent"]
    /\ bak = [i \in Ids |-> "absent"]
    /\ nextId = 1
    /\ req = [s \in Staff |-> Idle]
    /\ leaked = {} /\ faults = 0 /\ crashes = 0

Fault ==
    /\ faults < MaxFaults
    /\ faults' = faults + 1

At(s, pc) == req[s].pc = pc

GoTo(s, pc) == req' = [req EXCEPT ![s].pc = pc]

\* The request is answered, with success or with an error.
Reply(s) == req' = [req EXCEPT ![s] = Idle]
-----------------------------------------------------------------------------
(* import_problem                                                          *)

\* The title is not in the table yet (otherwise an error changes nothing).
ImportCheck(s, t, v) ==
    /\ At(s, "idle")
    /\ ~Taken(t, 0)
    /\ req' = [req EXCEPT ![s] = [pc |-> "insert", title |-> t, ver |-> v]]
    /\ UNCHANGED <<row, dirs, nextId, leaked, faults, crashes>>

\* Mutant: the result of the INSERT is not looked at.
ImportInsertUnchecked(s) ==
    /\ At(s, "insert") /\ nextId \in Ids
    /\ IF Taken(req[s].title, 0)
       THEN /\ req' = [req EXCEPT ![s] = [pc |-> "files", id |-> 0, ver |-> @.ver]]
            /\ UNCHANGED <<row, nextId>>
       ELSE /\ req' = [req EXCEPT ![s] = [pc |-> "files", id |-> nextId, ver |-> @.ver]]
            /\ row' = [row EXCEPT ![nextId] = [there |-> TRUE, title |-> req[s].title,
                                               filed |-> FALSE]]
            /\ nextId' = nextId + 1
    /\ UNCHANGED <<dirs, leaked, faults, crashes>>

\* INSERT with test_dir = ''; UNIQUE(title) or a failure ends the request.
ImportInsert(s) ==
    /\ At(s, "insert")
    /\ UNCHANGED <<dirs, leaked, crashes>>
    /\ \/ /\ ~Taken(req[s].title, 0) /\ nextId \in Ids
          /\ row' = [row EXCEPT ![nextId] = [there |-> TRUE, title |-> req[s].title,
                                             filed |-> FALSE]]
          /\ nextId' = nextId + 1
          /\ req' = [req EXCEPT ![s] = [pc |-> "files", id |-> nextId, ver |-> req[s].ver]]
          /\ UNCHANGED faults
       \/ /\ Taken(req[s].title, 0) /\ Reply(s)
          /\ UNCHANGED <<row, nextId, faults>>
       \/ /\ Fault /\ Reply(s)
          /\ UNCHANGED <<row, nextId>>

\* The test files are written or copied; a reported failure leaves some of
\* them, and one that goes unnoticed all but one.
ImportFiles(s) ==
    /\ At(s, "files")
    /\ \/ /\ live' = [live EXCEPT ![req[s].id] = req[s].ver]
          /\ GoTo(s, "setdir")
          /\ UNCHANGED faults
       \/ /\ Fault
          /\ \/ /\ live' = [live EXCEPT ![req[s].id] = "partial"]
                /\ GoTo(s, "undoDir")
             \/ /\ live' = [live EXCEPT ![req[s].id] = "flawed"]
                /\ GoTo(s, "setdir")
    /\ UNCHANGED <<row, tmp, bak, nextId, leaked, crashes>>

\* UPDATE test_dir; the problem is now complete.
ImportSetDir(s) ==
    /\ At(s, "setdir")
    /\ \/ /\ row' = IF row[req[s].id].there
                    THEN [row EXCEPT ![req[s].id].filed = TRUE] ELSE row
          /\ Reply(s)
          /\ UNCHANGED faults
       \/ Fault /\ GoTo(s, "undoDir") /\ UNCHANGED row
    /\ UNCHANGED <<dirs, nextId, leaked, crashes>>

\* Mutant: the rollback forgets the row.
ImportUndoDirOnly(s) ==
    /\ At(s, "undoDir")
    /\ live' = [live EXCEPT ![req[s].id] = "absent"]
    /\ Reply(s)
    /\ UNCHANGED <<row, tmp, bak, nextId, leaked, faults, crashes>>

\* Rollback, first half: remove_dir, whose error is ignored.
ImportUndoDir(s) ==
    /\ At(s, "undoDir")
    /\ GoTo(s, "undoRow")
    /\ \/ /\ live' = [live EXCEPT ![req[s].id] = "absent"]
          /\ UNCHANGED <<leaked, faults>>
       \/ /\ Fault
          /\ leaked' = leaked \cup {req[s].id}
          /\ live' = [live EXCEPT ![req[s].id] = "partial"]
    /\ UNCHANGED <<row, tmp, bak, nextId, crashes>>

\* Rollback, second half: DELETE of the row, whose error is ignored.
ImportUndoRow(s) ==
    /\ At(s, "undoRow")
    /\ Reply(s)
    /\ \/ /\ row' = [row EXCEPT ![req[s].id] = NoRow]
          /\ UNCHANGED <<leaked, faults>>
       \/ /\ Fault
          /\ leaked' = leaked \cup {req[s].id}
          /\ UNCHANGED row
    /\ UNCHANGED <<dirs, nextId, crashes>>
-----------------------------------------------------------------------------
(* update_problem                                                          *)

Free(id) == Overlap \/ ~Active(id)

UpdateFind(s, id, t, v, replace) ==
    /\ At(s, "idle") /\ Free(id)
    /\ row[id].there
    /\ req' = [req EXCEPT ![s] = [pc |-> "title", id |-> id, title |-> t, ver |-> v,
                                  replace |-> replace, was |-> live[id]]]
    /\ UNCHANGED <<row, dirs, nextId, leaked, faults, crashes>>

UpdateTitle(s) ==
    /\ At(s, "title")
    /\ IF Taken(req[s].title, req[s].id) THEN Reply(s) ELSE GoTo(s, "meta")
    /\ UNCHANGED <<row, dirs, nextId, leaked, faults, crashes>>

\* The metadata is committed before any file is touched.
UpdateMeta(s) ==
    /\ At(s, "meta")
    /\ \/ /\ ~Taken(req[s].title, req[s].id)
          /\ row' = IF row[req[s].id].there
                    THEN [row EXCEPT ![req[s].id].title = req[s].title]
                    ELSE row
          /\ IF req[s].replace
             THEN req' = [req EXCEPT ![s] = [pc |-> "tmp", id |-> @.id,
                                             ver |-> @.ver, was |-> @.was]]
             ELSE Reply(s)
          /\ UNCHANGED faults
       \/ /\ Taken(req[s].title, req[s].id) /\ Reply(s)
          /\ UNCHANGED <<row, faults>>
       \/ /\ Fault /\ Reply(s)
          /\ UNCHANGED row
    /\ UNCHANGED <<dirs, nextId, leaked, crashes>>

\* An old tmp is removed and the test files are written to a new one.
UpdateTmp(s) ==
    /\ At(s, "tmp")
    /\ \/ /\ tmp' = [tmp EXCEPT ![req[s].id] = req[s].ver]
          /\ GoTo(s, "backup")
          /\ UNCHANGED faults
       \/ /\ Fault
          /\ \/ /\ tmp' = [tmp EXCEPT ![req[s].id] = "partial"]
                /\ GoTo(s, "cleanup")
             \/ /\ tmp' = [tmp EXCEPT ![req[s].id] = "flawed"]
                /\ GoTo(s, "backup")
    /\ UNCHANGED <<row, live, bak, nextId, leaked, crashes>>

\* Mutant: the old tests are removed instead of being renamed.
UpdateRemoveOld(s) ==
    /\ At(s, "backup")
    /\ live' = [live EXCEPT ![req[s].id] = "absent"]
    /\ GoTo(s, "swap")
    /\ UNCHANGED <<row, tmp, bak, nextId, leaked, faults, crashes>>

\* An old backup is removed (its error ignored) and the live directory
\* renamed to it; without a live directory there is nothing to back up.
UpdateBackup(s) ==
    LET id == req[s].id
    IN  /\ At(s, "backup")
        /\ \/ /\ live[id] = "absent"
              /\ GoTo(s, "swap")
              /\ UNCHANGED <<live, bak, faults>>
           \/ /\ live[id] # "absent"
              /\ bak' = [bak EXCEPT ![id] = live[id]]
              /\ live' = [live EXCEPT ![id] = "absent"]
              /\ GoTo(s, "swap")
              /\ UNCHANGED faults
           \/ /\ live[id] # "absent"
              /\ Fault
              /\ \E left \in {"absent", "partial", bak[id]} :
                    bak' = [bak EXCEPT ![id] = left]
              /\ GoTo(s, "cleanup")
              /\ UNCHANGED live
        /\ UNCHANGED <<row, tmp, nextId, leaked, crashes>>

\* rename(tmp, dir) fails when there is no tmp or dir is there again.
UpdateSwap(s) ==
    LET id == req[s].id
    IN  /\ At(s, "swap")
        /\ \/ /\ tmp[id] # "absent" /\ live[id] = "absent"
              /\ live' = [live EXCEPT ![id] = tmp[id]]
              /\ tmp' = [tmp EXCEPT ![id] = "absent"]
              /\ GoTo(s, "dropBak")
              /\ UNCHANGED faults
           \/ /\ IF tmp[id] # "absent" /\ live[id] = "absent"
                 THEN Fault ELSE UNCHANGED faults
              /\ GoTo(s, "restore")
              /\ UNCHANGED <<live, tmp>>
        /\ UNCHANGED <<row, bak, nextId, leaked, crashes>>

\* Mutant: the backup is not restored.
UpdateForgetsRestore(s) ==
    /\ At(s, "restore")
    /\ GoTo(s, "cleanup")
    /\ UNCHANGED <<row, dirs, nextId, leaked, faults, crashes>>

\* The backup is renamed back when there is one; an error is ignored.
UpdateRestore(s) ==
    LET id == req[s].id
    IN  /\ At(s, "restore")
        /\ GoTo(s, "cleanup")
        /\ \/ /\ bak[id] # "absent" /\ live[id] = "absent"
              /\ live' = [live EXCEPT ![id] = bak[id]]
              /\ bak' = [bak EXCEPT ![id] = "absent"]
              /\ UNCHANGED faults
           \/ /\ IF bak[id] # "absent" /\ live[id] = "absent"
                 THEN Fault ELSE UNCHANGED faults
              /\ UNCHANGED <<live, bak>>
        /\ UNCHANGED <<row, tmp, nextId, leaked, crashes>>

\* remove_dir(bak) at the end of a successful update; its error is ignored.
UpdateDropBak(s) ==
    LET id == req[s].id
    IN  /\ At(s, "dropBak")
        /\ Reply(s)
        /\ \/ /\ bak' = [bak EXCEPT ![id] = "absent"]
              /\ UNCHANGED <<leaked, faults>>
           \/ /\ Fault
              /\ leaked' = leaked \cup {id}
              /\ \E left \in {"partial", bak[id]} : bak' = [bak EXCEPT ![id] = left]
        /\ UNCHANGED <<row, live, tmp, nextId, crashes>>

\* catch (...): remove_dir(tmp), then the error answer.
UpdateCleanup(s) ==
    /\ At(s, "cleanup")
    /\ Reply(s)
    /\ \/ /\ tmp' = [tmp EXCEPT ![req[s].id] = "absent"]
          /\ UNCHANGED <<leaked, faults>>
       \/ /\ Fault
          /\ leaked' = leaked \cup {req[s].id}
          /\ UNCHANGED tmp
    /\ UNCHANGED <<row, live, bak, nextId, crashes>>
-----------------------------------------------------------------------------
(* delete_problem                                                          *)

DeleteFind(s, id) ==
    /\ At(s, "idle") /\ Free(id)
    /\ row[id].there
    /\ req' = [req EXCEPT ![s] = [pc |-> "deleteRow", id |-> id]]
    /\ UNCHANGED <<row, dirs, nextId, leaked, faults, crashes>>

DeleteRow(s) ==
    /\ At(s, "deleteRow")
    /\ \/ /\ row' = [row EXCEPT ![req[s].id] = NoRow]
          /\ GoTo(s, "rmLive")
          /\ UNCHANGED faults
       \/ Fault /\ Reply(s) /\ UNCHANGED row
    /\ UNCHANGED <<dirs, nextId, leaked, crashes>>

\* remove_dir, whose error is ignored, takes dir to next.
Removed(dir, next, id) ==
    \/ /\ next = [dir EXCEPT ![id] = "absent"]
       /\ UNCHANGED <<leaked, faults>>
    \/ /\ dir[id] # "absent" /\ Fault
       /\ leaked' = leaked \cup {id}
       /\ \E left \in {"partial", dir[id]} : next = [dir EXCEPT ![id] = left]

DeleteLive(s) ==
    /\ At(s, "rmLive") /\ GoTo(s, "rmTmp")
    /\ Removed(live, live', req[s].id)
    /\ UNCHANGED <<row, tmp, bak, nextId, crashes>>

DeleteTmp(s) ==
    /\ At(s, "rmTmp") /\ GoTo(s, "rmBak")
    /\ Removed(tmp, tmp', req[s].id)
    /\ UNCHANGED <<row, live, bak, nextId, crashes>>

DeleteBak(s) ==
    /\ At(s, "rmBak") /\ Reply(s)
    /\ Removed(bak, bak', req[s].id)
    /\ UNCHANGED <<row, live, tmp, nextId, crashes>>

\* The process dies: the requests are gone, rows and directories stay.
Crash ==
    /\ crashes < MaxCrashes
    /\ crashes' = crashes + 1
    /\ req' = [s \in Staff |-> Idle]
    /\ leaked' = leaked \cup {id \in Ids : Active(id)}
    /\ UNCHANGED <<row, dirs, nextId, faults>>

Import(s) ==
    \/ \E t \in Titles, v \in Versions : ImportCheck(s, t, v)
    \/ ImportInsert(s) \/ ImportFiles(s) \/ ImportSetDir(s)
    \/ ImportUndoDir(s) \/ ImportUndoRow(s)

Update(s) ==
    \/ \E id \in Ids, t \in Titles, v \in Versions, replace \in BOOLEAN :
            UpdateFind(s, id, t, v, replace)
    \/ UpdateTitle(s) \/ UpdateMeta(s) \/ UpdateTmp(s) \/ UpdateBackup(s)
    \/ UpdateSwap(s) \/ UpdateRestore(s) \/ UpdateDropBak(s) \/ UpdateCleanup(s)

Delete(s) ==
    \/ \E id \in Ids : DeleteFind(s, id)
    \/ DeleteRow(s) \/ DeleteLive(s) \/ DeleteTmp(s) \/ DeleteBak(s)

Next == (\E s \in Staff : Import(s) \/ Update(s) \/ Delete(s)) \/ Crash

Spec == Init /\ [][Next]_vars
-----------------------------------------------------------------------------
TypeOK ==
    /\ row \in [Ids -> Rows \cup {NoRow}]
    /\ live \in [Ids -> Contents]
    /\ tmp \in [Ids -> Contents]
    /\ bak \in [Ids -> Contents]
    /\ nextId \in 1..(MaxId + 1)
    /\ req \in [Staff -> Requests]
    /\ leaked \subseteq Ids
    /\ faults \in 0..MaxFaults
    /\ crashes \in 0..MaxCrashes

Filed(id) == row[id].there /\ row[id].filed

\* Whatever step of an import, update or deletion reports a failure and
\* wherever the process dies, the test set of a finished problem is in its
\* directory or in its backup (problem.cpp:357), as the last request that
\* succeeded left it.  That is a complete set, unless the request itself took a
\* flawed one for complete: after a flush that fails unnoticed
\* (problem.cpp:38) an update swaps a cut set in and removes the good backup.
TestsNeverLost ==
    \A id \in Ids : Filed(id) => live[id] \in Whole \/ bak[id] \in Whole

\* An update that a single failing step turns into an error leaves the hidden
\* tests exactly as they were (the restore of problem.cpp:373), unless it
\* found none and brought back the backup of an update that a crash cut off.
FailedUpdateKeepsTests ==
    \A s \in Staff :
        (At(s, "cleanup") /\ req[s].was # "absent" /\ faults <= 1) =>
            live[req[s].id] = req[s].was

\* A failed import is rolled back (SPEC.md:195) and a deletion leaves nothing:
\* a problem without a row, or with one that never got its tests, has no
\* directory and no half-imported row stays, except for a problem whose cleanup
\* failed and was ignored, or that a crash caught in the middle of a request.
NothingLeftBehind ==
    \A id \in Ids :
        ~Filed(id) /\ ~Active(id) /\ id \notin leaked =>
            /\ ~row[id].there
            /\ live[id] = "absent" /\ tmp[id] = "absent" /\ bak[id] = "absent"
=============================================================================
