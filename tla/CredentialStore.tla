-------------------------- MODULE CredentialStore --------------------------
(***************************************************************************)
(* The file that holds the desktop's credential record                     *)
(* (desktop/src/auth/credential-store.mjs): load, save and remove, one at  *)
(* a time, as sequences of file-system calls any of which may fail, with   *)
(* the process killed or the power lost between any two.                   *)
(*                                                                         *)
(* A directory maps the four names the store uses to their contents.  fs   *)
(* is what the process sees.  durable is the same directory as far as file *)
(* contents were flushed, and persisted holds every directory that a loss  *)
(* of power may leave: entries change in order, and all of them are down   *)
(* once the directory is synced.  Windows has no such sync; its entries    *)
(* are taken to be durable at once.                                        *)
(*                                                                         *)
(* On POSIX the temporary file and the backup have names of their own for  *)
(* each save; those an interrupted save left behind are never read.        *)
(***************************************************************************)
EXTENDS Naturals

CONSTANTS
    Values,      \* credential records
    NoRecord,        \* no such file
    Torn,        \* contents that were not flushed, or do not matter
    MaxFaults    \* bound: failed calls, kills and power losses

\* A record is an object, none of the words operations answer with.
ASSUME StoreAssumption ==
    /\ NoRecord \notin Values /\ Torn \notin Values /\ NoRecord # Torn
    /\ Values \cap {"none", "empty", "saved", "removed", "locked"} = {}
    /\ MaxFaults \in Nat

VARIABLES
    windows,     \* platform = "win32"
    fs, durable, persisted,
    op,          \* the operation under way, or "none"
    pc,          \* the file-system call it makes next
    value,       \* the argument of save, NoRecord for remove
    made,        \* backupCreated
    committed,   \* replacementCommitted
    answer,      \* what the last operation returned
    may,         \* history: the records the store may hold
    faults

dirVars == <<fs, durable, persisted>>
localVars == <<value, made, committed>>
vars == <<windows, dirVars, op, pc, localVars, answer, may, faults>>

Names == {"target", "backup", "temp", "tombstone"}
Files == Values \cup {NoRecord, Torn}
Directories == [Names -> Files]

RemovalSteps == {"unlinkBackup", "unlinkTarget", "syncRemoved",
                 "unlinkTombstone", "syncDone"}
RecoverySteps == RemovalSteps \cup {"stat", "recoverReplace"}
SaveSteps == {"write", "flush", "backup", "flushBackup", "commit",
              "syncCommit", "dropBackup", "syncDrop"}
RollbackSteps == {"dropTarget", "restore", "syncRestore", "cleanup"}

TypeOK ==
    /\ windows \in BOOLEAN
    /\ fs \in Directories /\ durable \in Directories
    /\ fs["target"] # Torn
    /\ persisted \subseteq Directories /\ durable \in persisted
    /\ op \in {"none", "load", "save", "remove"}
    /\ pc \in {"idle", "read", "mark", "syncMark"} \cup RecoverySteps
                 \cup SaveSteps \cup RollbackSteps
    /\ value \in Values \cup {NoRecord}
    /\ made \in BOOLEAN /\ committed \in BOOLEAN
    /\ answer \in Values \cup {"none", "empty", "saved", "removed", "locked"}
    /\ may \subseteq Values \cup {NoRecord}
    /\ faults \in 0 .. MaxFaults

Init ==
    /\ windows \in BOOLEAN
    /\ fs = [n \in Names |-> NoRecord]
    /\ durable = fs
    /\ persisted = {fs}
    /\ op = "none"
    /\ pc = "idle"
    /\ value = NoRecord
    /\ made = FALSE
    /\ committed = FALSE
    /\ answer = "none"
    /\ may = {NoRecord}
    /\ faults = 0

-----------------------------------------------------------------------------
\* The file system.

Set(d, n, v) == [d EXCEPT ![n] = v]
Moved(d, from, to) == [d EXCEPT ![to] = d[from], ![from] = NoRecord]

Become(seen, flushed) ==
    /\ fs' = seen
    /\ durable' = flushed
    /\ persisted' = {flushed} \cup (IF windows THEN {} ELSE persisted)

Unlink(n) == Become(Set(fs, n, NoRecord), Set(durable, n, NoRecord))
Rename(from, to) == Become(Moved(fs, from, to), Moved(durable, from, to))
\* New contents, not flushed yet.
Write(n, v) == Become(Set(fs, n, v), Set(durable, n, Torn))
\* handle.sync()
Flush(n) == Become(fs, Set(durable, n, fs[n]))
\* syncDirectory
SyncDirectory ==
    /\ persisted' = {durable}
    /\ UNCHANGED <<fs, durable>>

\* The record a directory stands for: what load would find in it.
Record(d) ==
    IF d["tombstone"] # NoRecord THEN NoRecord
    ELSE IF windows /\ d["target"] = NoRecord THEN d["backup"]
    ELSE d["target"]

-----------------------------------------------------------------------------
\* Operations begin and end.

Begin(o, v, first) ==
    /\ pc = "idle"
    /\ op' = o
    /\ pc' = first
    /\ value' = v
    /\ made' = FALSE /\ committed' = FALSE
    /\ answer' = "none"
    /\ UNCHANGED <<dirVars, faults>>

Load == Begin("load", NoRecord, "stat") /\ UNCHANGED may
Save(v) == Begin("save", v, "stat") /\ may' = may \cup {v}
Remove == Begin("remove", NoRecord, "mark") /\ may' = may \cup {NoRecord}

Return(a) ==
    /\ op' = "none"
    /\ pc' = "idle"
    /\ answer' = a
    /\ UNCHANGED localVars

\* The operation did what it was called for.
Succeed(a) == Return(a) /\ may' = {value} /\ UNCHANGED faults

GoTo(next) ==
    /\ pc' = next
    /\ UNCHANGED <<op, localVars, answer, may, faults>>

-----------------------------------------------------------------------------
\* remove(), and finishPendingRemoval, which load and save begin with.

\* writeRemovalMarker
Mark ==
    \/ pc = "mark" /\ Write("tombstone", Torn) /\ GoTo("syncMark")
    \/ pc = "syncMark" /\ SyncDirectory /\ GoTo("stat")

\* The operation proper, after a removal left unfinished was finished.
Proceed ==
    IF op = "remove" THEN Succeed("removed")
    ELSE IF windows THEN GoTo("recoverReplace")
    ELSE GoTo(IF op = "load" THEN "read" ELSE "write")

\* (mutant) the tombstone goes before the record.
FinishPendingRemovalTombstoneFirst ==
    \/ /\ pc = "stat"
       /\ UNCHANGED dirVars
       /\ IF fs["tombstone"] = NoRecord THEN Proceed
          ELSE GoTo(IF windows THEN "unlinkBackup" ELSE "unlinkTarget")
    \/ pc = "unlinkBackup" /\ Unlink("backup") /\ GoTo("unlinkTarget")
    \/ pc = "unlinkTarget" /\ Unlink("tombstone") /\ GoTo("syncRemoved")
    \/ pc = "syncRemoved" /\ SyncDirectory /\ GoTo("unlinkTombstone")
    \/ pc = "unlinkTombstone" /\ Unlink("target") /\ GoTo("syncDone")
    \/ pc = "syncDone" /\ SyncDirectory /\ Proceed

FinishPendingRemoval ==
    \/ /\ pc = "stat"
       /\ UNCHANGED dirVars
       /\ IF fs["tombstone"] = NoRecord THEN Proceed
          ELSE GoTo(IF windows THEN "unlinkBackup" ELSE "unlinkTarget")
    \/ pc = "unlinkBackup" /\ Unlink("backup") /\ GoTo("unlinkTarget")
    \/ pc = "unlinkTarget" /\ Unlink("target") /\ GoTo("syncRemoved")
    \/ pc = "syncRemoved" /\ SyncDirectory /\ GoTo("unlinkTombstone")
    \/ pc = "unlinkTombstone" /\ Unlink("tombstone") /\ GoTo("syncDone")
    \/ pc = "syncDone" /\ SyncDirectory /\ Proceed

\* recoverWindowsReplace
RecoverWindowsReplace ==
    /\ pc = "recoverReplace"
    /\ \/ fs["backup"] = NoRecord /\ UNCHANGED dirVars
       \/ /\ fs["backup"] # NoRecord /\ fs["target"] # NoRecord
          /\ Unlink("backup")
       \/ /\ fs["backup"] # NoRecord /\ fs["target"] = NoRecord
          /\ Rename("backup", "target")
    /\ GoTo(IF op = "load" THEN "read" ELSE "write")

Read ==
    /\ pc = "read"
    /\ Return(CASE fs["target"] = NoRecord -> "empty"
                [] fs["target"] = Torn -> "locked"
                [] OTHER -> fs["target"])
    /\ UNCHANGED <<dirVars, may, faults>>

-----------------------------------------------------------------------------
\* atomicReplace

WriteTemporary ==
    \/ pc = "write" /\ Write("temp", value) /\ GoTo("flush")
    \/ pc = "flush" /\ Flush("temp") /\ GoTo("backup")

\* The old record is moved aside on Windows, and copied on POSIX.
BackUp ==
    \/ /\ pc = "backup"
       /\ fs["target"] = NoRecord
       /\ UNCHANGED dirVars
       /\ GoTo("commit")
    \/ /\ pc = "backup"
       /\ fs["target"] # NoRecord
       /\ IF windows THEN Rename("target", "backup")
                     ELSE Write("backup", fs["target"])
       /\ made' = TRUE
       /\ pc' = IF windows THEN "commit" ELSE "flushBackup"
       /\ UNCHANGED <<op, value, committed, answer, may, faults>>
    \/ /\ pc = "flushBackup"
       /\ durable' = Set(durable, "backup", fs["backup"])
       /\ persisted' = {durable'}
       /\ UNCHANGED fs
       /\ GoTo("commit")

\* (mutant) the directory is not synced after the rename.
CommitUnsynced ==
    \/ /\ pc = "commit"
       /\ Rename("temp", "target")
       /\ committed' = TRUE
       /\ pc' = IF windows THEN "dropBackup" ELSE "syncCommit"
       /\ UNCHANGED <<op, value, made, answer, may, faults>>
    \/ pc = "syncCommit" /\ UNCHANGED dirVars /\ GoTo("dropBackup")

Commit ==
    \/ /\ pc = "commit"
       /\ Rename("temp", "target")
       /\ committed' = TRUE
       /\ pc' = IF windows THEN "dropBackup" ELSE "syncCommit"
       /\ UNCHANGED <<op, value, made, answer, may, faults>>
    \/ pc = "syncCommit" /\ SyncDirectory /\ GoTo("dropBackup")

DropBackup ==
    \/ /\ pc = "dropBackup"
       /\ ~made
       /\ UNCHANGED dirVars
       /\ Succeed("saved")
    \/ /\ pc = "dropBackup"
       /\ made
       /\ Unlink("backup")
       /\ IF windows THEN Succeed("saved")
          ELSE /\ made' = FALSE
               /\ pc' = "syncDrop"
               /\ UNCHANGED <<op, value, committed, answer, may, faults>>
    \/ pc = "syncDrop" /\ SyncDirectory /\ Succeed("saved")

CleanedUp(d) ==
    IF made /\ ~committed /\ ~windows
    THEN [d EXCEPT !["temp"] = NoRecord, !["backup"] = NoRecord]
    ELSE [d EXCEPT !["temp"] = NoRecord]

\* The catch and finally blocks.
RollBack ==
    \/ /\ pc = "dropTarget"
       /\ Unlink("target") \/ UNCHANGED dirVars
       /\ GoTo("restore")
    \/ /\ pc = "restore"
       /\ Rename("backup", "target")
       /\ made' = FALSE
       /\ pc' = IF windows THEN "cleanup" ELSE "syncRestore"
       /\ UNCHANGED <<op, value, committed, answer, may, faults>>
    \/ pc = "syncRestore" /\ SyncDirectory /\ GoTo("cleanup")
    \/ /\ pc = "cleanup"
       /\ Become(CleanedUp(fs), CleanedUp(durable))
       /\ Return("locked")
       /\ UNCHANGED <<may, faults>>

-----------------------------------------------------------------------------
\* A call fails.

Fault == faults < MaxFaults /\ faults' = faults + 1

Fails(next) ==
    /\ Fault
    /\ pc' = next
    /\ UNCHANGED <<op, localVars, answer, may>>

\* Inside atomicReplace.
SaveFails ==
    /\ pc \in SaveSteps
    /\ UNCHANGED dirVars
    /\ Fails(IF made /\ committed /\ windows THEN "dropTarget"
             ELSE IF made /\ (committed \/ windows) THEN "restore"
             ELSE "cleanup")

\* In the catch block: the backup is kept.
RollBackFails ==
    /\ pc \in {"restore", "syncRestore"}
    /\ UNCHANGED dirVars
    /\ Fails("cleanup")

\* Anywhere else the operation gives up; what it has done stays.
RecoveryFails ==
    /\ pc \in RecoverySteps \cup {"mark", "syncMark", "read"}
    /\ Fault
    /\ Return("locked")
    /\ UNCHANGED <<dirVars, may>>

\* The process is gone, and with it the operation under way.
Stop ==
    /\ Fault
    /\ op' = "none"
    /\ pc' = "idle"
    /\ value' = NoRecord
    /\ made' = FALSE /\ committed' = FALSE
    /\ answer' = "none"
    /\ UNCHANGED may

Kill == pc # "idle" /\ Stop /\ UNCHANGED dirVars

PowerLoss ==
    /\ Stop
    /\ \E p \in persisted :
          /\ fs' = p
          /\ durable' = p
          /\ persisted' = {p}

-----------------------------------------------------------------------------

CallStep ==
    Mark \/ FinishPendingRemoval \/ RecoverWindowsReplace \/ Read
        \/ WriteTemporary \/ BackUp \/ Commit \/ DropBackup \/ RollBack

FaultStep == SaveFails \/ RollBackFails \/ RecoveryFails \/ Kill \/ PowerLoss

Next ==
    /\ \/ Load \/ (\E v \in Values : Save(v)) \/ Remove
       \/ CallStep
       \/ FaultStep
    /\ UNCHANGED windows

Spec == Init /\ [][Next]_vars

-----------------------------------------------------------------------------
\* Properties.

\* Whatever failed, was killed or lost power at whatever call, the store holds
\* a record it may hold: the last one it reported saved or removed, or one
\* whose save or removal was cut short after that.  A record is never lost or
\* torn by being replaced, a removed one never comes back, and what was
\* reported is durable (save, remove, atomicReplace, finishPendingRemoval).
RecordKnown == \A d \in persisted \cup {fs} : Record(d) \in may

\* Finishing a removal or a replacement that was cut short, which every load
\* and save begins with, does not change the record, and a load that nothing
\* interrupts answers what it was: once its tombstone is down, a record does
\* not come back (finishPendingRemoval, recoverWindowsReplace, load).
RecoveryNeutral ==
    [][/\ pc \in RecoverySteps \cup {"read"}
       /\ op' = op \/ answer' # "none"
       => /\ Record(fs') = Record(fs)
          /\ answer' \in Values => answer' = Record(fs)
          /\ answer' = "empty" => Record(fs) = NoRecord]_vars

=============================================================================
