----------------------- MODULE CredentialStore_proofs -----------------------
(***************************************************************************)
(* Proofs about CredentialStore, for any records and any number of         *)
(* failures, kills and power losses, on either platform.                   *)
(***************************************************************************)
EXTENDS CredentialStore, TLAPS

-----------------------------------------------------------------------------
\* The inductive invariant.

\* What is flushed is what the process sees, or nothing that can be read.
FlushedAgrees ==
    /\ \A n \in Names :
          durable[n] = fs[n] \/ (durable[n] = Torn /\ fs[n] # NoRecord)
    /\ durable["target"] = fs["target"]
    /\ windows => durable["backup"] = fs["backup"]

\* No directory has a torn record where load would look for one.
NeverTorn ==
    \A d \in persisted \cup {fs} :
        d["target"] # Torn /\ (windows => d["backup"] # Torn)

\* The operation under way and its argument fit the call it makes next.
CallFits ==
    /\ pc # "idle" => op # "none"
    /\ op = "load" => value = NoRecord
    /\ op = "save" => value \in Values /\ value \in may
    /\ op = "remove" => value = NoRecord /\ NoRecord \in may
    /\ pc \in SaveSteps \cup RollbackSteps => op = "save"
    /\ pc = "read" => op = "load"
    /\ pc \in {"mark", "syncMark"} => op = "remove"
    /\ pc = "recoverReplace" => windows /\ op \in {"load", "save"}
    /\ pc = "unlinkBackup" => windows

\* A removal deletes under its tombstone, and the tombstone goes last.
UnderTombstone ==
    /\ pc \in {"syncMark", "unlinkBackup", "unlinkTarget", "syncRemoved",
               "unlinkTombstone"}
          => fs["tombstone"] # NoRecord
    /\ pc = "stat" /\ op = "remove" => fs["tombstone"] # NoRecord
    /\ windows /\ pc \in {"unlinkTarget", "syncRemoved", "unlinkTombstone",
                          "syncDone"}
          => fs["backup"] = NoRecord
    /\ pc \in {"syncRemoved", "unlinkTombstone", "syncDone"}
          => fs["target"] = NoRecord
    /\ pc \in {"unlinkTombstone", "syncDone"}
          => \A d \in persisted : Record(d) = NoRecord
    /\ pc \in {"syncDone", "recoverReplace", "read"} \cup SaveSteps
                 \cup RollbackSteps
          => fs["tombstone"] = NoRecord

\* A replacement writes and flushes its record before it gives it the name.
NewRecordWritten ==
    /\ windows /\ pc \in {"read", "write", "flush", "backup"}
          => fs["backup"] = NoRecord
    /\ pc \in {"flush", "backup", "flushBackup", "commit"} => fs["temp"] = value
    /\ pc \in {"backup", "flushBackup", "commit"} => durable["temp"] = value
    /\ pc \in {"syncCommit", "dropBackup", "syncDrop"} => fs["target"] = value
    /\ pc \in {"dropBackup", "syncDrop"}
          => \A d \in persisted : Record(d) = value
    /\ pc \in {"flushBackup", "syncCommit", "syncDrop", "syncRestore"}
          => ~windows
    /\ windows /\ pc = "commit"
          => fs["target"] = NoRecord /\ (made \/ fs["backup"] = NoRecord)

\* While a replacement may still be undone, the old record is at hand.
OldRecordAtHand ==
    /\ pc \in {"mark", "syncMark", "write", "flush", "backup"} \cup RecoverySteps
          => ~made /\ ~committed
    /\ pc \in {"flushBackup", "commit"} => ~committed
    /\ pc \in {"syncCommit", "dropBackup", "syncDrop"} => committed
    /\ pc \in {"restore", "dropTarget"} => made
    /\ pc = "dropTarget" => windows
    /\ pc = "syncDrop" => ~made
    /\ pc = "flushBackup" => made
    /\ made /\ pc \in {"flushBackup", "commit", "syncCommit", "dropBackup",
                       "dropTarget", "restore"}
          => fs["backup"] \in may \cap Values
    /\ made /\ pc \in {"commit", "syncCommit", "dropBackup", "dropTarget",
                       "restore"}
          => durable["backup"] = fs["backup"]

StoreInv ==
    /\ TypeOK
    /\ RecordKnown
    /\ FlushedAgrees
    /\ NeverTorn
    /\ CallFits
    /\ UnderTombstone
    /\ NewRecordWritten
    /\ OldRecordAtHand

-----------------------------------------------------------------------------
\* Directories.

Steps == {"idle", "read", "mark", "syncMark"} \cup RecoverySteps
            \cup SaveSteps \cup RollbackSteps

\* The variables of the operation under way have their types.
LocalsOK ==
    /\ op \in {"none", "load", "save", "remove"}
    /\ pc \in Steps
    /\ value \in Values \cup {NoRecord}
    /\ made \in BOOLEAN /\ committed \in BOOLEAN
    /\ answer \in Values \cup {"none", "empty", "saved", "removed", "locked"}
    /\ may \subseteq Values \cup {NoRecord}
    /\ faults \in 0 .. MaxFaults

\* What is to be shown of the directories after a step.
DirectoriesOK ==
    /\ windows \in BOOLEAN
    /\ fs \in Directories /\ durable \in Directories
    /\ fs["target"] # Torn
    /\ persisted \subseteq Directories /\ durable \in persisted
    /\ RecordKnown
    /\ FlushedAgrees
    /\ NeverTorn

\* ... and of the operation.
OperationOK ==
    CallFits /\ UnderTombstone /\ NewRecordWritten /\ OldRecordAtHand

\* The parts make up the invariant.
LEMMA StoreInvParts == LocalsOK' /\ DirectoriesOK' /\ OperationOK' => StoreInv'
  BY DEF StoreInv, LocalsOK, DirectoriesOK, OperationOK, TypeOK, Steps

\* The record of a directory depends on three names only.
LEMMA SameRecord ==
  ASSUME NEW d, NEW e, d["tombstone"] = NoRecord <=> e["tombstone"] = NoRecord,
         d["target"] = e["target"], windows => d["backup"] = e["backup"]
  PROVE  Record(d) = Record(e)
  BY DEF Record

\* A loss of power cannot tell what is flushed from what the process sees.
LEMMA FlushedRecord ==
  ASSUME FlushedAgrees, NoRecord # Torn PROVE Record(durable) = Record(fs)
  <1>1. durable["tombstone"] = NoRecord <=> fs["tombstone"] = NoRecord
    BY DEF FlushedAgrees, Names
  <1> QED
    BY <1>1, SameRecord DEF FlushedAgrees

\* A step that adds at most the flushed directory to those that a loss of
\* power may leave keeps the directories in order.
LEMMA DirectoriesKeep ==
  ASSUME StoreInv, windows' = windows, may \subseteq may',
         fs' \in Directories, durable' \in Directories,
         durable' \in persisted', persisted' \subseteq persisted \cup {durable'},
         FlushedAgrees', fs'["target"] # Torn, windows => fs'["backup"] # Torn,
         Record(fs)' \in may'
  PROVE  DirectoriesOK'
  <1>1. Record(durable)' = Record(fs)'
    BY FlushedRecord, StoreAssumption DEF StoreAssumption, FlushedAgrees,
       Record, Names
  <1>2. \A d \in persisted : Record(d)' \in may'
    BY DEF StoreInv, RecordKnown, Record
  <1>3. RecordKnown'
    BY <1>1, <1>2 DEF RecordKnown
  <1>4. NeverTorn'
    BY DEF StoreInv, NeverTorn, FlushedAgrees
  <1> QED
    BY <1>3, <1>4 DEF StoreInv, TypeOK, DirectoriesOK

\* What one call of the file system does to the two directories.
Changed(n, seen, flushed) ==
    /\ fs' \in Directories /\ durable' \in Directories
    /\ fs'[n] = seen /\ durable'[n] = flushed
    /\ \A m \in Names \ {n} : fs'[m] = fs[m] /\ durable'[m] = durable[m]
    /\ durable' \in persisted' /\ persisted' \subseteq persisted \cup {durable'}
    /\ windows => persisted' = {durable'}

\* unlink
LEMMA UnlinkChanges ==
  ASSUME StoreInv, NEW n \in Names, Unlink(n)
  PROVE  Changed(n, NoRecord, NoRecord)
  BY DEF StoreInv, TypeOK, Unlink, Become, Set, Directories, Files, Changed

\* open and write, before the contents are flushed
LEMMA WriteChanges ==
  ASSUME StoreInv, NEW n \in Names, NEW v \in Files, Write(n, v)
  PROVE  Changed(n, v, Torn)
  BY DEF StoreInv, TypeOK, Write, Become, Set, Directories, Files, Changed

\* handle.sync()
LEMMA FlushChanges ==
  ASSUME StoreInv, NEW n \in Names, Flush(n)
  PROVE  Changed(n, fs[n], fs[n])
  BY DEF StoreInv, TypeOK, Flush, Become, Set, Directories, Files, Changed

\* A renamed file has its new name only.
LEMMA RenameChanges ==
  ASSUME StoreInv, NEW from \in Names, NEW to \in Names \ {from},
         Rename(from, to)
  PROVE  /\ fs' \in Directories /\ durable' \in Directories
         /\ fs'[to] = fs[from] /\ durable'[to] = durable[from]
         /\ fs'[from] = NoRecord /\ durable'[from] = NoRecord
         /\ \A m \in Names \ {from, to} :
               fs'[m] = fs[m] /\ durable'[m] = durable[m]
         /\ durable' \in persisted' /\ persisted' \subseteq persisted \cup {durable'}
         /\ windows => persisted' = {durable'}
  BY DEF StoreInv, TypeOK, Rename, Become, Moved, Directories, Files

\* A call that changes one name other than the three a record depends on, or
\* changes it without changing the record.
LEMMA ChangeKeeps ==
  ASSUME StoreInv, windows' = windows, may \subseteq may',
         NEW n \in Names, NEW seen, NEW flushed, Changed(n, seen, flushed),
         flushed = seen \/ (flushed = Torn /\ seen # NoRecord),
         n = "target" => flushed = seen /\ seen # Torn,
         windows /\ n = "backup" => flushed = seen /\ seen # Torn,
         Record(fs)' \in may'
  PROVE  DirectoriesOK'
  <1>1. FlushedAgrees'
    BY DEF StoreInv, FlushedAgrees, Changed, Names
  <1>2. fs'["target"] # Torn /\ (windows => fs'["backup"] # Torn)
    BY DEF StoreInv, NeverTorn, Changed, Names
  <1> QED
    BY <1>1, <1>2, DirectoriesKeep DEF Changed

\* A step that leaves the directory alone, or only syncs it.
LEMMA SyncKeeps ==
  ASSUME StoreInv, windows' = windows, may \subseteq may',
         UNCHANGED dirVars \/ SyncDirectory
  PROVE  DirectoriesOK'
  <1>1. /\ UNCHANGED <<fs, durable>>
        /\ durable' \in persisted' /\ persisted' \subseteq persisted \cup {durable'}
    BY DEF dirVars, SyncDirectory, StoreInv, TypeOK
  <1>2. FlushedAgrees'
    BY <1>1 DEF StoreInv, FlushedAgrees
  <1>3. /\ fs'["target"] # Torn /\ (windows => fs'["backup"] # Torn)
        /\ fs' \in Directories /\ durable' \in Directories
    BY <1>1 DEF StoreInv, NeverTorn, TypeOK
  <1>4. Record(fs)' \in may'
    BY <1>1 DEF StoreInv, RecordKnown, Record
  <1> QED
    BY <1>1, <1>2, <1>3, <1>4, DirectoriesKeep

\* Going on to the next call leaves the operation as it was.
LEMMA GoToLocals ==
  ASSUME StoreInv, NEW next \in Steps, GoTo(next)
  PROVE  /\ LocalsOK'
         /\ pc' = next /\ may' = may
         /\ UNCHANGED <<op, value, made, committed>>
  BY DEF StoreInv, TypeOK, LocalsOK, GoTo, localVars

-----------------------------------------------------------------------------
\* Operations begin.

\* load, save and remove begin without touching the directory.
LEMMA BeginKeeps ==
  ASSUME StoreInv, windows' = windows,
         Load \/ (\E v \in Values : Save(v)) \/ Remove
  PROVE  StoreInv'
  <1>1. UNCHANGED dirVars /\ may \subseteq may' /\ UNCHANGED faults
    BY DEF Load, Save, Remove, Begin
  <1>2. DirectoriesOK'
    BY <1>1, SyncKeeps
  <1>3. LocalsOK'
    BY DEF StoreInv, TypeOK, LocalsOK, Steps, RecoverySteps, Load, Save,
           Remove, Begin
  <1>4. CallFits'
    BY DEF CallFits, Load, Save, Remove, Begin, SaveSteps, RollbackSteps
  <1>5. UnderTombstone' /\ NewRecordWritten' /\ OldRecordAtHand'
    BY DEF UnderTombstone, NewRecordWritten, OldRecordAtHand, Load, Save,
           Remove, Begin, SaveSteps, RollbackSteps, RecoverySteps, RemovalSteps
  <1> QED
    BY <1>2, <1>3, <1>4, <1>5, StoreInvParts DEF OperationOK

\* The removal marker.
LEMMA MarkKeeps ==
  ASSUME StoreInv, windows' = windows, Mark
  PROVE  StoreInv'
  <1>1. CASE pc = "mark" /\ Write("tombstone", Torn) /\ GoTo("syncMark")
    <2>1. Changed("tombstone", Torn, Torn)
      BY <1>1, WriteChanges DEF Names, Files
    <2>2. fs'["tombstone"] # NoRecord /\ Record(fs)' = NoRecord
      BY <2>1, StoreAssumption DEF StoreAssumption, Changed, Record
    <2>3. NoRecord \in may' /\ UNCHANGED <<op, localVars, answer, may, faults>>
      BY <1>1 DEF StoreInv, CallFits, GoTo
    <2>4. DirectoriesOK'
      BY <2>1, <2>2, <2>3, StoreAssumption, ChangeKeeps
         DEF StoreAssumption, Names
    <2>5. LocalsOK'
      BY <1>1, GoToLocals DEF Steps
    <2>6. OperationOK'
      BY <1>1, <2>2, <2>3 DEF StoreInv, OperationOK, CallFits, UnderTombstone,
         NewRecordWritten, OldRecordAtHand, GoTo, SaveSteps, RollbackSteps,
         RecoverySteps, RemovalSteps, localVars
    <2> QED
      BY <2>4, <2>5, <2>6, StoreInvParts
  <1>2. CASE pc = "syncMark" /\ SyncDirectory /\ GoTo("stat")
    <2>1. fs' = fs /\ UNCHANGED <<op, localVars, answer, may, faults>>
      BY <1>2 DEF SyncDirectory, GoTo
    <2>2. DirectoriesOK'
      BY <1>2, <2>1, SyncKeeps
    <2>3. LocalsOK'
      BY <1>2, GoToLocals DEF Steps, RecoverySteps
    <2>4. OperationOK'
      BY <1>2, <2>1 DEF StoreInv, OperationOK, CallFits, UnderTombstone,
         NewRecordWritten, OldRecordAtHand, GoTo, SaveSteps, RollbackSteps,
         RecoverySteps, RemovalSteps, localVars
    <2> QED
      BY <2>2, <2>3, <2>4, StoreInvParts
  <1> QED
    BY <1>1, <1>2 DEF Mark

-----------------------------------------------------------------------------
\* finishPendingRemoval

\* Ending an operation with an answer.
LEMMA ReturnLocals ==
  ASSUME StoreInv, NEW a \in Values \cup {"none", "empty", "saved", "removed",
                                          "locked"},
         Return(a), may' \subseteq Values \cup {NoRecord},
         faults' \in 0 .. MaxFaults
  PROVE  LocalsOK' /\ OperationOK'
  <1>1. op' = "none" /\ pc' = "idle" /\ UNCHANGED <<value, made, committed>>
    BY DEF Return, localVars
  <1>2. LocalsOK'
    BY <1>1 DEF Return, StoreInv, TypeOK, LocalsOK, Steps
  <1>3. CallFits'
    BY <1>1 DEF CallFits, SaveSteps, RollbackSteps
  <1>4. UnderTombstone' /\ NewRecordWritten' /\ OldRecordAtHand'
    BY <1>1 DEF UnderTombstone, NewRecordWritten, OldRecordAtHand, SaveSteps,
                RollbackSteps, RecoverySteps, RemovalSteps
  <1> QED
    BY <1>2, <1>3, <1>4 DEF OperationOK

\* An operation that succeeds leaves its argument as the one possible record.
LEMMA SucceedKeeps ==
  ASSUME StoreInv, NEW a \in {"saved", "removed"}, Succeed(a), windows' = windows,
         fs' \in Directories, durable' \in Directories,
         durable' \in persisted', persisted' \subseteq persisted \cup {durable'},
         FlushedAgrees', fs'["target"] # Torn, windows => fs'["backup"] # Torn,
         \A d \in persisted' \cup {fs'} : Record(d) = value
  PROVE  StoreInv'
  <1>1. Return(a) /\ may' = {value} /\ faults' = faults
    BY DEF Succeed
  <1>2. LocalsOK' /\ OperationOK'
    <2>1. value \in Values \cup {NoRecord} /\ faults' \in 0 .. MaxFaults
      BY <1>1 DEF StoreInv, TypeOK
    <2> QED
      BY <1>1, <2>1, ReturnLocals
  <1>3. RecordKnown'
    BY <1>1 DEF RecordKnown, Record
  <1>4. NeverTorn'
    BY DEF StoreInv, NeverTorn, FlushedAgrees
  <1>5. DirectoriesOK'
    BY <1>3, <1>4 DEF StoreInv, TypeOK, DirectoriesOK
  <1> QED
    BY <1>2, <1>5, StoreInvParts

\* The operation proper begins on a directory without a tombstone.
LEMMA ProceedKeeps ==
  ASSUME StoreInv, windows' = windows, Proceed,
         UNCHANGED dirVars \/ SyncDirectory,
         fs["tombstone"] = NoRecord,
         op \in {"load", "save", "remove"},
         op = "remove" => \A d \in persisted \cup {fs} : Record(d) = NoRecord,
         ~made, ~committed
  PROVE  StoreInv'
  <1>1. /\ UNCHANGED <<fs, durable>>
        /\ durable' \in persisted' /\ persisted' \subseteq persisted \cup {durable'}
    BY DEF dirVars, SyncDirectory, StoreInv, TypeOK
  <1>2. CASE op = "remove"
    <2>1. Succeed("removed") /\ value = NoRecord
      BY <1>2 DEF Proceed, StoreInv, CallFits
    <2>2. FlushedAgrees' /\ fs'["target"] # Torn /\ (windows => fs'["backup"] # Torn)
      BY <1>1 DEF StoreInv, FlushedAgrees, NeverTorn
    <2>3. \A d \in persisted' \cup {fs'} : Record(d) = value
      BY <1>1, <1>2, <2>1 DEF StoreInv, TypeOK
    <2> QED
      BY <1>1, <2>1, <2>2, <2>3, SucceedKeeps DEF StoreInv, TypeOK
  <1>3. ASSUME NEW next \in {"read", "write", "recoverReplace"}, GoTo(next),
               op # "remove",
               next = "recoverReplace" <=> windows,
               next = "read" => op = "load", next = "write" => op = "save"
        PROVE  StoreInv'
    <2>1. LocalsOK' /\ pc' = next /\ may' = may /\ UNCHANGED <<op, value, made, committed>>
      BY <1>3, GoToLocals DEF Steps, RecoverySteps, SaveSteps
    <2>2. DirectoriesOK'
      BY <2>1, SyncKeeps
    <2>3. CallFits' /\ UnderTombstone' /\ NewRecordWritten'
      BY <1>1, <1>3, <2>1 DEF StoreInv, CallFits, UnderTombstone, NewRecordWritten,
         SaveSteps, RollbackSteps
    <2>4. OldRecordAtHand'
      BY <1>3, <2>1 DEF OldRecordAtHand
    <2> QED
      BY <2>1, <2>2, <2>3, <2>4, StoreInvParts DEF OperationOK
  <1> QED
    BY <1>2, <1>3 DEF Proceed, StoreInv, TypeOK

\* One call of a removal, or of the recovery that finishes one.
LEMMA RemovalCallKeeps ==
  ASSUME StoreInv, windows' = windows,
         \/ /\ pc = "stat" /\ fs["tombstone"] # NoRecord /\ UNCHANGED dirVars
            /\ GoTo(IF windows THEN "unlinkBackup" ELSE "unlinkTarget")
         \/ pc = "unlinkBackup" /\ Unlink("backup") /\ GoTo("unlinkTarget")
         \/ pc = "unlinkTarget" /\ Unlink("target") /\ GoTo("syncRemoved")
         \/ pc = "syncRemoved" /\ SyncDirectory /\ GoTo("unlinkTombstone")
         \/ pc = "unlinkTombstone" /\ Unlink("tombstone") /\ GoTo("syncDone")
  PROVE  StoreInv' /\ Record(fs)' = Record(fs)
  <1>1. /\ LocalsOK' /\ pc' \in RemovalSteps
        /\ UNCHANGED <<op, value, made, committed, may>>
    BY GoToLocals DEF Steps, RecoverySteps, RemovalSteps
  <1>2. ~made /\ ~committed /\ pc \in RecoverySteps
    BY DEF StoreInv, OldRecordAtHand, RecoverySteps, RemovalSteps
  <1>3. OldRecordAtHand' /\ NewRecordWritten'
    BY <1>1, <1>2 DEF OldRecordAtHand, NewRecordWritten, RemovalSteps
  <1>4. CASE /\ pc = "stat" /\ fs["tombstone"] # NoRecord /\ UNCHANGED dirVars
             /\ GoTo(IF windows THEN "unlinkBackup" ELSE "unlinkTarget")
    <2>1. DirectoriesOK' /\ fs' = fs
      BY <1>1, <1>4, SyncKeeps DEF dirVars
    <2>2. CallFits' /\ UnderTombstone'
      BY <1>1, <1>4, <2>1 DEF StoreInv, CallFits, UnderTombstone, GoTo, SaveSteps,
         RollbackSteps
    <2> QED
      BY <1>1, <1>3, <2>1, <2>2, StoreInvParts DEF OperationOK, Record
  <1>5. CASE pc = "unlinkBackup" /\ Unlink("backup") /\ GoTo("unlinkTarget")
    <2>1. Changed("backup", NoRecord, NoRecord)
      BY <1>5, UnlinkChanges DEF Names
    <2>2. /\ fs["tombstone"] # NoRecord /\ fs'["tombstone"] # NoRecord
          /\ fs'["backup"] = NoRecord
      BY <1>5, <2>1 DEF StoreInv, UnderTombstone, Changed, Names
    <2>3. Record(fs)' = NoRecord /\ Record(fs) = NoRecord
      BY <2>2 DEF Record
    <2>4. NoRecord \in may'
      BY <1>1, <2>3 DEF StoreInv, RecordKnown
    <2>5. DirectoriesOK'
      BY <1>1, <2>1, <2>3, <2>4, ChangeKeeps, StoreAssumption
         DEF Names, StoreAssumption
    <2>6. CallFits' /\ UnderTombstone'
      BY <1>1, <1>5, <2>2 DEF StoreInv, CallFits, UnderTombstone, GoTo, SaveSteps,
         RollbackSteps
    <2> QED
      BY <1>1, <1>3, <2>3, <2>5, <2>6, StoreInvParts DEF OperationOK
  <1>6. CASE pc = "unlinkTarget" /\ Unlink("target") /\ GoTo("syncRemoved")
    <2>1. Changed("target", NoRecord, NoRecord)
      BY <1>6, UnlinkChanges DEF Names
    <2>2. /\ fs["tombstone"] # NoRecord /\ fs'["tombstone"] # NoRecord
          /\ fs'["target"] = NoRecord /\ fs'["backup"] = fs["backup"]
      BY <1>6, <2>1 DEF StoreInv, UnderTombstone, Changed, Names
    <2>3. Record(fs)' = NoRecord /\ Record(fs) = NoRecord
      BY <2>2 DEF Record
    <2>4. NoRecord \in may'
      BY <1>1, <2>3 DEF StoreInv, RecordKnown
    <2>5. DirectoriesOK'
      BY <1>1, <2>1, <2>3, <2>4, ChangeKeeps, StoreAssumption
         DEF Names, StoreAssumption
    <2>6. CallFits' /\ UnderTombstone'
      BY <1>1, <1>6, <2>2 DEF StoreInv, CallFits, UnderTombstone, GoTo, SaveSteps,
         RollbackSteps
    <2> QED
      BY <1>1, <1>3, <2>3, <2>5, <2>6, StoreInvParts DEF OperationOK
  <1>7. CASE pc = "syncRemoved" /\ SyncDirectory /\ GoTo("unlinkTombstone")
    <2>1. fs' = fs /\ persisted' = {durable}
      BY <1>7 DEF SyncDirectory
    <2>2. DirectoriesOK'
      BY <1>1, <1>7, SyncKeeps
    <2>3. Record(fs) = NoRecord
      BY <1>7 DEF StoreInv, UnderTombstone, Record
    <2>4. Record(durable) = NoRecord
      BY <2>3, FlushedRecord, StoreAssumption DEF StoreInv, StoreAssumption
    <2>5. CallFits' /\ UnderTombstone'
      BY <1>1, <1>7, <2>1, <2>4 DEF StoreInv, CallFits, UnderTombstone, GoTo,
         SaveSteps, RollbackSteps, Record
    <2> QED
      BY <1>1, <1>3, <2>1, <2>2, <2>5, StoreInvParts DEF OperationOK, Record
  <1>8. CASE pc = "unlinkTombstone" /\ Unlink("tombstone") /\ GoTo("syncDone")
    <2>1. Changed("tombstone", NoRecord, NoRecord)
      BY <1>8, UnlinkChanges DEF Names
    <2>2. /\ fs["tombstone"] # NoRecord
          /\ fs["target"] = NoRecord /\ (windows => fs["backup"] = NoRecord)
          /\ \A d \in persisted : Record(d) = NoRecord
      BY <1>8 DEF StoreInv, UnderTombstone
    <2>3. /\ fs'["tombstone"] = NoRecord /\ fs'["target"] = NoRecord
          /\ (windows => fs'["backup"] = NoRecord)
          /\ durable'["tombstone"] = NoRecord /\ durable'["target"] = NoRecord
          /\ (windows => durable'["backup"] = NoRecord)
      BY <2>1, <2>2 DEF StoreInv, FlushedAgrees, Changed, Names
    <2>4. Record(fs)' = NoRecord /\ Record(fs) = NoRecord /\ Record(durable') = NoRecord
      BY <2>2, <2>3 DEF Record
    <2>5. NoRecord \in may'
      BY <1>1, <2>4 DEF StoreInv, RecordKnown
    <2>6. DirectoriesOK'
      BY <1>1, <2>1, <2>4, <2>5, ChangeKeeps, StoreAssumption
         DEF Names, StoreAssumption
    <2>7. \A d \in persisted' : Record(d)' = NoRecord
      BY <2>1, <2>2, <2>4 DEF Changed, Record
    <2>8. CallFits' /\ UnderTombstone'
      BY <1>1, <1>8, <2>3, <2>7 DEF StoreInv, CallFits, UnderTombstone, GoTo,
         SaveSteps, RollbackSteps
    <2> QED
      BY <1>1, <1>3, <2>4, <2>6, <2>8, StoreInvParts DEF OperationOK
  <1> QED
    BY <1>4, <1>5, <1>6, <1>7, <1>8

\* Finishing a removal keeps the invariant and the record.
LEMMA FinishPendingRemovalKeeps ==
  ASSUME StoreInv, windows' = windows, FinishPendingRemoval
  PROVE  StoreInv' /\ Record(fs)' = Record(fs)
  <1>1. /\ pc \in {"stat", "syncDone"} => ~made /\ ~committed
        /\ pc # "idle" => op \in {"load", "save", "remove"}
    BY DEF StoreInv, TypeOK, CallFits, OldRecordAtHand, RecoverySteps, RemovalSteps
  <1>2. CASE pc = "stat" /\ fs["tombstone"] = NoRecord /\ UNCHANGED dirVars /\ Proceed
    <2>1. op # "remove"
      BY <1>2 DEF StoreInv, UnderTombstone
    <2> QED
      BY <1>1, <1>2, <2>1, ProceedKeeps DEF dirVars, Record
  <1>3. CASE pc = "syncDone" /\ SyncDirectory /\ Proceed
    <2>1. /\ fs["tombstone"] = NoRecord
          /\ \A d \in persisted : Record(d) = NoRecord
      BY <1>3 DEF StoreInv, UnderTombstone
    <2>2. Record(fs) = NoRecord
      BY <1>3 DEF StoreInv, UnderTombstone, Record
    <2> QED
      BY <1>1, <1>3, <2>1, <2>2, ProceedKeeps DEF SyncDirectory, Record
  <1> QED
    BY <1>2, <1>3, RemovalCallKeeps DEF FinishPendingRemoval

\* Finishing or undoing a replacement on Windows keeps the invariant and the
\* record.
LEMMA RecoverReplaceKeeps ==
  ASSUME StoreInv, windows' = windows, RecoverWindowsReplace
  PROVE  StoreInv' /\ Record(fs)' = Record(fs)
  <1>1. /\ pc = "recoverReplace" /\ windows /\ op \in {"load", "save"}
        /\ fs["tombstone"] = NoRecord /\ ~made /\ ~committed
    BY DEF RecoverWindowsReplace, StoreInv, CallFits, UnderTombstone,
           OldRecordAtHand, RecoverySteps
  <1>2. PICK next \in {"read", "write"} :
           /\ GoTo(next)
           /\ next = "read" => op = "load"
           /\ next = "write" => op = "save"
    BY <1>1 DEF RecoverWindowsReplace
  <1>3. /\ LocalsOK' /\ pc' = next /\ may' = may
        /\ UNCHANGED <<op, value, made, committed>>
    BY <1>2, GoToLocals DEF Steps, SaveSteps
  <1>4. /\ fs["target"] # Torn /\ fs["backup"] # Torn
        /\ durable["target"] = fs["target"] /\ durable["backup"] = fs["backup"]
        /\ Record(fs) \in may
    BY <1>1 DEF StoreInv, NeverTorn, FlushedAgrees, RecordKnown
  <1>5. /\ DirectoriesOK' /\ Record(fs)' = Record(fs)
        /\ fs'["tombstone"] = NoRecord /\ fs'["backup"] = NoRecord
    <2>1. CASE fs["backup"] = NoRecord /\ UNCHANGED dirVars
      BY <1>1, <1>3, <2>1, SyncKeeps DEF dirVars, Record
    <2>2. CASE fs["backup"] # NoRecord /\ fs["target"] # NoRecord /\ Unlink("backup")
      <3>1. Changed("backup", NoRecord, NoRecord)
        BY <2>2, UnlinkChanges DEF Names
      <3>2. /\ fs'["tombstone"] = NoRecord /\ fs'["backup"] = NoRecord
            /\ fs'["target"] = fs["target"]
        BY <1>1, <3>1 DEF Changed, Names
      <3>3. Record(fs)' = Record(fs)
        BY <1>1, <2>2, <3>2 DEF Record
      <3> QED
        BY <1>3, <1>4, <3>1, <3>2, <3>3, ChangeKeeps, StoreAssumption
           DEF Names, StoreAssumption
    <2>3. CASE /\ fs["backup"] # NoRecord /\ fs["target"] = NoRecord
               /\ Rename("backup", "target")
      <3>1. /\ fs' \in Directories /\ durable' \in Directories
            /\ fs'["target"] = fs["backup"] /\ durable'["target"] = durable["backup"]
            /\ fs'["backup"] = NoRecord /\ durable'["backup"] = NoRecord
            /\ \A m \in Names \ {"backup", "target"} :
                  fs'[m] = fs[m] /\ durable'[m] = durable[m]
            /\ durable' \in persisted' /\ persisted' \subseteq persisted \cup {durable'}
        BY <2>3, RenameChanges DEF Names
      <3>2. fs'["tombstone"] = NoRecord
        BY <1>1, <3>1 DEF Names
      <3>3. Record(fs)' = Record(fs)
        BY <1>1, <2>3, <3>1, <3>2 DEF Record
      <3>4. FlushedAgrees'
        BY <1>4, <3>1 DEF StoreInv, FlushedAgrees, Names
      <3>5. NoRecord # Torn
        BY StoreAssumption DEF StoreAssumption
      <3> QED
        BY <1>3, <1>4, <3>1, <3>2, <3>3, <3>4, <3>5, DirectoriesKeep
    <2> QED
      BY <2>1, <2>2, <2>3 DEF RecoverWindowsReplace
  <1>6. CallFits' /\ UnderTombstone'
    BY <1>1, <1>2, <1>3, <1>5 DEF StoreInv, CallFits, UnderTombstone, SaveSteps,
       RollbackSteps
  <1>7. NewRecordWritten' /\ OldRecordAtHand'
    BY <1>1, <1>3, <1>5 DEF NewRecordWritten, OldRecordAtHand
  <1> QED
    BY <1>3, <1>5, <1>6, <1>7, StoreInvParts DEF OperationOK

\* load answers the record and changes nothing.
LEMMA ReadKeeps ==
  ASSUME StoreInv, windows' = windows, Read
  PROVE  /\ StoreInv' /\ fs' = fs
         /\ answer' \in Values => answer' = Record(fs)
         /\ answer' = "empty" => Record(fs) = NoRecord
  <1> DEFINE a == CASE fs["target"] = NoRecord -> "empty"
                    [] fs["target"] = Torn -> "locked"
                    [] OTHER -> fs["target"]
  <1>1. /\ pc = "read" /\ fs["target"] # Torn /\ fs["target"] \in Files
        /\ fs["tombstone"] = NoRecord
        /\ windows => fs["backup"] = NoRecord
    BY DEF Read, StoreInv, TypeOK, UnderTombstone, NewRecordWritten, Directories,
           Names
  <1>2. /\ Return(a) /\ UNCHANGED dirVars /\ UNCHANGED may /\ UNCHANGED faults
        /\ answer' = a
    BY DEF Read, Return
  <1>3. a \in Values \cup {"empty"} /\ (a = "empty" <=> fs["target"] = NoRecord)
        /\ (a # "empty" => a = fs["target"])
    BY <1>1, StoreAssumption DEF StoreAssumption, Files
  <1> HIDE DEF a
  <1>4. LocalsOK' /\ OperationOK'
    BY <1>2, <1>3, ReturnLocals DEF StoreInv, TypeOK
  <1>5. DirectoriesOK'
    BY <1>2, SyncKeeps
  <1>6. Record(fs) = fs["target"]
    BY <1>1 DEF Record
  <1> QED
    BY <1>2, <1>3, <1>4, <1>5, <1>6, StoreInvParts, StoreAssumption
       DEF StoreAssumption, dirVars

-----------------------------------------------------------------------------
\* atomicReplace

\* A save under way: its record is known and there is no tombstone.
LEMMA SaveUnderWay ==
  ASSUME StoreInv, pc \in SaveSteps \cup RollbackSteps
  PROVE  /\ op = "save" /\ value \in Values /\ value \in may
         /\ fs["tombstone"] = NoRecord
         /\ value # NoRecord /\ value # Torn
  BY StoreAssumption DEF StoreInv, CallFits, UnderTombstone, StoreAssumption

\* The new record is written to its temporary file and flushed.
LEMMA WriteTemporaryKeeps ==
  ASSUME StoreInv, windows' = windows, WriteTemporary
  PROVE  StoreInv'
  <1>1. /\ pc \in {"write", "flush"} /\ ~made /\ ~committed
        /\ (windows => fs["backup"] = NoRecord)
    BY DEF WriteTemporary, StoreInv, OldRecordAtHand, NewRecordWritten
  <1>2. /\ op = "save" /\ value \in Values /\ value \in may
        /\ fs["tombstone"] = NoRecord /\ value # NoRecord /\ value # Torn
    BY <1>1, SaveUnderWay DEF SaveSteps
  <1>3. CASE pc = "write" /\ Write("temp", value) /\ GoTo("flush")
    <2>1. Changed("temp", value, Torn)
      BY <1>2, <1>3, WriteChanges DEF Names, Files
    <2>2. /\ fs'["temp"] = value /\ fs'["tombstone"] = fs["tombstone"]
          /\ fs'["target"] = fs["target"] /\ fs'["backup"] = fs["backup"]
      BY <2>1 DEF Changed, Names
    <2>3. /\ LocalsOK' /\ pc' = "flush" /\ may' = may
          /\ UNCHANGED <<op, value, made, committed>>
      BY <1>3, GoToLocals DEF Steps, SaveSteps
    <2>4. Record(fs)' \in may'
      BY <2>2, <2>3 DEF StoreInv, RecordKnown, Record
    <2>5. DirectoriesOK'
      BY <1>2, <2>1, <2>3, <2>4, ChangeKeeps DEF Names
    <2>6. CallFits' /\ UnderTombstone' /\ NewRecordWritten' /\ OldRecordAtHand'
      BY <1>1, <1>2, <2>2, <2>3 DEF CallFits, UnderTombstone, NewRecordWritten,
         OldRecordAtHand, SaveSteps, RollbackSteps, RecoverySteps, RemovalSteps
    <2> QED
      BY <2>3, <2>5, <2>6, StoreInvParts DEF OperationOK
  <1>4. CASE pc = "flush" /\ Flush("temp") /\ GoTo("backup")
    <2>1. Changed("temp", fs["temp"], fs["temp"]) /\ fs["temp"] = value
      BY <1>4, FlushChanges DEF Names, StoreInv, NewRecordWritten
    <2>2. /\ fs'["temp"] = value /\ fs'["tombstone"] = fs["tombstone"]
          /\ fs'["target"] = fs["target"] /\ fs'["backup"] = fs["backup"]
          /\ durable'["temp"] = value
      BY <2>1 DEF Changed, Names
    <2>3. /\ LocalsOK' /\ pc' = "backup" /\ may' = may
          /\ UNCHANGED <<op, value, made, committed>>
      BY <1>4, GoToLocals DEF Steps, SaveSteps
    <2>4. Record(fs)' \in may'
      BY <2>2, <2>3 DEF StoreInv, RecordKnown, Record
    <2>5. DirectoriesOK'
      BY <1>2, <2>1, <2>3, <2>4, ChangeKeeps DEF Names
    <2>6. CallFits' /\ UnderTombstone' /\ NewRecordWritten' /\ OldRecordAtHand'
      BY <1>1, <1>2, <2>2, <2>3 DEF CallFits, UnderTombstone, NewRecordWritten,
         OldRecordAtHand, SaveSteps, RollbackSteps, RecoverySteps, RemovalSteps
    <2> QED
      BY <2>3, <2>5, <2>6, StoreInvParts DEF OperationOK
  <1> QED
    BY <1>3, <1>4 DEF WriteTemporary

\* The record that is replaced is set aside: it is known and not torn.
LEMMA BackUpKeeps ==
  ASSUME StoreInv, windows' = windows, BackUp
  PROVE  StoreInv'
  <1>1. /\ pc \in {"backup", "flushBackup"} /\ ~committed
        /\ fs["temp"] = value /\ durable["temp"] = value
    BY DEF BackUp, StoreInv, OldRecordAtHand, NewRecordWritten, RecoverySteps
  <1>2. /\ op = "save" /\ value \in Values /\ value \in may
        /\ fs["tombstone"] = NoRecord /\ value # NoRecord /\ value # Torn
    BY <1>1, SaveUnderWay DEF SaveSteps
  <1>3. /\ fs["target"] # Torn /\ durable["target"] = fs["target"]
        /\ fs["target"] \in Files /\ Record(fs) \in may
        /\ may \subseteq Values \cup {NoRecord}
    BY DEF StoreInv, NeverTorn, FlushedAgrees, TypeOK, Directories, Names,
           RecordKnown
  <1>4. CASE /\ pc = "backup" /\ fs["target"] = NoRecord /\ UNCHANGED dirVars
             /\ GoTo("commit")
    <2>1. ~made /\ (windows => fs["backup"] = NoRecord)
      BY <1>4 DEF StoreInv, OldRecordAtHand, NewRecordWritten
    <2>2. /\ LocalsOK' /\ pc' = "commit" /\ may' = may
          /\ UNCHANGED <<op, value, made, committed>>
      BY <1>4, GoToLocals DEF Steps, SaveSteps
    <2>3. DirectoriesOK' /\ UNCHANGED <<fs, durable>>
      BY <1>4, <2>2, SyncKeeps DEF dirVars
    <2>4. CallFits' /\ UnderTombstone' /\ NewRecordWritten' /\ OldRecordAtHand'
      BY <1>1, <1>2, <1>4, <2>1, <2>2, <2>3 DEF CallFits, UnderTombstone,
         NewRecordWritten, OldRecordAtHand, SaveSteps, RollbackSteps,
         RecoverySteps, RemovalSteps
    <2> QED
      BY <2>2, <2>3, <2>4, StoreInvParts DEF OperationOK
  <1>5. CASE /\ pc = "backup" /\ fs["target"] # NoRecord
             /\ IF windows THEN Rename("target", "backup")
                           ELSE Write("backup", fs["target"])
             /\ made' = TRUE
             /\ pc' = IF windows THEN "commit" ELSE "flushBackup"
             /\ UNCHANGED <<op, value, committed, answer, may, faults>>
    <2>1. LocalsOK'
      BY <1>5 DEF StoreInv, TypeOK, LocalsOK, Steps, SaveSteps
    <2>2. fs["target"] \in may \cap Values /\ Record(fs) = fs["target"]
      BY <1>2, <1>3, <1>5 DEF Record
    <2>3. CASE windows
      <3>1. /\ fs' \in Directories /\ durable' \in Directories
            /\ fs'["backup"] = fs["target"] /\ durable'["backup"] = durable["target"]
            /\ fs'["target"] = NoRecord /\ durable'["target"] = NoRecord
            /\ \A m \in Names \ {"backup", "target"} :
                  fs'[m] = fs[m] /\ durable'[m] = durable[m]
            /\ durable' \in persisted' /\ persisted' \subseteq persisted \cup {durable'}
        BY <1>5, <2>3, RenameChanges DEF Names
      <3>2. /\ fs'["tombstone"] = NoRecord
            /\ fs'["temp"] = value /\ durable'["temp"] = value
        BY <1>1, <1>2, <3>1 DEF Names
      <3>3. Record(fs)' \in may'
        BY <1>5, <2>2, <2>3, <3>1, <3>2 DEF Record
      <3>4. FlushedAgrees'
        BY <1>3, <3>1 DEF StoreInv, FlushedAgrees, Names
      <3>5. NoRecord # Torn
        BY StoreAssumption DEF StoreAssumption
      <3>6. DirectoriesOK'
        BY <1>3, <1>5, <3>1, <3>3, <3>4, <3>5, DirectoriesKeep
      <3>7. CallFits' /\ UnderTombstone' /\ NewRecordWritten' /\ OldRecordAtHand'
        BY <1>1, <1>2, <1>3, <1>5, <2>2, <2>3, <3>1, <3>2 DEF CallFits,
           UnderTombstone, NewRecordWritten, OldRecordAtHand, SaveSteps,
           RollbackSteps, RecoverySteps, RemovalSteps
      <3> QED
        BY <2>1, <3>6, <3>7, StoreInvParts DEF OperationOK
    <2>4. CASE ~windows
      <3>1. Changed("backup", fs["target"], Torn)
        BY <1>3, <1>5, <2>4, WriteChanges DEF Names
      <3>2. /\ fs'["tombstone"] = NoRecord /\ fs'["target"] = fs["target"]
            /\ fs'["backup"] = fs["target"]
            /\ fs'["temp"] = value /\ durable'["temp"] = value
        BY <1>1, <1>2, <3>1 DEF Changed, Names
      <3>3. Record(fs)' \in may'
        BY <1>5, <2>2, <2>4, <3>2 DEF Record
      <3>4. DirectoriesOK'
        BY <1>5, <2>4, <3>1, <3>3, ChangeKeeps DEF Names
      <3>5. CallFits' /\ UnderTombstone' /\ NewRecordWritten' /\ OldRecordAtHand'
        BY <1>1, <1>2, <1>5, <2>2, <2>4, <3>2 DEF CallFits, UnderTombstone,
           NewRecordWritten, OldRecordAtHand, SaveSteps, RollbackSteps,
           RecoverySteps, RemovalSteps
      <3> QED
        BY <2>1, <3>4, <3>5, StoreInvParts DEF OperationOK
    <2> QED
      BY <2>3, <2>4 DEF StoreInv, TypeOK
  <1>6. CASE /\ pc = "flushBackup"
             /\ durable' = Set(durable, "backup", fs["backup"])
             /\ persisted' = {durable'}
             /\ UNCHANGED fs
             /\ GoTo("commit")
    <2>1. /\ ~windows /\ made /\ fs["backup"] \in may \cap Values
      BY <1>6 DEF StoreInv, NewRecordWritten, OldRecordAtHand
    <2>2. Changed("backup", fs["backup"], fs["backup"])
      BY <1>6 DEF Changed, Set, StoreInv, TypeOK, Directories, Names
    <2>3. /\ fs' = fs /\ durable'["temp"] = value /\ durable'["backup"] = fs["backup"]
      BY <1>1, <1>6, <2>2 DEF Changed, Names
    <2>4. /\ LocalsOK' /\ pc' = "commit" /\ may' = may
          /\ UNCHANGED <<op, value, made, committed>>
      BY <1>6, GoToLocals DEF Steps, SaveSteps
    <2>5. Record(fs)' \in may'
      BY <1>3, <2>3, <2>4 DEF Record
    <2>6. DirectoriesOK'
      BY <2>1, <2>2, <2>4, <2>5, ChangeKeeps DEF Names
    <2>7. CallFits' /\ UnderTombstone' /\ NewRecordWritten' /\ OldRecordAtHand'
      BY <1>1, <1>2, <2>1, <2>3, <2>4 DEF CallFits, UnderTombstone,
         NewRecordWritten, OldRecordAtHand, SaveSteps, RollbackSteps,
         RecoverySteps, RemovalSteps
    <2> QED
      BY <2>4, <2>6, <2>7, StoreInvParts DEF OperationOK
  <1> QED
    BY <1>4, <1>5, <1>6 DEF BackUp

\* The new record takes its name.
LEMMA CommitKeeps ==
  ASSUME StoreInv, windows' = windows, Commit
  PROVE  StoreInv'
  <1>1. pc \in {"commit", "syncCommit"}
    BY DEF Commit
  <1>2. /\ op = "save" /\ value \in Values /\ value \in may
        /\ fs["tombstone"] = NoRecord /\ value # NoRecord /\ value # Torn
    BY <1>1, SaveUnderWay DEF SaveSteps
  <1>3. CASE /\ pc = "commit" /\ Rename("temp", "target") /\ committed' = TRUE
             /\ pc' = IF windows THEN "dropBackup" ELSE "syncCommit"
             /\ UNCHANGED <<op, value, made, answer, may, faults>>
    <2>1. /\ fs["temp"] = value /\ durable["temp"] = value
          /\ made => /\ fs["backup"] \in may \cap Values
                     /\ durable["backup"] = fs["backup"]
      BY <1>3 DEF StoreInv, NewRecordWritten, OldRecordAtHand
    <2>2. /\ fs' \in Directories /\ durable' \in Directories
          /\ fs'["target"] = value /\ durable'["target"] = value
          /\ fs'["temp"] = NoRecord /\ durable'["temp"] = NoRecord
          /\ \A m \in Names \ {"temp", "target"} :
                fs'[m] = fs[m] /\ durable'[m] = durable[m]
          /\ durable' \in persisted' /\ persisted' \subseteq persisted \cup {durable'}
          /\ windows => persisted' = {durable'}
      BY <1>3, <2>1, RenameChanges DEF Names
    <2>3. /\ fs'["tombstone"] = NoRecord /\ fs'["backup"] = fs["backup"]
          /\ durable'["tombstone"] = NoRecord /\ durable'["backup"] = durable["backup"]
      BY <1>2, <2>2, StoreAssumption
         DEF Names, StoreInv, FlushedAgrees, StoreAssumption
    <2>4. Record(fs') = value /\ Record(durable') = value /\ Record(fs)' = value
      BY <1>2, <2>2, <2>3 DEF Record
    <2>5. FlushedAgrees'
      BY <2>2, <2>3 DEF StoreInv, FlushedAgrees, Names
    <2>6. fs'["target"] # Torn /\ (windows => fs'["backup"] # Torn)
      BY <1>2, <2>2, <2>3 DEF StoreInv, NeverTorn
    <2>7. DirectoriesOK'
      BY <1>2, <1>3, <2>2, <2>4, <2>5, <2>6, DirectoriesKeep
    <2>8. LocalsOK'
      BY <1>3 DEF StoreInv, TypeOK, LocalsOK, Steps, SaveSteps
    <2>9. windows => \A d \in persisted' : Record(d)' = value
      BY <2>2, <2>4 DEF Record
    <2>10. CallFits' /\ UnderTombstone' /\ NewRecordWritten' /\ OldRecordAtHand'
      BY <1>2, <1>3, <2>1, <2>2, <2>3, <2>9 DEF CallFits, UnderTombstone,
         NewRecordWritten, OldRecordAtHand, SaveSteps, RollbackSteps,
         RecoverySteps, RemovalSteps
    <2> QED
      BY <2>7, <2>8, <2>10, StoreInvParts DEF OperationOK
  <1>4. CASE pc = "syncCommit" /\ SyncDirectory /\ GoTo("dropBackup")
    <2>1. /\ fs["target"] = value /\ ~windows /\ committed
          /\ made => /\ fs["backup"] \in may \cap Values
                     /\ durable["backup"] = fs["backup"]
      BY <1>4 DEF StoreInv, NewRecordWritten, OldRecordAtHand
    <2>2. /\ LocalsOK' /\ pc' = "dropBackup" /\ may' = may
          /\ UNCHANGED <<op, value, made, committed>>
      BY <1>4, GoToLocals DEF Steps, SaveSteps
    <2>3. DirectoriesOK' /\ UNCHANGED <<fs, durable>> /\ persisted' = {durable}
      BY <1>4, <2>2, SyncKeeps DEF SyncDirectory
    <2>4. Record(fs) = value
      BY <1>2, <2>1 DEF Record
    <2>5. Record(durable)' = value
      BY <2>3, <2>4, FlushedRecord, StoreAssumption
         DEF StoreInv, StoreAssumption, Record
    <2>6. \A d \in persisted' : Record(d)' = value
      BY <2>3, <2>5 DEF Record
    <2>7. CallFits' /\ UnderTombstone' /\ NewRecordWritten' /\ OldRecordAtHand'
      BY <1>2, <2>1, <2>2, <2>3, <2>6 DEF CallFits, UnderTombstone,
         NewRecordWritten, OldRecordAtHand, SaveSteps, RollbackSteps,
         RecoverySteps, RemovalSteps
    <2> QED
      BY <2>2, <2>3, <2>7, StoreInvParts DEF OperationOK
  <1> QED
    BY <1>3, <1>4 DEF Commit

\* Once the new record is durable the old one goes, and the save succeeds.
LEMMA DropBackupKeeps ==
  ASSUME StoreInv, windows' = windows, DropBackup
  PROVE  StoreInv'
  <1>1. pc \in {"dropBackup", "syncDrop"}
    BY DEF DropBackup
  <1>2. /\ op = "save" /\ value \in Values /\ value \in may
        /\ fs["tombstone"] = NoRecord /\ value # NoRecord /\ value # Torn
    BY <1>1, SaveUnderWay DEF SaveSteps
  <1>3. /\ fs["target"] = value /\ committed
        /\ \A d \in persisted : Record(d) = value
        /\ fs \in Directories /\ durable \in Directories
        /\ durable \in persisted /\ FlushedAgrees
        /\ windows => fs["backup"] # Torn
    BY <1>1 DEF StoreInv, NewRecordWritten, OldRecordAtHand, TypeOK, NeverTorn
  <1>4. Record(fs) = value
    BY <1>2, <1>3 DEF Record
  <1>5. CASE pc = "dropBackup" /\ ~made /\ UNCHANGED dirVars /\ Succeed("saved")
    <2>1. UNCHANGED <<fs, durable, persisted>>
      BY <1>5 DEF dirVars
    <2>2. FlushedAgrees'
      BY <1>3, <2>1 DEF FlushedAgrees
    <2> QED
      BY <1>2, <1>3, <1>4, <1>5, <2>1, <2>2, SucceedKeeps
  <1>6. CASE /\ pc = "dropBackup" /\ made /\ Unlink("backup")
             /\ IF windows THEN Succeed("saved")
                ELSE /\ made' = FALSE
                     /\ pc' = "syncDrop"
                     /\ UNCHANGED <<op, value, committed, answer, may, faults>>
    <2>1. Changed("backup", NoRecord, NoRecord)
      BY <1>6, UnlinkChanges DEF Names
    <2>2. /\ fs'["target"] = value /\ fs'["tombstone"] = NoRecord
          /\ fs'["backup"] = NoRecord
          /\ durable'["target"] = value /\ durable'["tombstone"] = NoRecord
      BY <1>2, <1>3, <2>1, StoreAssumption
         DEF Changed, Names, FlushedAgrees, StoreAssumption
    <2>3. /\ Record(fs') = value /\ Record(fs)' = value
          /\ Record(durable') = value /\ Record(durable)' = value
      BY <1>2, <2>2 DEF Record
    <2>4. FlushedAgrees'
      BY <1>3, <2>1 DEF FlushedAgrees, Changed, Names
    <2>5. NoRecord # Torn
      BY StoreAssumption DEF StoreAssumption
    <2>6. CASE windows
      BY <1>2, <1>3, <1>6, <2>1, <2>2, <2>3, <2>4, <2>5, <2>6, SucceedKeeps
         DEF Changed
    <2>7. CASE ~windows
      <3>1. DirectoriesOK'
        BY <1>2, <1>6, <2>1, <2>3, <2>5, <2>7, ChangeKeeps DEF Names
      <3>2. LocalsOK'
        BY <1>6, <2>7 DEF StoreInv, TypeOK, LocalsOK, Steps, SaveSteps
      <3>3. \A d \in persisted' : Record(d)' = value
        BY <1>3, <2>1, <2>3 DEF Changed, Record
      <3>4. CallFits' /\ UnderTombstone' /\ NewRecordWritten' /\ OldRecordAtHand'
        BY <1>2, <1>3, <1>6, <2>2, <2>7, <3>3 DEF CallFits, UnderTombstone,
           NewRecordWritten, OldRecordAtHand, SaveSteps, RollbackSteps,
           RecoverySteps, RemovalSteps
      <3> QED
        BY <3>1, <3>2, <3>4, StoreInvParts DEF OperationOK
    <2> QED
      BY <2>6, <2>7 DEF StoreInv, TypeOK
  <1>7. CASE pc = "syncDrop" /\ SyncDirectory /\ Succeed("saved")
    <2>1. UNCHANGED <<fs, durable>> /\ persisted' = {durable}
      BY <1>7 DEF SyncDirectory
    <2>2. FlushedAgrees'
      BY <1>3, <2>1 DEF FlushedAgrees
    <2> QED
      BY <1>2, <1>3, <1>4, <1>7, <2>1, <2>2, SucceedKeeps
  <1> QED
    BY <1>5, <1>6, <1>7 DEF DropBackup

\* The catch and finally blocks put the old record back, or leave it where
\* the next operation finds it.
LEMMA RollBackKeeps ==
  ASSUME StoreInv, windows' = windows, RollBack
  PROVE  StoreInv'
  <1>1. pc \in RollbackSteps /\ NoRecord # Torn
    BY StoreAssumption DEF RollBack, RollbackSteps, StoreAssumption
  <1>2. /\ op = "save" /\ value \in Values /\ value \in may
        /\ fs["tombstone"] = NoRecord /\ value # NoRecord /\ value # Torn
    BY <1>1, SaveUnderWay
  <1>3. CASE pc = "dropTarget" /\ (Unlink("target") \/ UNCHANGED dirVars)
             /\ GoTo("restore")
    <2>1. /\ windows /\ made /\ fs["backup"] \in may \cap Values
          /\ durable["backup"] = fs["backup"]
      BY <1>3 DEF StoreInv, OldRecordAtHand
    <2>2. /\ LocalsOK' /\ pc' = "restore" /\ may' = may
          /\ UNCHANGED <<op, value, made, committed>>
      BY <1>3, GoToLocals DEF Steps, RollbackSteps
    <2>3. /\ DirectoriesOK' /\ fs'["tombstone"] = NoRecord
          /\ fs'["backup"] = fs["backup"] /\ durable'["backup"] = durable["backup"]
      <3>1. CASE UNCHANGED dirVars
        BY <1>2, <2>2, <3>1, SyncKeeps DEF dirVars
      <3>2. CASE Unlink("target")
        <4>1. Changed("target", NoRecord, NoRecord)
          BY <3>2, UnlinkChanges DEF Names
        <4>2. /\ fs'["target"] = NoRecord /\ fs'["tombstone"] = NoRecord
              /\ fs'["backup"] = fs["backup"] /\ durable'["backup"] = durable["backup"]
          BY <1>2, <4>1 DEF Changed, Names
        <4>3. Record(fs)' \in may'
          BY <2>1, <2>2, <4>2 DEF Record
        <4> QED
          BY <1>1, <2>2, <4>1, <4>2, <4>3, ChangeKeeps DEF Names
      <3> QED
        BY <1>3, <3>1, <3>2
    <2>4. CallFits' /\ UnderTombstone' /\ NewRecordWritten' /\ OldRecordAtHand'
      BY <1>2, <2>1, <2>2, <2>3 DEF CallFits, UnderTombstone,
         NewRecordWritten, OldRecordAtHand, SaveSteps, RollbackSteps,
         RecoverySteps, RemovalSteps
    <2> QED
      BY <2>2, <2>3, <2>4, StoreInvParts DEF OperationOK
  <1>4. CASE /\ pc = "restore" /\ Rename("backup", "target") /\ made' = FALSE
             /\ pc' = IF windows THEN "cleanup" ELSE "syncRestore"
             /\ UNCHANGED <<op, value, committed, answer, may, faults>>
    <2>1. /\ fs["backup"] \in may \cap Values /\ durable["backup"] = fs["backup"]
      BY <1>4 DEF StoreInv, OldRecordAtHand
    <2>2. /\ fs' \in Directories /\ durable' \in Directories
          /\ fs'["target"] = fs["backup"] /\ durable'["target"] = fs["backup"]
          /\ fs'["backup"] = NoRecord /\ durable'["backup"] = NoRecord
          /\ \A m \in Names \ {"backup", "target"} :
                fs'[m] = fs[m] /\ durable'[m] = durable[m]
          /\ durable' \in persisted' /\ persisted' \subseteq persisted \cup {durable'}
      BY <1>4, <2>1, RenameChanges DEF Names
    <2>3. fs'["tombstone"] = NoRecord /\ fs["backup"] # NoRecord
          /\ fs["backup"] # Torn
      BY <1>2, <2>1, <2>2, StoreAssumption DEF Names, StoreAssumption
    <2>4. Record(fs)' \in may'
      BY <1>4, <2>1, <2>2, <2>3 DEF Record
    <2>5. FlushedAgrees'
      BY <2>2 DEF StoreInv, FlushedAgrees, Names
    <2>6. DirectoriesOK'
      BY <1>1, <1>4, <2>2, <2>3, <2>4, <2>5, DirectoriesKeep
    <2>7. LocalsOK'
      BY <1>4 DEF StoreInv, TypeOK, LocalsOK, Steps, RollbackSteps
    <2>8. CallFits' /\ UnderTombstone' /\ NewRecordWritten' /\ OldRecordAtHand'
      BY <1>2, <1>4, <2>3 DEF CallFits, UnderTombstone,
         NewRecordWritten, OldRecordAtHand, SaveSteps, RollbackSteps,
         RecoverySteps, RemovalSteps
    <2> QED
      BY <2>6, <2>7, <2>8, StoreInvParts DEF OperationOK
  <1>5. CASE pc = "syncRestore" /\ SyncDirectory /\ GoTo("cleanup")
    <2>1. /\ LocalsOK' /\ pc' = "cleanup" /\ may' = may
          /\ UNCHANGED <<op, value, made, committed>>
      BY <1>5, GoToLocals DEF Steps, RollbackSteps
    <2>2. DirectoriesOK' /\ fs' = fs
      BY <1>5, <2>1, SyncKeeps DEF SyncDirectory
    <2>3. CallFits' /\ UnderTombstone' /\ NewRecordWritten' /\ OldRecordAtHand'
      BY <1>2, <2>1, <2>2 DEF CallFits, UnderTombstone,
         NewRecordWritten, OldRecordAtHand, SaveSteps, RollbackSteps,
         RecoverySteps, RemovalSteps
    <2> QED
      BY <2>1, <2>2, <2>3, StoreInvParts DEF OperationOK
  <1>6. CASE /\ pc = "cleanup" /\ Become(CleanedUp(fs), CleanedUp(durable))
             /\ Return("locked") /\ UNCHANGED <<may, faults>>
    <2>1. /\ fs' = CleanedUp(fs) /\ durable' = CleanedUp(durable)
          /\ durable' \in persisted' /\ persisted' \subseteq persisted \cup {durable'}
      BY <1>6 DEF Become
    <2>2. /\ fs' \in Directories /\ durable' \in Directories
          /\ fs'["target"] = fs["target"] /\ durable'["target"] = durable["target"]
          /\ fs'["tombstone"] = fs["tombstone"]
          /\ durable'["tombstone"] = durable["tombstone"]
          /\ fs'["temp"] = NoRecord /\ durable'["temp"] = NoRecord
          /\ \/ fs'["backup"] = fs["backup"] /\ durable'["backup"] = durable["backup"]
             \/ /\ ~windows
                /\ fs'["backup"] = NoRecord /\ durable'["backup"] = NoRecord
      BY <2>1 DEF CleanedUp, StoreInv, TypeOK, Directories, Names, Files
    <2>3. Record(fs)' \in may'
      BY <1>6, <2>2 DEF StoreInv, RecordKnown, Record
    <2>4. FlushedAgrees'
      BY <2>2 DEF StoreInv, FlushedAgrees, Names
    <2>5. fs'["target"] # Torn /\ (windows => fs'["backup"] # Torn)
      BY <2>2 DEF StoreInv, NeverTorn
    <2>6. DirectoriesOK'
      BY <1>6, <2>1, <2>2, <2>3, <2>4, <2>5, DirectoriesKeep
    <2>7. LocalsOK' /\ OperationOK'
      BY <1>6, ReturnLocals DEF StoreInv, TypeOK
    <2> QED
      BY <2>6, <2>7, StoreInvParts
  <1> QED
    BY <1>3, <1>4, <1>5, <1>6 DEF RollBack

-----------------------------------------------------------------------------
\* Failures.

\* A failed call leaves the directory, and the replacement is undone if it has
\* a backup to undo it with.
LEMMA FailureKeeps ==
  ASSUME StoreInv, windows' = windows, SaveFails \/ RollBackFails
  PROVE  StoreInv'
  <1> DEFINE next == IF pc \notin SaveSteps THEN "cleanup"
                     ELSE IF made /\ committed /\ windows THEN "dropTarget"
                     ELSE IF made /\ (committed \/ windows) THEN "restore"
                     ELSE "cleanup"
  <1>1. /\ pc \in SaveSteps \cup RollbackSteps /\ UNCHANGED dirVars
        /\ Fails(next)
    BY DEF SaveFails, RollBackFails, RollbackSteps, SaveSteps
  <1>2. /\ op = "save" /\ value \in Values /\ value \in may
        /\ fs["tombstone"] = NoRecord /\ value # NoRecord /\ value # Torn
    BY <1>1, SaveUnderWay
  <1>3. /\ pc' = next /\ UNCHANGED <<op, value, made, committed, answer, may>>
        /\ UNCHANGED <<fs, durable, persisted>>
        /\ faults' \in 0 .. MaxFaults
    BY <1>1, StoreAssumption DEF Fails, Fault, localVars, dirVars, StoreInv,
       TypeOK, StoreAssumption
  <1>4. next \in {"cleanup", "restore", "dropTarget"}
    OBVIOUS
  <1>5. next # "cleanup" =>
           /\ made /\ pc \in {"flushBackup", "commit", "syncCommit", "dropBackup"}
           /\ committed \/ windows
           /\ next = "dropTarget" => windows
    BY DEF StoreInv, OldRecordAtHand, SaveSteps
  <1>6. next # "cleanup" =>
           pc \in {"commit", "syncCommit", "dropBackup"}
    BY <1>5 DEF StoreInv, OldRecordAtHand, NewRecordWritten
  <1> HIDE DEF next
  <1>7. DirectoriesOK'
    BY <1>1, <1>3, SyncKeeps
  <1>8. LocalsOK'
    BY <1>3, <1>4 DEF StoreInv, TypeOK, LocalsOK, Steps, RollbackSteps
  <1>9. CallFits' /\ UnderTombstone' /\ NewRecordWritten'
    BY <1>2, <1>3, <1>4 DEF CallFits, UnderTombstone, NewRecordWritten,
       SaveSteps, RollbackSteps, RecoverySteps, RemovalSteps
  <1>10. OldRecordAtHand'
    BY <1>3, <1>4, <1>5, <1>6 DEF StoreInv, OldRecordAtHand, RecoverySteps,
       RemovalSteps
  <1> QED
    BY <1>7, <1>8, <1>9, <1>10, StoreInvParts DEF OperationOK

\* Anywhere else the operation gives up and leaves the directory as it is.
LEMMA RecoveryFailsKeeps ==
  ASSUME StoreInv, windows' = windows, RecoveryFails
  PROVE  StoreInv' /\ fs' = fs /\ answer' = "locked"
  <1>1. /\ Return("locked") /\ UNCHANGED dirVars /\ may' = may
        /\ faults' \in 0 .. MaxFaults
    BY StoreAssumption DEF RecoveryFails, Fault, StoreInv, TypeOK, StoreAssumption
  <1>2. LocalsOK' /\ OperationOK'
    BY <1>1, ReturnLocals DEF StoreInv, TypeOK
  <1>3. DirectoriesOK'
    BY <1>1, SyncKeeps
  <1> QED
    BY <1>1, <1>2, <1>3, StoreInvParts DEF Return, dirVars

\* The process is killed, or the power is lost: any directory that may have
\* persisted is one the next process can start from.
LEMMA StopKeeps ==
  ASSUME StoreInv, windows' = windows, Kill \/ PowerLoss
  PROVE  StoreInv'
  <1>1. Stop
    BY DEF Kill, PowerLoss
  <1>2. /\ op' = "none" /\ pc' = "idle" /\ value' = NoRecord
        /\ made' = FALSE /\ committed' = FALSE /\ answer' = "none" /\ may' = may
        /\ faults' \in 0 .. MaxFaults
    BY <1>1, StoreAssumption DEF Stop, Fault, StoreInv, TypeOK, StoreAssumption
  <1>3. LocalsOK'
    BY <1>2 DEF StoreInv, TypeOK, LocalsOK, Steps
  <1>4. CallFits' /\ UnderTombstone' /\ NewRecordWritten' /\ OldRecordAtHand'
    BY <1>2 DEF CallFits, UnderTombstone, NewRecordWritten, OldRecordAtHand,
       SaveSteps, RollbackSteps, RecoverySteps, RemovalSteps
  <1>5. DirectoriesOK'
    <2>1. CASE Kill
      BY <1>2, <2>1, SyncKeeps DEF Kill
    <2>2. CASE PowerLoss
      <3>1. PICK p \in persisted : fs' = p /\ durable' = p /\ persisted' = {p}
        BY <2>2 DEF PowerLoss
      <3>2. /\ p \in Directories /\ Record(p)' \in may'
            /\ p["target"] # Torn /\ (windows => p["backup"] # Torn)
        BY <1>2, <3>1 DEF StoreInv, TypeOK, RecordKnown, NeverTorn, Record
      <3>3. RecordKnown' /\ NeverTorn' /\ FlushedAgrees'
        BY <3>1, <3>2 DEF RecordKnown, NeverTorn, FlushedAgrees
      <3> QED
        BY <3>1, <3>2, <3>3 DEF DirectoriesOK, StoreInv, TypeOK
    <2> QED
      BY <2>1, <2>2
  <1> QED
    BY <1>3, <1>4, <1>5, StoreInvParts DEF OperationOK

-----------------------------------------------------------------------------
\* The theorems.

\* The first process finds an empty directory.
LEMMA InitStore == Init => StoreInv
  <1> SUFFICES ASSUME Init PROVE StoreInv
    OBVIOUS
  <1>1. /\ fs \in Directories /\ \A n \in Names : fs[n] = NoRecord
        /\ durable = fs /\ persisted = {fs} /\ may = {NoRecord}
        /\ NoRecord # Torn
    BY StoreAssumption DEF Init, Directories, Files, StoreAssumption
  <1>2. TypeOK
    <2>1. fs["target"] # Torn /\ 0 \in 0 .. MaxFaults
      BY <1>1, StoreAssumption DEF Names, StoreAssumption
    <2>2. pc \in {"idle", "read", "mark", "syncMark"}
      BY DEF Init
    <2> QED
      BY <1>1, <2>1, <2>2 DEF Init, TypeOK
  <1>3. RecordKnown /\ NeverTorn /\ FlushedAgrees
    BY <1>1 DEF RecordKnown, NeverTorn, FlushedAgrees, Record, Names
  <1>4. CallFits /\ UnderTombstone /\ NewRecordWritten /\ OldRecordAtHand
    BY <1>1 DEF Init, CallFits, UnderTombstone, NewRecordWritten,
       OldRecordAtHand, SaveSteps, RollbackSteps, RecoverySteps, RemovalSteps
  <1> QED
    BY <1>2, <1>3, <1>4 DEF StoreInv

\* Every step keeps the invariant.
LEMMA NextStore == StoreInv /\ [Next]_vars => StoreInv'
  <1> SUFFICES ASSUME StoreInv, [Next]_vars PROVE StoreInv'
    OBVIOUS
  <1>1. CASE UNCHANGED vars
    BY <1>1 DEF vars, dirVars, localVars, StoreInv, TypeOK, RecordKnown, Record,
       FlushedAgrees, NeverTorn, CallFits, UnderTombstone, NewRecordWritten,
       OldRecordAtHand
  <1>2. CASE Next
    <2> USE <1>2
    <2>0. windows' = windows
      BY DEF Next
    <2>1. CASE Load \/ (\E v \in Values : Save(v)) \/ Remove
      BY <2>0, <2>1, BeginKeeps
    <2>2. CASE Mark \/ FinishPendingRemoval \/ RecoverWindowsReplace \/ Read
      BY <2>0, <2>2, MarkKeeps, FinishPendingRemovalKeeps, RecoverReplaceKeeps,
         ReadKeeps
    <2>3. CASE WriteTemporary \/ BackUp \/ Commit \/ DropBackup \/ RollBack
      BY <2>0, <2>3, WriteTemporaryKeeps, BackUpKeeps, CommitKeeps,
         DropBackupKeeps, RollBackKeeps
    <2>4. CASE FaultStep
      BY <2>0, <2>4, FailureKeeps, RecoveryFailsKeeps, StopKeeps DEF FaultStep
    <2> QED
      BY <2>1, <2>2, <2>3, <2>4 DEF Next, CallStep
  <1> QED
    BY <1>1, <1>2

\* The invariant holds of every reachable state of the store, whichever calls
\* fail and wherever the process is killed or the power lost.
THEOREM StoreInvariance == Spec => []StoreInv
  BY InitStore, NextStore, PTL DEF Spec

\* The record in the file, and in every directory a loss of power may leave,
\* is the last one reported saved or removed, or one whose save or removal was
\* cut short since (save, remove, atomicReplace, finishPendingRemoval).
THEOREM RecordsKept == Spec => []RecordKnown
  <1>1. StoreInv => RecordKnown
    BY DEF StoreInv
  <1> QED
    BY <1>1, StoreInvariance, PTL

\* An operation under way has not answered yet.
NoAnswerYet == pc # "idle" => op # "none" /\ answer = "none"

\* Whatever call the operation goes on to, it has not answered.
LEMMA AnswersLast == NoAnswerYet /\ [Next]_vars => NoAnswerYet'
  <1> SUFFICES ASSUME NoAnswerYet, [Next]_vars PROVE NoAnswerYet'
    OBVIOUS
  <1>1. CASE Load \/ (\E v \in Values : Save(v)) \/ Remove
    BY <1>1 DEF NoAnswerYet, Load, Save, Remove, Begin
  <1>2. CASE Mark
    BY <1>2 DEF NoAnswerYet, Mark, GoTo
  <1>3. CASE FinishPendingRemoval
    BY <1>3 DEF NoAnswerYet, FinishPendingRemoval, Proceed, GoTo, Succeed, Return
  <1>4. CASE RecoverWindowsReplace \/ Read \/ WriteTemporary
    BY <1>4 DEF NoAnswerYet, RecoverWindowsReplace, Read, WriteTemporary, GoTo,
       Return
  <1>5. CASE BackUp \/ Commit \/ DropBackup \/ RollBack
    BY <1>5 DEF NoAnswerYet, BackUp, Commit, DropBackup, RollBack, GoTo, Succeed,
       Return
  <1>6. CASE FaultStep
    BY <1>6 DEF NoAnswerYet, FaultStep, SaveFails, RollBackFails, RecoveryFails,
       Kill, PowerLoss, Stop, Fails, Return, SaveSteps
  <1>7. CASE UNCHANGED vars
    BY <1>7 DEF NoAnswerYet, vars
  <1> QED
    BY <1>1, <1>2, <1>3, <1>4, <1>5, <1>6, <1>7 DEF Next, CallStep

\* Finishing what was cut short never changes the record, and an uninterrupted
\* load answers it (finishPendingRemoval, recoverWindowsReplace, load).
THEOREM RecoveryIsNeutral == Spec => RecoveryNeutral
  <1> DEFINE Neutral ==
        /\ pc \in RecoverySteps \cup {"read"}
        /\ op' = op \/ answer' # "none"
        => /\ Record(fs') = Record(fs)
           /\ answer' \in Values => answer' = Record(fs)
           /\ answer' = "empty" => Record(fs) = NoRecord
  <1>1. StoreInv /\ NoAnswerYet /\ [Next]_vars => [Neutral]_vars
    <2> SUFFICES ASSUME StoreInv, NoAnswerYet, Next, pc \in RecoverySteps \cup {"read"},
                        op' = op \/ answer' # "none"
                 PROVE  /\ Record(fs') = Record(fs)
                        /\ answer' \in Values => answer' = Record(fs)
                        /\ answer' = "empty" => Record(fs) = NoRecord
      OBVIOUS
    <2>1. windows' = windows /\ Record(fs') = Record(fs)'
      BY DEF Next, Record
    <2>2. CASE FinishPendingRemoval \/ RecoverWindowsReplace
      <3>1. Record(fs)' = Record(fs)
        BY <2>1, <2>2, FinishPendingRemovalKeeps, RecoverReplaceKeeps
      <3>2. answer' \in {"none", "removed"}
        BY <2>2 DEF NoAnswerYet, FinishPendingRemoval, RecoverWindowsReplace,
           Proceed, GoTo, Succeed, Return
      <3> QED
        BY <2>1, <3>1, <3>2, StoreAssumption DEF StoreAssumption
    <2>3. CASE Read
      BY <2>1, <2>3, ReadKeeps
    <2>4. CASE RecoveryFails
      BY <2>1, <2>4, RecoveryFailsKeeps, StoreAssumption DEF StoreAssumption
    <2>5. CASE Kill \/ PowerLoss
      <3>1. op # "none"
        BY DEF NoAnswerYet, RecoverySteps, RemovalSteps
      <3> QED
        BY <2>5, <3>1 DEF Kill, PowerLoss, Stop
    <2>6. ~(Load \/ (\E v \in Values : Save(v)) \/ Remove \/ Mark)
      BY DEF Load, Save, Remove, Begin, Mark, RecoverySteps, RemovalSteps
    <2>7. ~(WriteTemporary \/ BackUp \/ Commit \/ DropBackup \/ RollBack)
      BY DEF WriteTemporary, BackUp, Commit, DropBackup, RollBack, RecoverySteps,
         RemovalSteps
    <2>8. ~(SaveFails \/ RollBackFails)
      BY DEF SaveFails, RollBackFails, SaveSteps, RecoverySteps, RemovalSteps
    <2> QED
      BY <2>2, <2>3, <2>4, <2>5, <2>6, <2>7, <2>8 DEF Next, CallStep, FaultStep
  <1>2. Init => NoAnswerYet
    BY DEF Init, NoAnswerYet
  <1> QED
    BY <1>1, <1>2, AnswersLast, StoreInvariance, PTL DEF Spec, RecoveryNeutral

=============================================================================
