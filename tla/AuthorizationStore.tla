------------------------- MODULE AuthorizationStore -------------------------
(***************************************************************************)
(* The file that holds the transaction of an authorization under way       *)
(* (createPendingAuthorizationStore of desktop/src/auth/                   *)
(* credential-coordinator.mjs, and the helpers below it): load, save and   *)
(* remove, one at a time, as the file-system calls they make.  Any call    *)
(* may fail, and the process may be killed or the power lost between two.  *)
(*                                                                         *)
(* Unlike the credential's file (CredentialStore), the record is moved     *)
(* aside on every platform, and a save that fails puts it back whatever    *)
(* had been done.  Contents are flushed before they get their name, so     *)
(* that only directory entries are in doubt: disk is the directory the     *)
(* process sees, lasting the ones a loss of power may leave.  The          *)
(* temporary file has a random name and is never read; Windows flushes no  *)
(* directories, and its entries are taken to last at once.                 *)
(***************************************************************************)
EXTENDS Naturals

CONSTANTS
    Records,     \* transactions, with their phase
    Absent,      \* no such file
    MaxTrouble   \* bound: failed calls, kills and losses of power

VARIABLES
    win,         \* platform = "win32"
    disk, lasting,
    doing,       \* [op, record] under way, or Nothing
    at,          \* the call it makes next
    aside,       \* hasBackup
    found,       \* what the last operation answered
    possible,    \* history: the records that may be there
    lost,        \* history: a save took its record back with no other left
    trouble

storeVars == <<win, disk, lasting, doing, at, aside, found, possible, lost,
               trouble>>

Entries == {"target", "previous", "delete"}
Nothing == [op |-> "none", record |-> Absent]
Calls == {"check", "drop", "restore", "recovered", "mark", "marked",
          "unlink", "unlinkPrevious", "unlinked", "unmark", "unmarked",
          "read", "write", "aside", "asideSynced", "commit", "committed",
          "forget", "forgotten", "undo", "putBack"}

TypeOK ==
    /\ win \in BOOLEAN
    /\ disk \in [Entries -> Records \cup {Absent, "delete"}]
    /\ lasting \subseteq [Entries -> Records \cup {Absent, "delete"}]
    /\ doing \in [op : {"none", "load", "save", "remove"},
                  record : Records \cup {Absent}]
    /\ at \in Calls \cup {"idle"}
    /\ aside \in BOOLEAN
    /\ found \in Records \cup {"none", "empty", "saved", "removed", "locked"}
    /\ possible \subseteq Records \cup {Absent}
    /\ lost \in BOOLEAN
    /\ trouble \in 0 .. MaxTrouble

StoreInit ==
    /\ win \in BOOLEAN
    /\ disk = [n \in Entries |-> Absent]
    /\ lasting = {disk}
    /\ doing = Nothing /\ at = "idle" /\ aside = FALSE
    /\ found = "none" /\ possible = {Absent} /\ lost = FALSE
    /\ trouble = 0

-----------------------------------------------------------------------------
\* The directory.

Becomes(d) ==
    /\ disk' = d
    /\ lasting' = IF win THEN {d} ELSE lasting \cup {d}
Same == UNCHANGED <<disk, lasting>>
\* syncDirectory
Synced == lasting' = {disk} /\ UNCHANGED disk
Without(n) == [disk EXCEPT ![n] = Absent]
Moved(from, to) == [disk EXCEPT ![to] = disk[from], ![from] = Absent]

-----------------------------------------------------------------------------
\* An operation begins, with the directory's permissions restored
\* (prepareSecretDirectory), and ends with its answer.

Begin(op, record, first) ==
    /\ at = "idle"
    /\ doing' = [op |-> op, record |-> record]
    /\ at' = first /\ aside' = FALSE
    /\ found' = "none"
    /\ possible' = IF op = "load" THEN possible ELSE possible \cup {record}
    /\ UNCHANGED <<win, disk, lasting, lost, trouble>>

Load == Begin("load", Absent, "check")
Save(r) == Begin("save", r, "check")
Remove == Begin("remove", Absent, "mark")

Ends(answer, kept) ==
    /\ doing' = Nothing /\ at' = "idle"
    /\ found' = answer
    /\ possible' = kept
    /\ lost' = (lost /\ answer \notin {"saved", "removed"})
    /\ UNCHANGED aside

Goes(call) ==
    /\ at' = call
    /\ UNCHANGED <<doing, found, possible, lost, aside>>

\* After recovery: load reads, save writes, and a removal is complete.
Continues ==
    CASE doing.op = "load" -> Goes("read")
      [] doing.op = "save" -> Goes("write")
      [] doing.op = "remove" -> Ends("removed", {Absent})

-----------------------------------------------------------------------------
\* mutant: what was moved aside is put back before the mark is looked at
CheckPreviousFirst ==
    /\ at = "check" /\ Same
    /\ IF disk["previous"] # Absent
       THEN Goes(IF disk["target"] # Absent THEN "drop" ELSE "restore")
       ELSE IF disk["delete"] # Absent THEN Goes("unlink") ELSE Continues

\* recoverSecretFile: an interrupted removal is completed, and an interrupted
\* replacement is completed or undone.
Check ==
    /\ at = "check" /\ Same
    /\ IF disk["delete"] # Absent THEN Goes("unlink")
       ELSE IF disk["previous"] = Absent THEN Continues
       ELSE Goes(IF disk["target"] # Absent THEN "drop" ELSE "restore")

Recover ==
    \/ at = "drop" /\ Becomes(Without("previous")) /\ Goes("recovered")
    \/ at = "restore" /\ Becomes(Moved("previous", "target")) /\ Goes("recovered")
    \/ at = "recovered" /\ Synced /\ Continues

\* writeSecretRemovalMarker
MarkRemoval ==
    \/ at = "mark" /\ Becomes([disk EXCEPT !["delete"] = "delete"]) /\ Goes("marked")
    \/ at = "marked" /\ Synced /\ Goes("unlink")

\* The rest of remove, and of a removal that recovery completes.
CompleteRemoval ==
    \/ at = "unlink" /\ Becomes(Without("target")) /\ Goes("unlinkPrevious")
    \/ at = "unlinkPrevious" /\ Becomes(Without("previous")) /\ Goes("unlinked")
    \/ at = "unlinked" /\ Synced /\ Goes("unmark")
    \/ at = "unmark" /\ Becomes(Without("delete")) /\ Goes("unmarked")
    \/ at = "unmarked" /\ Synced /\ Continues

Read ==
    /\ at = "read" /\ Same
    /\ Ends(IF disk["target"] = Absent THEN "empty" ELSE disk["target"], possible)

\* replaceSecretFile.  The new contents are written and flushed first.
Replace ==
    \/ at = "write" /\ Same /\ Goes("aside")
    \/ /\ at = "aside"
       /\ IF disk["target"] = Absent
          THEN Same /\ Goes("commit")
          ELSE /\ Becomes(Moved("target", "previous"))
               /\ aside' = TRUE /\ at' = "asideSynced"
               /\ UNCHANGED <<doing, found, possible, lost>>
    \/ at = "asideSynced" /\ Synced /\ Goes("commit")
    \/ /\ at = "commit"
       /\ Becomes([disk EXCEPT !["target"] = doing.record])
       /\ Goes("committed")
    \/ /\ at = "committed" /\ Synced
       /\ IF aside THEN Goes("forget") ELSE Ends("saved", {doing.record})
    \/ at = "forget" /\ Becomes(Without("previous")) /\ Goes("forgotten")
    \/ at = "forgotten" /\ Synced /\ Ends("saved", {doing.record})

\* The catch of replaceSecretFile: what was moved aside is put back.
Undo ==
    \/ at = "undo" /\ Becomes(Without("target")) /\ Goes("putBack")
    \/ /\ at = "putBack"
       /\ IF disk["previous"] = Absent THEN Same
          ELSE Becomes(Moved("previous", "target"))
       /\ Ends("locked", possible)

-----------------------------------------------------------------------------
Trouble == trouble < MaxTrouble /\ trouble' = trouble + 1

Syncs == {"recovered", "marked", "unlinked", "unmarked", "asideSynced",
          "committed", "forgotten"}

\* A call fails.  A replacement that had moved the old record aside takes its
\* own back and puts the old one back, and what fails there is ignored.  After
\* the last flush of a replacement the old record is gone, so that nothing is
\* put back and neither record is left.
CallFails ==
    /\ at \in Calls /\ Trouble /\ Same
    /\ at \in Syncs => ~win
    /\ CASE at = "undo" -> Goes("putBack")
         [] aside /\ at \notin {"undo", "putBack"} ->
              /\ at' = "undo" /\ lost' = (lost \/ at = "forgotten")
              /\ UNCHANGED <<doing, found, possible, aside>>
         [] OTHER -> Ends("locked", possible)
    /\ UNCHANGED win

Proceeds ==
    /\ \/ Check \/ Recover \/ MarkRemoval \/ CompleteRemoval \/ Read
       \/ Replace \/ Undo
    /\ UNCHANGED <<win, trouble>>

\* What load makes of a directory.
Stands(d) ==
    IF d["delete"] # Absent THEN Absent
    ELSE IF d["target"] # Absent THEN d["target"] ELSE d["previous"]

\* The process is killed, or the power fails; a new process finds one of the
\* directories that may have lasted.
Killed(d) ==
    /\ Trouble
    /\ disk' = d /\ lasting' = {d}
    /\ doing' = Nothing /\ at' = "idle" /\ aside' = FALSE
    /\ found' = "none" /\ possible' = {Stands(d)} /\ lost' = FALSE
    /\ UNCHANGED win

Kill == Killed(disk)
PowerFails == \E d \in lasting : Killed(d)

StoreNext ==
    \/ Load \/ Remove \/ \E r \in Records : Save(r)
    \/ Proceeds \/ CallFails \/ Kill \/ PowerFails

StoreSpec == StoreInit /\ [][StoreNext]_storeVars

-----------------------------------------------------------------------------
\* Whatever fails and whenever the program stops, the transaction found the
\* next time is the one saved last, or one whose writing was under way; one
\* whose removal was answered is never found again, so that a sign-in that
\* was completed or given up is not taken up a second time.  There is one way
\* to find none where there must be one, and Windows does not have it: a save
\* that failed in its very last call, the flush after the old record was
\* deleted, has taken its own record back too.
TransactionKnown ==
    /\ \A d \in lasting \cup {disk} :
          Stands(d) \in possible \/ (lost /\ Stands(d) = Absent)
    /\ lost => ~win
=============================================================================
