--------------------------- MODULE PreferenceStore ---------------------------
(***************************************************************************)
(* The small files the desktop keeps for its window: one JSON object that  *)
(* is read, changed and replaced through a temporary file, one write after *)
(* the other (preferences/database-stats-cache-store.mjs, and              *)
(* appearance-store.mjs, which is the case of a single key that is written *)
(* without reading first).                                                 *)
(*                                                                         *)
(* A call of the file system is a step; calls fail, and the program may be *)
(* killed between two of them.  A renamed file is whole: power losses are  *)
(* the business of CredentialStore.                                        *)
(***************************************************************************)
EXTENDS Naturals, Sequences

CONSTANTS
    Users,          \* whose snapshots are kept
    Snapshots,
    NoEntry,        \* no snapshot is kept for a user
    Limit,          \* entries that are read, 50 in the code
    MaxWrites, MaxMishaps

VARIABLES
    onWindows,      \* platform = "win32"
    content,        \* the file: <<user, snapshot>> pairs in their order
    temporary,      \* the temporary file of this process: "none", "torn", "whole"
    queue,          \* writeQueue: the writes that were asked for
    stage,          \* where the first of them is
    held,           \* the entries it is about to write
    may,            \* per user, the snapshots a reader may find
    writes, mishaps

preferenceVars ==
    <<onWindows, content, temporary, queue, stage, held, may, writes, mishaps>>

\* entries[key] = value: in place, or behind the others.
With(entries, user, snapshot) ==
    LET at == {i \in 1 .. Len(entries) : entries[i][1] = user}
    IN  IF at = {} THEN Append(entries, <<user, snapshot>>)
        ELSE [i \in 1 .. Len(entries) |->
                 IF i \in at THEN <<user, snapshot>> ELSE entries[i]]

readEntries == SubSeq(content, 1, IF Len(content) < Limit THEN Len(content)
                                  ELSE Limit)

read(user) ==
    LET at == {i \in 1 .. Len(readEntries) : readEntries[i][1] = user}
    IN  IF at = {} THEN NoEntry
        ELSE readEntries[CHOOSE i \in at : TRUE][2]

PreferenceInit ==
    /\ onWindows \in BOOLEAN
    /\ content = <<>> /\ temporary = "none"
    /\ queue = <<>> /\ stage = "rest" /\ held = <<>>
    /\ may = [u \in Users |-> {NoEntry}]
    /\ writes = MaxWrites /\ mishaps = MaxMishaps

\* A write waits for the ones before it; until it has been answered a reader
\* may find what it replaces.
write(user, snapshot) ==
    /\ writes > 0 /\ writes' = writes - 1
    /\ queue' = Append(queue, <<user, snapshot>>)
    /\ may' = [may EXCEPT ![user] = @ \cup {snapshot}]
    /\ UNCHANGED <<onWindows, content, temporary, stage, held, mishaps>>

\* Entries that an earlier write read are used again.
TurnWithoutReading ==
    /\ stage = "rest" /\ queue # <<>>
    /\ held' = With(<<>>, Head(queue)[1], Head(queue)[2])
    /\ stage' = "write"
    /\ UNCHANGED <<onWindows, content, temporary, queue, may, writes, mishaps>>

\* The entries are read when the write's turn has come.
Turn ==
    /\ stage = "rest" /\ queue # <<>>
    /\ held' = With(readEntries, Head(queue)[1], Head(queue)[2])
    /\ stage' = "write"
    /\ UNCHANGED <<onWindows, content, temporary, queue, may, writes, mishaps>>

\* The write is over; when it succeeded, and no other one is waiting for the
\* same user, its snapshot is what a reader finds.
Answered(ok) ==
    LET user == Head(queue)[1]
        waiting == {Tail(queue)[i][2] : i \in
                       {j \in 1 .. Len(queue) - 1 : Tail(queue)[j][1] = user}}
    IN  /\ stage' = "rest" /\ queue' = Tail(queue) /\ held' = <<>>
        /\ may' = IF ok
                  THEN [may EXCEPT ![user] = {Head(queue)[2]} \cup waiting]
                  ELSE may

\* writeFile with the flag wx refuses a file that is there.
WriteTemporary ==
    /\ stage = "write" /\ temporary = "none"
    /\ temporary' = "whole"
    /\ stage' = IF onWindows THEN "unlink" ELSE "rename"
    /\ UNCHANGED <<onWindows, content, queue, held, may, writes, mishaps>>

\* It fails, and what it has written stays: the clean-up comes later.
WriteFails ==
    /\ stage = "write"
    /\ IF temporary = "none"
       THEN /\ mishaps > 0 /\ mishaps' = mishaps - 1
            /\ temporary' \in {"none", "torn"}
       ELSE UNCHANGED <<temporary, mishaps>>
    /\ Answered(FALSE)
    /\ UNCHANGED <<onWindows, content, writes>>

\* Windows does not rename over a file.
UnlinkTarget ==
    /\ stage = "unlink" /\ stage' = "rename"
    /\ content' = <<>>
    /\ UNCHANGED <<onWindows, temporary, queue, held, may, writes, mishaps>>

Rename ==
    /\ stage = "rename"
    /\ content' = held /\ temporary' = "none"
    /\ Answered(TRUE)
    /\ UNCHANGED <<onWindows, writes, mishaps>>

\* The file has been replaced, and the write is reported as failed.
ChmodFails ==
    /\ stage = "rename" /\ ~onWindows
    /\ mishaps > 0 /\ mishaps' = mishaps - 1
    /\ content' = held /\ temporary' = "none"
    /\ Answered(FALSE)
    /\ UNCHANGED <<onWindows, writes>>

\* unlink or rename fails; the temporary file is removed.
ReplaceFails ==
    /\ stage \in {"unlink", "rename"}
    /\ mishaps > 0 /\ mishaps' = mishaps - 1
    /\ temporary' = "none"
    /\ Answered(FALSE)
    /\ UNCHANGED <<onWindows, content, writes>>

\* Another process has another pid, and another temporary file.
Kill ==
    /\ mishaps > 0 /\ mishaps' = mishaps - 1
    /\ temporary' = "none"
    /\ queue' = <<>> /\ stage' = "rest" /\ held' = <<>>
    /\ UNCHANGED <<onWindows, content, may, writes>>

PreferenceNext ==
    \/ \E u \in Users, s \in Snapshots : write(u, s)
    \/ Turn \/ WriteTemporary \/ WriteFails \/ UnlinkTarget \/ Rename
    \/ ChmodFails \/ ReplaceFails \/ Kill

PreferenceSpec == PreferenceInit /\ [][PreferenceNext]_preferenceVars

-----------------------------------------------------------------------------
\* A reader finds what was written last for its user or what was being
\* written, whatever happened to the other writes: none loses the entry of
\* another user.  On Windows the file is away between two calls, and stays
\* away when the second one does not come.
EntriesKept ==
    ~onWindows => \A u \in Users : read(u) \in may[u]
=============================================================================
