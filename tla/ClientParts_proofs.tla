-------------------------- MODULE ClientParts_proofs --------------------------
(***************************************************************************)
(* Proofs about the parts of the clients: the files of the desktop shell,  *)
(* the rich text editor, and signing in.  A part is proved by itself, for  *)
(* its instance in ClientParts; PartSteps and the theorems at the end      *)
(* carry these results, and those of ClientScreens_proofs, over to the     *)
(* specification that explores all parts.                                  *)
(***************************************************************************)
EXTENDS ClientScreens_proofs, CredentialStore_proofs

-----------------------------------------------------------------------------
\* The file of a pending sign-in.

Directory == [Pending!Entries -> Records \cup {Absent, "delete"}]

\* Where the calls of an operation find the directory: after recovery nothing
\* is moved aside or marked, a removal has marked the record first, and a
\* replacement has the old record aside until the new one has lasted.
Recovered == {"read", "write", "aside"}
Removing == {"marked", "unlink", "unlinkPrevious", "unlinked", "unmark"}
Replacing == {"asideSynced", "commit", "committed", "forget"}
Withdrawing == {"undo", "putBack"}

\* What may be found in a directory.
Expected == possible \cup IF lost THEN {Absent} ELSE {}

PendingAt ==
    /\ at = "drop" => pendingDisk["delete"] = Absent /\ pendingDisk["target"] # Absent
    /\ at = "restore" => pendingDisk["delete"] = Absent /\ pendingDisk["target"] = Absent
    /\ at \in Recovered \cup {"recovered", "unmarked"} =>
          pendingDisk["delete"] = Absent /\ pendingDisk["previous"] = Absent
    /\ at \in Removing => pendingDisk["delete"] # Absent
    /\ at \in {"unlinkPrevious", "unlinked", "unmark", "unmarked"} =>
          pendingDisk["target"] = Absent
    /\ at \in {"unlinked", "unmark"} => pendingDisk["previous"] = Absent
    /\ at \in Replacing \cup Withdrawing \cup {"forgotten"} => pendingDisk["delete"] = Absent
    /\ at \in Replacing =>
          IF aside THEN pendingDisk["previous"] # Absent /\ pendingDisk["previous"] \in possible
          ELSE pendingDisk["previous"] = Absent
    /\ at \in {"asideSynced", "commit"} => pendingDisk["target"] = Absent
    /\ at \in {"committed", "forget", "forgotten"} => pendingDisk["target"] = doing.record
    /\ at = "forgotten" => pendingDisk["previous"] = Absent
    /\ at \in Withdrawing => pendingDisk["previous"] \in Expected

PendingDoing ==
    /\ doing.op = "save" => doing.record \in Records
    /\ doing.op \in {"save", "remove"} => doing.record \in possible
    /\ doing.op = "remove" => doing.record = Absent
    /\ at \in {"check", "drop", "restore", "recovered"} => doing.op \in {"load", "save"}
    /\ at \in {"mark", "marked"} => doing.op = "remove"
    /\ at \in {"unlink", "unlinkPrevious", "unlinked", "unmark", "unmarked"} =>
          doing.op \in {"load", "save", "remove"}
    /\ at \in {"write", "aside", "forgotten"} \cup Replacing => doing.op = "save"
    /\ aside => at \in {"idle", "forgotten"} \cup Replacing \cup Withdrawing
    /\ at \in {"forget", "forgotten"} => aside

\* Whatever lasts, what stands in it is expected.
PendingShape ==
    /\ pendingDisk \in Directory /\ lasting \subseteq Directory
    /\ pendingDisk \in lasting
    /\ \A d \in lasting : Pending!Stands(d) \in Expected

PendingInv == PendingShape /\ PendingAt /\ PendingDoing

LEMMA PendingBecomes ==
  ASSUME PendingInv, NEW d \in Directory, Pending!Becomes(d),
         Pending!Stands(d) \in Expected, Expected \subseteq Expected'
  PROVE  /\ pendingDisk' = d
         /\ pendingDisk' \in Directory /\ lasting' \subseteq Directory
         /\ pendingDisk' \in lasting'
         /\ \A e \in lasting' : Pending!Stands(e) \in Expected'
  BY DEF PendingInv, PendingShape, Pending!Becomes

LEMMA PendingSynced ==
  ASSUME PendingInv, Pending!Synced, Pending!Stands(pendingDisk) \in Expected'
  PROVE  /\ pendingDisk' = pendingDisk
         /\ pendingDisk' \in Directory /\ lasting' \subseteq Directory
         /\ pendingDisk' \in lasting'
         /\ \A e \in lasting' : Pending!Stands(e) \in Expected'
  BY DEF PendingInv, PendingShape, Pending!Synced

LEMMA PendingSame ==
  ASSUME PendingInv, Pending!Same, Expected \subseteq Expected'
  PROVE  /\ pendingDisk' = pendingDisk
         /\ pendingDisk' \in Directory /\ lasting' \subseteq Directory
         /\ pendingDisk' \in lasting'
         /\ \A e \in lasting' : Pending!Stands(e) \in Expected'
  BY DEF PendingInv, PendingShape, Pending!Same

\* What stands in a directory, and in one without an entry or with one moved.
LEMMA PendingDirectories ==
  ASSUME NEW d \in Directory, NEW n \in Pending!Entries, NEW m \in Pending!Entries,
         NEW r \in Records \cup {Absent, "delete"}
  PROVE  /\ [d EXCEPT ![n] = r] \in Directory
         /\ [d EXCEPT ![n] = d[m], ![m] = Absent] \in Directory
  BY DEF Directory

LEMMA PendingLoadKeeps ==
  ASSUME PendingInv,
         Pending!Load \/ Pending!Remove \/ \E r \in Records : Pending!Save(r)
  PROVE  PendingInv'
  <1>1. PICK o \in {"load", "save", "remove"}, r \in Records \cup {Absent},
             first \in {"check", "mark"} :
          /\ Pending!Begin(o, r, first)
          /\ o = "save" => r \in Records
          /\ o # "save" => r = Absent
          /\ first = IF o = "remove" THEN "mark" ELSE "check"
    BY DEF Pending!Load, Pending!Remove, Pending!Save
  <1>2. /\ doing' = [op |-> o, record |-> r] /\ at' = first /\ aside' = FALSE
        /\ possible \subseteq possible' /\ (o # "load" => r \in possible')
        /\ lost' = lost /\ Pending!Same
    BY <1>1 DEF Pending!Begin, Pending!Same
  <1>3. PendingAt'
    BY <1>1, <1>2 DEF PendingAt, Recovered, Removing, Replacing, Withdrawing
  <1>4. PendingDoing'
    BY <1>1, <1>2 DEF PendingDoing, Replacing, Withdrawing
  <1> QED
    BY <1>2, <1>3, <1>4, PendingSame DEF PendingInv, PendingShape, Expected

\* An operation goes on to another call, and answers nothing yet.
LEMMA PendingGoes ==
  ASSUME NEW c, Pending!Goes(c)
  PROVE  /\ at' = c /\ doing' = doing /\ aside' = aside /\ found' = found
         /\ possible' = possible /\ lost' = lost
  BY DEF Pending!Goes

\* After recovery the directory is clean; a removal that is complete leaves
\* nothing that stands.
LEMMA PendingContinues ==
  ASSUME PendingInv, at \in {"check", "recovered", "unmarked"}, Pending!Continues,
         Pending!Same \/ Pending!Synced,
         pendingDisk["delete"] = Absent, pendingDisk["previous"] = Absent,
         doing.op = "remove" => pendingDisk["target"] = Absent /\ Pending!Synced
  PROVE  PendingInv'
  <1>1. doing.op \in {"load", "save", "remove"} /\ ~aside
    BY DEF PendingInv, PendingShape, PendingDoing, Replacing, Withdrawing
  <1>2. pendingDisk' = pendingDisk /\ Pending!Stands(pendingDisk) \in Expected
    BY DEF Expected, Pending!Same, Pending!Synced, PendingInv, PendingShape
  <1>3. CASE doing.op # "remove"
    <2>1. Pending!Goes(IF doing.op = "load" THEN "read" ELSE "write")
      BY <1>1, <1>3 DEF Pending!Continues
    <2>2. /\ at' = IF doing.op = "load" THEN "read" ELSE "write"
          /\ doing' = doing /\ aside' = aside /\ possible' = possible /\ lost' = lost
      BY <2>1, PendingGoes
    <2>3. PendingShape'
      BY <1>2, <2>2, PendingSame, PendingSynced DEF Expected, PendingShape
    <2>4. PendingAt'
      BY <1>2, <2>2 DEF PendingAt, Recovered, Removing, Replacing, Withdrawing
    <2>5. PendingDoing'
      BY <1>1, <1>3, <2>2 DEF PendingInv, PendingShape, PendingDoing, Replacing, Withdrawing
    <2> QED
      BY <2>3, <2>4, <2>5 DEF PendingInv, PendingShape
  <1>4. CASE doing.op = "remove"
    <2>1. Pending!Ends("removed", {Absent})
      BY <1>4 DEF Pending!Continues
    <2>2. /\ at' = "idle" /\ doing' = Pending!Nothing /\ aside' = aside
          /\ possible' = {Absent}
      BY <2>1 DEF Pending!Ends
    <2>3. Pending!Stands(pendingDisk) = Absent
      BY <1>4 DEF Pending!Stands
    <2>4. PendingShape'
      BY <1>4, <2>2, <2>3, PendingSynced DEF Expected, PendingShape
    <2>5. PendingAt'
      BY <2>2 DEF PendingAt, Recovered, Removing, Replacing, Withdrawing
    <2>6. PendingDoing'
      BY <2>2 DEF PendingDoing, Replacing, Withdrawing, Pending!Nothing
    <2> QED
      BY <2>4, <2>5, <2>6 DEF PendingInv, PendingShape
  <1> QED
    BY <1>3, <1>4

LEMMA PendingCheckKeeps == PendingInv /\ Pending!Check => PendingInv'
  <1> SUFFICES ASSUME PendingInv, Pending!Check PROVE PendingInv'
    OBVIOUS
  <1>1. at = "check" /\ Pending!Same /\ doing.op # "remove" /\ ~aside
    BY DEF Pending!Check, PendingInv, PendingDoing, Replacing, Withdrawing
  <1>2. CASE pendingDisk["delete"] = Absent /\ pendingDisk["previous"] = Absent
    BY <1>1, <1>2, PendingContinues DEF Pending!Check
  <1>3. CASE ~(pendingDisk["delete"] = Absent /\ pendingDisk["previous"] = Absent)
    <2> DEFINE c == IF pendingDisk["delete"] # Absent THEN "unlink"
                    ELSE IF pendingDisk["target"] # Absent THEN "drop" ELSE "restore"
    <2>1. Pending!Goes(c)
      BY <1>3 DEF Pending!Check
    <2>2. /\ at' = c /\ doing' = doing /\ aside' = aside /\ possible' = possible
          /\ lost' = lost /\ pendingDisk' = pendingDisk
      BY <1>1, <2>1, PendingGoes DEF Pending!Same
    <2>3. PendingShape'
      BY <1>1, <2>2, PendingSame DEF Expected, PendingShape
    <2>4. PendingAt'
      BY <2>2 DEF PendingAt, Recovered, Removing, Replacing, Withdrawing
    <2>5. PendingDoing'
      BY <1>1, <2>2 DEF PendingInv, PendingShape, PendingDoing, Replacing, Withdrawing
    <2> QED
      BY <2>3, <2>4, <2>5 DEF PendingInv, PendingShape
  <1> QED
    BY <1>2, <1>3

\* A call that changes an entry and keeps what stands.
LEMMA PendingCall ==
  ASSUME PendingInv, NEW d \in Directory, Pending!Becomes(d),
         Pending!Stands(d) \in Expected, NEW c, Pending!Goes(c)
  PROVE  /\ PendingShape' /\ pendingDisk' = d /\ at' = c /\ doing' = doing
         /\ aside' = aside /\ possible' = possible /\ lost' = lost
  BY PendingGoes, PendingBecomes DEF Expected, PendingShape

LEMMA PendingFlush ==
  ASSUME PendingInv, Pending!Synced, NEW c, Pending!Goes(c)
  PROVE  /\ PendingShape' /\ pendingDisk' = pendingDisk /\ at' = c
         /\ doing' = doing /\ aside' = aside /\ possible' = possible /\ lost' = lost
  BY PendingGoes, PendingSynced DEF Expected, PendingInv, PendingShape

LEMMA PendingRecoverKeeps == PendingInv /\ Pending!Recover => PendingInv'
  <1> SUFFICES ASSUME PendingInv, Pending!Recover PROVE PendingInv'
    OBVIOUS
  <1> USE DEF Recovered, Removing, Replacing, Withdrawing
  <1>1. CASE at = "recovered"
    <2>1. Pending!Synced /\ Pending!Continues
      BY <1>1 DEF Pending!Recover
    <2>2. /\ doing.op # "remove" /\ pendingDisk["delete"] = Absent
          /\ pendingDisk["previous"] = Absent
      BY <1>1 DEF PendingInv, PendingShape, PendingAt, PendingDoing
    <2> QED
      BY <1>1, <2>1, <2>2, PendingContinues
  <1>2. CASE at \in {"drop", "restore"}
    <2> DEFINE d == IF at = "drop" THEN Pending!Without("previous")
                    ELSE Pending!Moved("previous", "target")
    <2>1. Pending!Becomes(d) /\ Pending!Goes("recovered")
      BY <1>2 DEF Pending!Recover
    <2>2. /\ d \in Directory /\ d["delete"] = Absent /\ d["previous"] = Absent
          /\ Pending!Stands(d) = Pending!Stands(pendingDisk)
      BY <1>2 DEF PendingInv, PendingShape, PendingAt, Directory, Pending!Entries, Pending!Without,
           Pending!Moved, Pending!Stands
    <2>3. Pending!Stands(d) \in Expected
      BY <2>2 DEF PendingInv, PendingShape
    <2>4. /\ PendingShape' /\ pendingDisk' = d /\ at' = "recovered" /\ doing' = doing
          /\ aside' = aside /\ possible' = possible /\ lost' = lost
      BY <2>1, <2>2, <2>3, PendingCall
    <2> HIDE DEF d
    <2>5. PendingAt'
      BY <2>2, <2>4 DEF PendingAt
    <2>6. PendingDoing'
      BY <1>2, <2>4 DEF PendingInv, PendingShape, PendingDoing
    <2> QED
      BY <2>4, <2>5, <2>6 DEF PendingInv, PendingShape
  <1> QED
    BY <1>1, <1>2 DEF Pending!Recover

LEMMA PendingMarkKeeps == PendingInv /\ Pending!MarkRemoval => PendingInv'
  <1> SUFFICES ASSUME PendingInv, Pending!MarkRemoval PROVE PendingInv'
    OBVIOUS
  <1> USE DEF Recovered, Removing, Replacing, Withdrawing
  <1>1. CASE at = "mark"
    <2> DEFINE d == [pendingDisk EXCEPT !["delete"] = "delete"]
    <2>1. Pending!Becomes(d) /\ Pending!Goes("marked")
      BY <1>1 DEF Pending!MarkRemoval
    <2>2. d \in Directory /\ d["delete"] # Absent
      BY PendingAssumption DEF PendingInv, PendingShape, Directory, Pending!Entries
    <2>3. Pending!Stands(d) \in Expected
      BY <1>1, <2>2 DEF Expected, PendingInv, PendingShape, PendingDoing, Pending!Stands
    <2>4. /\ PendingShape' /\ pendingDisk' = d /\ at' = "marked" /\ doing' = doing
          /\ aside' = aside /\ possible' = possible /\ lost' = lost
      BY <2>1, <2>2, <2>3, PendingCall
    <2> HIDE DEF d
    <2>5. PendingAt'
      BY <2>2, <2>4 DEF PendingAt
    <2>6. PendingDoing'
      BY <1>1, <2>4 DEF PendingInv, PendingShape, PendingDoing
    <2> QED
      BY <2>4, <2>5, <2>6 DEF PendingInv, PendingShape
  <1>2. CASE at = "marked"
    <2>1. Pending!Synced /\ Pending!Goes("unlink")
      BY <1>2 DEF Pending!MarkRemoval
    <2>2. /\ PendingShape' /\ pendingDisk' = pendingDisk /\ at' = "unlink"
          /\ doing' = doing /\ aside' = aside /\ possible' = possible /\ lost' = lost
      BY <2>1, PendingFlush
    <2>3. PendingAt'
      BY <1>2, <2>2 DEF PendingInv, PendingShape, PendingAt
    <2>4. PendingDoing'
      BY <1>2, <2>2 DEF PendingInv, PendingShape, PendingDoing
    <2> QED
      BY <2>2, <2>3, <2>4 DEF PendingInv, PendingShape
  <1> QED
    BY <1>1, <1>2 DEF Pending!MarkRemoval

LEMMA PendingRemovalKeeps == PendingInv /\ Pending!CompleteRemoval => PendingInv'
  <1> SUFFICES ASSUME PendingInv, Pending!CompleteRemoval PROVE PendingInv'
    OBVIOUS
  <1> USE DEF Recovered, Removing, Replacing, Withdrawing
  <1>1. CASE at = "unmarked"
    <2>1. Pending!Synced /\ Pending!Continues
      BY <1>1 DEF Pending!CompleteRemoval
    <2>2. /\ pendingDisk["delete"] = Absent /\ pendingDisk["previous"] = Absent
          /\ pendingDisk["target"] = Absent
      BY <1>1 DEF PendingInv, PendingAt
    <2> QED
      BY <1>1, <2>1, <2>2, PendingContinues
  <1>2. CASE at = "unlinked"
    <2>1. Pending!Synced /\ Pending!Goes("unmark")
      BY <1>2 DEF Pending!CompleteRemoval
    <2>2. /\ PendingShape' /\ pendingDisk' = pendingDisk /\ at' = "unmark"
          /\ doing' = doing /\ aside' = aside /\ possible' = possible /\ lost' = lost
      BY <2>1, PendingFlush
    <2>3. PendingAt'
      BY <1>2, <2>2 DEF PendingInv, PendingAt
    <2>4. PendingDoing'
      BY <1>2, <2>2 DEF PendingInv, PendingDoing
    <2> QED
      BY <2>2, <2>3, <2>4 DEF PendingInv
  <1>3. CASE at \in {"unlink", "unlinkPrevious", "unmark"}
    <2> DEFINE n == IF at = "unlink" THEN "target"
                    ELSE IF at = "unlinkPrevious" THEN "previous" ELSE "delete"
               d == [pendingDisk EXCEPT ![n] = Absent]
               c == IF at = "unlink" THEN "unlinkPrevious"
                    ELSE IF at = "unlinkPrevious" THEN "unlinked" ELSE "unmarked"
    <2>1. Pending!Becomes(d) /\ Pending!Goes(c)
      BY <1>3 DEF Pending!CompleteRemoval, Pending!Without
    <2>2. /\ d \in Directory /\ d[n] = Absent
          /\ \A m \in Pending!Entries \ {n} : d[m] = pendingDisk[m]
      BY <1>3 DEF PendingInv, PendingShape, Directory, Pending!Entries
    <2>3. Pending!Stands(d) = Absent /\ Pending!Stands(pendingDisk) = Absent
      BY <1>3, <2>2 DEF PendingInv, PendingAt, Pending!Stands, Pending!Entries
    <2>4. Pending!Stands(d) \in Expected
      BY <2>3 DEF PendingInv, PendingShape
    <2>5. /\ PendingShape' /\ pendingDisk' = d /\ at' = c /\ doing' = doing
          /\ aside' = aside /\ possible' = possible /\ lost' = lost
      BY <2>1, <2>2, <2>4, PendingCall
    <2> HIDE DEF d
    <2>6. PendingAt'
      BY <1>3, <2>2, <2>5 DEF PendingInv, PendingAt, Pending!Entries
    <2>7. PendingDoing'
      BY <1>3, <2>5 DEF PendingInv, PendingDoing
    <2> QED
      BY <2>5, <2>6, <2>7 DEF PendingInv
  <1> QED
    BY <1>1, <1>2, <1>3 DEF Pending!CompleteRemoval

\* An operation ends with its answer.
LEMMA PendingEnds ==
  ASSUME PendingShape', NEW a, NEW K, Pending!Ends(a, K)
  PROVE  PendingInv'
  <1>1. at' = "idle" /\ doing' = Pending!Nothing
    BY DEF Pending!Ends
  <1>2. PendingAt'
    BY <1>1 DEF PendingAt, Recovered, Removing, Replacing, Withdrawing
  <1>3. PendingDoing'
    BY <1>1 DEF PendingDoing, Replacing, Withdrawing, Pending!Nothing
  <1> QED
    BY <1>2, <1>3 DEF PendingInv

LEMMA PendingReadKeeps == PendingInv /\ Pending!Read => PendingInv'
  <1> SUFFICES ASSUME PendingInv, Pending!Read PROVE PendingInv'
    OBVIOUS
  <1> DEFINE a == IF pendingDisk["target"] = Absent THEN "empty" ELSE pendingDisk["target"]
  <1>1. Pending!Ends(a, possible) /\ Pending!Same
    BY DEF Pending!Read
  <1>2. a \notin {"saved", "removed"}
    BY PendingAssumption DEF PendingInv, PendingShape, Directory, Pending!Entries
  <1> HIDE DEF a
  <1>3. Expected' = Expected
    BY <1>1, <1>2 DEF Pending!Ends, Expected
  <1>4. PendingShape'
    BY <1>1, <1>3, PendingSame DEF PendingShape
  <1> QED
    BY <1>1, <1>4, PendingEnds

LEMMA PendingReplaceKeeps == PendingInv /\ Pending!Replace => PendingInv'
  <1> SUFFICES ASSUME PendingInv, Pending!Replace PROVE PendingInv'
    OBVIOUS
  <1> USE DEF Recovered, Removing, Replacing, Withdrawing
  <1>1. CASE at = "write" \/ (at = "aside" /\ pendingDisk["target"] = Absent)
    <2> DEFINE c == IF at = "write" THEN "aside" ELSE "commit"
    <2>1. Pending!Same /\ Pending!Goes(c)
      BY <1>1 DEF Pending!Replace
    <2>2. /\ at' = c /\ doing' = doing /\ aside' = aside /\ possible' = possible
          /\ lost' = lost /\ pendingDisk' = pendingDisk
      BY <2>1, PendingGoes DEF Pending!Same
    <2>3. PendingShape'
      BY <2>1, <2>2, PendingSame DEF Expected, PendingShape
    <2>4. PendingAt'
      BY <1>1, <2>2 DEF PendingInv, PendingAt, PendingDoing
    <2>5. PendingDoing'
      BY <1>1, <2>2 DEF PendingInv, PendingDoing
    <2> QED
      BY <2>3, <2>4, <2>5 DEF PendingInv
  <1>2. CASE at = "aside" /\ pendingDisk["target"] # Absent
    <2> DEFINE d == [pendingDisk EXCEPT !["previous"] = pendingDisk["target"],
                                        !["target"] = Absent]
    <2>1. /\ Pending!Becomes(d) /\ aside' = TRUE /\ at' = "asideSynced"
          /\ doing' = doing /\ possible' = possible /\ lost' = lost
      BY <1>2 DEF Pending!Replace, Pending!Moved
    <2>2. /\ d \in Directory /\ d["delete"] = Absent /\ d["target"] = Absent
          /\ d["previous"] = pendingDisk["target"]
          /\ Pending!Stands(d) = pendingDisk["target"]
          /\ Pending!Stands(pendingDisk) = pendingDisk["target"]
      BY <1>2 DEF PendingInv, PendingShape, PendingAt, Directory, Pending!Entries,
           Pending!Stands
    <2>3. pendingDisk["target"] \in possible /\ pendingDisk["target"] \in Expected
      BY <1>2, <2>2 DEF Expected, PendingInv, PendingShape
    <2> HIDE DEF d
    <2>4. PendingShape' /\ pendingDisk' = d
      BY <2>1, <2>2, <2>3, PendingBecomes DEF Expected, PendingShape
    <2>5. PendingAt'
      BY <1>2, <2>1, <2>2, <2>3, <2>4 DEF PendingAt
    <2>6. PendingDoing'
      BY <1>2, <2>1 DEF PendingInv, PendingDoing
    <2> QED
      BY <2>4, <2>5, <2>6 DEF PendingInv
  <1>3. CASE at = "asideSynced" \/ (at = "committed" /\ aside)
    <2> DEFINE c == IF at = "committed" THEN "forget" ELSE "commit"
    <2>1. Pending!Synced /\ Pending!Goes(c)
      BY <1>3 DEF Pending!Replace
    <2>2. /\ PendingShape' /\ pendingDisk' = pendingDisk /\ at' = c
          /\ doing' = doing /\ aside' = aside /\ possible' = possible /\ lost' = lost
      BY <2>1, PendingFlush
    <2>3. PendingAt'
      BY <1>3, <2>2 DEF PendingInv, PendingAt
    <2>4. PendingDoing'
      BY <1>3, <2>2 DEF PendingInv, PendingDoing
    <2> QED
      BY <2>2, <2>3, <2>4 DEF PendingInv
  <1>4. CASE at = "commit"
    <2> DEFINE d == [pendingDisk EXCEPT !["target"] = doing.record]
    <2>1. Pending!Becomes(d) /\ Pending!Goes("committed")
      BY <1>4 DEF Pending!Replace
    <2>2. doing.record \in Records /\ doing.record \in possible /\ doing.record # Absent
      BY <1>4, PendingAssumption DEF PendingInv, PendingDoing
    <2>3. /\ d \in Directory /\ d["delete"] = Absent /\ d["target"] = doing.record
          /\ d["previous"] = pendingDisk["previous"] /\ Pending!Stands(d) = doing.record
      BY <1>4, <2>2 DEF PendingInv, PendingShape, PendingAt, Directory, Pending!Entries,
           Pending!Stands
    <2>4. /\ PendingShape' /\ pendingDisk' = d /\ at' = "committed" /\ doing' = doing
          /\ aside' = aside /\ possible' = possible /\ lost' = lost
      BY <2>1, <2>2, <2>3, PendingCall DEF Expected
    <2> HIDE DEF d
    <2>5. PendingAt'
      BY <1>4, <2>3, <2>4 DEF PendingInv, PendingAt
    <2>6. PendingDoing'
      BY <1>4, <2>4 DEF PendingInv, PendingDoing
    <2> QED
      BY <2>4, <2>5, <2>6 DEF PendingInv
  <1>5. CASE at = "forgotten" \/ (at = "committed" /\ ~aside)
    <2>1. Pending!Synced /\ Pending!Ends("saved", {doing.record})
      BY <1>5 DEF Pending!Replace, PendingInv, PendingDoing
    <2>2. Pending!Stands(pendingDisk) = doing.record
      BY <1>5, PendingAssumption DEF PendingInv, PendingAt, PendingDoing, Pending!Stands
    <2>3. PendingShape'
      BY <2>1, <2>2, PendingSynced DEF Expected, Pending!Ends, PendingShape
    <2> QED
      BY <2>1, <2>3, PendingEnds
  <1>6. CASE at = "forget"
    <2> DEFINE d == [pendingDisk EXCEPT !["previous"] = Absent]
    <2>1. Pending!Becomes(d) /\ Pending!Goes("forgotten")
      BY <1>6 DEF Pending!Replace, Pending!Without
    <2>2. doing.record # Absent /\ doing.record \in possible
      BY <1>6, PendingAssumption DEF PendingInv, PendingDoing
    <2>3. /\ d \in Directory /\ d["delete"] = Absent /\ d["target"] = doing.record
          /\ d["previous"] = Absent /\ Pending!Stands(d) = doing.record
      BY <1>6, <2>2 DEF PendingInv, PendingShape, PendingAt, Directory, Pending!Entries,
           Pending!Stands
    <2>4. /\ PendingShape' /\ pendingDisk' = d /\ at' = "forgotten" /\ doing' = doing
          /\ aside' = aside /\ possible' = possible /\ lost' = lost
      BY <2>1, <2>2, <2>3, PendingCall DEF Expected
    <2> HIDE DEF d
    <2>5. PendingAt'
      BY <2>3, <2>4 DEF PendingAt
    <2>6. PendingDoing'
      BY <1>6, <2>4 DEF PendingInv, PendingDoing
    <2> QED
      BY <2>4, <2>5, <2>6 DEF PendingInv
  <1> QED
    BY <1>1, <1>2, <1>3, <1>4, <1>5, <1>6 DEF Pending!Replace

\* The directory of a replacement that is being withdrawn.
LEMMA PendingWithdrawn ==
  ASSUME PendingInv, at \in Withdrawing, NEW d \in Directory,
         \/ d = pendingDisk
         \/ d = [pendingDisk EXCEPT !["target"] = Absent]
         \/ /\ pendingDisk["previous"] # Absent
            /\ d = [pendingDisk EXCEPT !["target"] = pendingDisk["previous"],
                                       !["previous"] = Absent]
  PROVE  /\ d["delete"] = Absent /\ Pending!Stands(d) \in Expected
         /\ d["previous"] \in {Absent, pendingDisk["previous"]}
  <1>1. /\ pendingDisk \in Directory /\ pendingDisk["delete"] = Absent
        /\ pendingDisk["previous"] \in Expected
        /\ Pending!Stands(pendingDisk) \in Expected
    BY DEF PendingInv, PendingShape, PendingAt
  <1> QED
    BY <1>1 DEF Directory, Pending!Entries, Pending!Stands

LEMMA PendingUndoKeeps == PendingInv /\ Pending!Undo => PendingInv'
  <1> SUFFICES ASSUME PendingInv, Pending!Undo PROVE PendingInv'
    OBVIOUS
  <1> USE DEF Recovered, Removing, Replacing, Withdrawing
  <1>1. CASE at = "undo"
    <2> DEFINE d == [pendingDisk EXCEPT !["target"] = Absent]
    <2>1. Pending!Becomes(d) /\ Pending!Goes("putBack")
      BY <1>1 DEF Pending!Undo, Pending!Without
    <2>2. /\ d \in Directory /\ d["delete"] = Absent /\ Pending!Stands(d) \in Expected
          /\ d["previous"] = pendingDisk["previous"]
          /\ pendingDisk["previous"] \in Expected
      <3>1. d \in Directory /\ d["previous"] = pendingDisk["previous"]
        BY DEF PendingInv, PendingShape, Directory, Pending!Entries
      <3> QED
        BY <1>1, <3>1, PendingWithdrawn DEF PendingInv, PendingAt
    <2>3. /\ PendingShape' /\ pendingDisk' = d /\ at' = "putBack" /\ doing' = doing
          /\ aside' = aside /\ possible' = possible /\ lost' = lost
      BY <2>1, <2>2, PendingCall
    <2> HIDE DEF d
    <2>4. PendingAt'
      BY <2>2, <2>3 DEF PendingAt, Expected
    <2>5. PendingDoing'
      BY <1>1, <2>3 DEF PendingInv, PendingDoing
    <2> QED
      BY <2>3, <2>4, <2>5 DEF PendingInv
  <1>2. CASE at = "putBack"
    <2>1. Pending!Ends("locked", possible) /\ Expected' = Expected
      BY <1>2 DEF Pending!Undo, Pending!Ends, Expected
    <2>2. CASE pendingDisk["previous"] = Absent
      <3>1. PendingShape'
        BY <1>2, <2>1, <2>2, PendingSame DEF Pending!Undo, PendingShape
      <3> QED
        BY <2>1, <3>1, PendingEnds
    <2>3. CASE pendingDisk["previous"] # Absent
      <3> DEFINE d == [pendingDisk EXCEPT !["target"] = pendingDisk["previous"],
                                          !["previous"] = Absent]
      <3>1. Pending!Becomes(d)
        BY <1>2, <2>3 DEF Pending!Undo, Pending!Moved
      <3>2. d \in Directory
        BY DEF PendingInv, PendingShape, Directory, Pending!Entries
      <3>3. Pending!Stands(d) \in Expected
        BY <1>2, <2>3, <3>2, PendingWithdrawn
      <3> HIDE DEF d
      <3>4. PendingShape'
        BY <2>1, <3>1, <3>2, <3>3, PendingBecomes DEF PendingShape
      <3> QED
        BY <2>1, <3>4, PendingEnds
    <2> QED
      BY <2>2, <2>3
  <1> QED
    BY <1>1, <1>2 DEF Pending!Undo

LEMMA PendingFailsKeeps == PendingInv /\ Pending!CallFails => PendingInv'
  <1> SUFFICES ASSUME PendingInv, Pending!CallFails PROVE PendingInv'
    OBVIOUS
  <1> USE DEF Recovered, Removing, Replacing, Withdrawing
  <1>1. CASE aside /\ at \notin Withdrawing
    <2>1. /\ at' = "undo" /\ Pending!Same /\ doing' = doing /\ aside' = aside
          /\ at # "idle" /\ possible' = possible /\ lost' = (lost \/ at = "forgotten")
      BY <1>1 DEF Pending!CallFails, Pending!Calls
    <2>2. at \in Replacing \cup {"forgotten"}
      BY <1>1, <2>1 DEF PendingInv, PendingDoing
    <2>3. Expected \subseteq Expected'
      BY <2>1 DEF Expected
    <2>4. PendingShape' /\ pendingDisk' = pendingDisk
      BY <2>1, <2>3, PendingSame DEF PendingShape
    <2>5. PendingAt'
      <3>1. pendingDisk["delete"] = Absent
        BY <2>2 DEF PendingInv, PendingAt
      <3>2. pendingDisk["previous"] \in Expected'
        BY <1>1, <2>1, <2>2 DEF PendingInv, PendingAt, Expected
      <3> QED
        BY <2>1, <2>4, <3>1, <3>2 DEF PendingAt
    <2>6. PendingDoing'
      BY <2>1, <2>2 DEF PendingInv, PendingDoing
    <2> QED
      BY <2>4, <2>5, <2>6 DEF PendingInv
  <1>2. CASE at = "undo"
    <2>1. Pending!Same /\ Pending!Goes("putBack")
      BY <1>2 DEF Pending!CallFails
    <2>2. /\ at' = "putBack" /\ doing' = doing /\ aside' = aside
          /\ possible' = possible /\ Expected' = Expected
      BY <2>1, PendingGoes DEF Expected
    <2>3. PendingShape' /\ pendingDisk' = pendingDisk
      BY <2>1, <2>2, PendingSame DEF PendingShape
    <2>4. PendingAt'
      BY <1>2, <2>2, <2>3 DEF PendingInv, PendingAt
    <2>5. PendingDoing'
      BY <1>2, <2>2 DEF PendingInv, PendingDoing
    <2> QED
      BY <2>3, <2>4, <2>5 DEF PendingInv
  <1>3. CASE at # "undo" /\ ~(aside /\ at \notin Withdrawing)
    <2>1. Pending!Ends("locked", possible) /\ Pending!Same
      BY <1>3 DEF Pending!CallFails
    <2>2. Expected' = Expected
      BY <2>1 DEF Pending!Ends, Expected
    <2>3. PendingShape'
      BY <2>1, <2>2, PendingSame DEF PendingShape
    <2> QED
      BY <2>1, <2>3, PendingEnds
  <1> QED
    BY <1>1, <1>2, <1>3

LEMMA PendingKillKeeps ==
  ASSUME PendingInv, NEW d \in lasting, Pending!Killed(d)
  PROVE  PendingInv'
  <1>1. /\ pendingDisk' = d /\ lasting' = {d} /\ doing' = Pending!Nothing
        /\ at' = "idle" /\ aside' = FALSE /\ possible' = {Pending!Stands(d)}
    BY DEF Pending!Killed
  <1>2. PendingShape'
    BY <1>1 DEF Expected, PendingInv, PendingShape
  <1>3. PendingAt'
    BY <1>1 DEF PendingAt, Recovered, Removing, Replacing, Withdrawing
  <1>4. PendingDoing'
    BY <1>1 DEF PendingDoing, Replacing, Withdrawing, Pending!Nothing
  <1> QED
    BY <1>2, <1>3, <1>4 DEF PendingInv

LEMMA PendingInit == Pending!StoreInit => PendingInv
  <1> SUFFICES ASSUME Pending!StoreInit PROVE PendingInv
    OBVIOUS
  <1>1. PendingShape
    BY DEF Expected, Pending!StoreInit, PendingShape, Directory, Pending!Entries, Pending!Stands
  <1>2. PendingAt
    BY DEF Pending!StoreInit, PendingAt, Recovered, Removing, Replacing, Withdrawing
  <1>3. PendingDoing
    BY DEF Pending!StoreInit, PendingDoing, Pending!Nothing, Replacing, Withdrawing
  <1> QED
    BY <1>1, <1>2, <1>3 DEF PendingInv

LEMMA PendingNext == PendingInv /\ [Pending!StoreNext]_storeVars => PendingInv'
  <1> SUFFICES ASSUME PendingInv, [Pending!StoreNext]_storeVars PROVE PendingInv'
    OBVIOUS
  <1>1. CASE Pending!StoreNext
    <2>1. CASE Pending!Load \/ Pending!Remove \/ \E r \in Records : Pending!Save(r)
      BY <2>1, PendingLoadKeeps
    <2>2. CASE Pending!Proceeds
      BY <2>2, PendingCheckKeeps, PendingRecoverKeeps, PendingMarkKeeps,
         PendingRemovalKeeps, PendingReadKeeps, PendingReplaceKeeps, PendingUndoKeeps
         DEF Pending!Proceeds
    <2>3. CASE Pending!CallFails
      BY <2>3, PendingFailsKeeps
    <2>4. CASE Pending!Kill \/ Pending!PowerFails
      BY <2>4, PendingKillKeeps DEF Pending!Kill, Pending!PowerFails, PendingInv, PendingShape
    <2> QED
      BY <1>1, <2>1, <2>2, <2>3, <2>4 DEF Pending!StoreNext
  <1>2. CASE UNCHANGED storeVars
    BY <1>2 DEF Expected, storeVars, PendingInv, PendingShape, PendingAt, PendingDoing
  <1> QED
    BY <1>1, <1>2

\* Only where directories are flushed may a flush fail.
FlushLost == lost => ~win

LEMMA FlushLostNext ==
    PendingInv /\ FlushLost /\ [Pending!StoreNext]_storeVars => FlushLost'
  <1> SUFFICES ASSUME PendingInv, FlushLost, [Pending!StoreNext]_storeVars PROVE FlushLost'
    OBVIOUS
  <1>1. CASE Pending!CallFails
    <2>1. win' = win /\ (lost' => lost \/ (at = "forgotten" /\ ~win))
      BY <1>1 DEF Pending!CallFails, Pending!Syncs, Pending!Goes, Pending!Ends
    <2> QED
      BY <2>1 DEF FlushLost
  <1>2. CASE Pending!StoreNext /\ ~Pending!CallFails
    <2>1. CASE Pending!Kill \/ Pending!PowerFails
      BY <2>1 DEF Pending!Kill, Pending!PowerFails, Pending!Killed, FlushLost
    <2>2. CASE Pending!Load \/ Pending!Remove \/ \E r \in Records : Pending!Save(r)
      BY <2>2 DEF Pending!Load, Pending!Remove, Pending!Save, Pending!Begin, FlushLost
    <2>3. CASE Pending!Proceeds
      <3>1. ASSUME NEW c, Pending!Goes(c) PROVE lost' => lost
        BY <3>1 DEF Pending!Goes
      <3>2. ASSUME NEW a, NEW K, Pending!Ends(a, K) PROVE lost' => lost
        BY <3>2 DEF Pending!Ends
      <3>3. ASSUME at \in {"check", "recovered", "unmarked"}, Pending!Continues
            PROVE  lost' => lost
        <4>1. doing.op \in {"load", "save", "remove"}
          BY <3>3 DEF PendingInv, PendingDoing
        <4> QED
          BY <3>1, <3>2, <3>3, <4>1 DEF Pending!Continues
      <3>4. lost' => lost
        <4>1. CASE Pending!Check
          BY <3>1, <3>3, <4>1 DEF Pending!Check
        <4>2. CASE Pending!Recover
          BY <3>1, <3>3, <4>2 DEF Pending!Recover
        <4>3. CASE Pending!MarkRemoval
          BY <3>1, <4>3 DEF Pending!MarkRemoval
        <4>4. CASE Pending!CompleteRemoval
          BY <3>1, <3>3, <4>4 DEF Pending!CompleteRemoval
        <4>5. CASE Pending!Read
          BY <3>2, <4>5 DEF Pending!Read
        <4>6. CASE Pending!Replace
          BY <3>1, <3>2, <4>6 DEF Pending!Replace
        <4>7. CASE Pending!Undo
          BY <3>1, <3>2, <4>7 DEF Pending!Undo
        <4> QED
          BY <2>3, <4>1, <4>2, <4>3, <4>4, <4>5, <4>6, <4>7 DEF Pending!Proceeds
      <3>5. win' = win
        BY <2>3 DEF Pending!Proceeds
      <3> QED
        BY <3>4, <3>5 DEF FlushLost
    <2> QED
      BY <1>2, <2>1, <2>2, <2>3 DEF Pending!StoreNext
  <1>3. CASE UNCHANGED storeVars
    BY <1>3 DEF storeVars, FlushLost
  <1> QED
    BY <1>1, <1>2, <1>3

-----------------------------------------------------------------------------
\* The statistics cache.

Pairs == Users \X Snapshots

\* No user has two entries.
Keyed(s) == \A i, j \in 1 .. Len(s) : s[i][1] = s[j][1] => i = j

\* A reader finds what it may, and a write under way has read what is there.
PrefsEntries ==
    /\ content \in Seq(Pairs) /\ Keyed(content)
    /\ \A i \in 1 .. Len(content) : content[i][2] \in preferenceMay[content[i][1]]
    /\ \A u \in Users : (\A i \in 1 .. Len(content) : content[i][1] # u) =>
          NoEntry \in preferenceMay[u]
PrefsQueue ==
    /\ queue \in Seq(Pairs) /\ DOMAIN preferenceMay = Users
    /\ \A i \in 1 .. Len(queue) : queue[i][2] \in preferenceMay[queue[i][1]]
    /\ preferenceStage \in {"rest", "write", "unlink", "rename"}
    /\ preferenceStage # "rest" =>
          /\ queue # <<>>
          /\ preferenceStage # "unlink"
          /\ held = Prefs!With(content, Head(queue)[1], Head(queue)[2])
PrefsInv == ~onWindows => PrefsEntries /\ PrefsQueue

LEMMA KeyedFits ==
  ASSUME NEW s \in Seq(Pairs), Keyed(s)
  PROVE  Len(s) <= Limit
  <1>1. SUFFICES ASSUME Len(s) > Limit PROVE FALSE
    BY PreferenceAssumption
  <1> DEFINE f == [i \in 1 .. Len(s) |-> s[i][1]]
  <1>2. IsFiniteSet(1 .. Len(s)) /\ Cardinality(1 .. Len(s)) = Len(s)
    <2>1. Len(s) \in Nat /\ 1 \in Int /\ Len(s) \in Int
      OBVIOUS
    <2> QED
      BY <2>1, FS_Interval
  <1>3. f \in [1 .. Len(s) -> Users]
    BY DEF Pairs
  <1>4. Cardinality(Users) < Cardinality(1 .. Len(s))
    <2>1. Cardinality(Users) \in Nat
      BY PreferenceAssumption, FS_CardinalityType
    <2> QED
      BY <1>1, <1>2, <2>1, PreferenceAssumption
  <1>5. \E i, j \in 1 .. Len(s) : i # j /\ f[i] = f[j]
    <2> HIDE DEF f
    <2>1. IsFiniteSet(Users) /\ IsFiniteSet(1 .. Len(s))
      BY <1>2, PreferenceAssumption
    <2> QED
      BY <2>1, <1>3, <1>4, FS_PigeonHole
  <1> QED
    BY <1>5 DEF Keyed

\* The entry of a user is replaced, or added, and the others stay.
Replaces(w, s, u, x) ==
    /\ w \in Seq(Pairs) /\ Keyed(w)
    /\ \A i \in 1 .. Len(w) :
          w[i] = <<u, x>> \/ \E j \in 1 .. Len(s) : s[j] = w[i] /\ s[j][1] # u
    /\ \A v \in Users : (\A i \in 1 .. Len(w) : w[i][1] # v) =>
          v # u /\ \A i \in 1 .. Len(s) : s[i][1] # v

LEMMA WithEntry ==
  ASSUME NEW s \in Seq(Pairs), Keyed(s), NEW u \in Users, NEW x \in Snapshots
  PROVE  Replaces(Prefs!With(s, u, x), s, u, x)
  <1> DEFINE w == Prefs!With(s, u, x)
  <1> SUFFICES /\ w \in Seq(Pairs) /\ Keyed(w)
               /\ \A i \in 1 .. Len(w) :
                     w[i] = <<u, x>> \/ \E j \in 1 .. Len(s) : s[j] = w[i] /\ s[j][1] # u
               /\ \A v \in Users : (\A i \in 1 .. Len(w) : w[i][1] # v) =>
                     v # u /\ \A i \in 1 .. Len(s) : s[i][1] # v
    BY DEF Replaces
  <1> DEFINE K == {i \in 1 .. Len(s) : s[i][1] = u}
  <1>1. Len(s) \in Nat /\ <<u, x>> \in Pairs /\ \A i \in 1 .. Len(s) : s[i] \in Pairs
    BY DEF Pairs
  <1>2. CASE K = {}
    <2>1. w = Append(s, <<u, x>>)
      BY <1>2 DEF Prefs!With
    <2> HIDE DEF w
    <2>2. /\ Len(w) = Len(s) + 1 /\ w[Len(s) + 1] = <<u, x>>
          /\ \A i \in 1 .. Len(s) : w[i] = s[i]
      BY <1>1, <2>1
    <2>3. w \in Seq(Pairs)
      BY <1>1, <2>1
    <2>4. \A i \in 1 .. Len(s) : s[i][1] # u
      BY <1>2
    <2>5. <<u, x>>[1] = u
      OBVIOUS
    <2>6. \A i \in 1 .. Len(w) : i \in 1 .. Len(s) \/ i = Len(s) + 1
      BY <1>1, <2>2
    <2>7. \A i \in 1 .. Len(s) : w[i][1] = s[i][1]
      BY <2>2
    <2>8. w[Len(s) + 1][1] = u
      BY <2>2, <2>5
    <2> HIDE DEF K
    <2>9. Keyed(w)
      <3> SUFFICES ASSUME NEW i \in 1 .. Len(w), NEW j \in 1 .. Len(w), w[i][1] = w[j][1]
                   PROVE  i = j
        BY DEF Keyed
      <3> QED
        BY <2>4, <2>6, <2>7, <2>8 DEF Keyed
    <2>10. \A i \in 1 .. Len(w) :
              w[i] = <<u, x>> \/ \E j \in 1 .. Len(s) : s[j] = w[i] /\ s[j][1] # u
      BY <2>2, <2>4, <2>6
    <2>11. Len(s) + 1 \in 1 .. Len(w) /\ \A i \in 1 .. Len(s) : i \in 1 .. Len(w)
      BY <1>1, <2>2
    <2>12. \A v \in Users : (\A i \in 1 .. Len(w) : w[i][1] # v) =>
              v # u /\ \A i \in 1 .. Len(s) : s[i][1] # v
      BY <2>7, <2>8, <2>11
    <2> QED
      BY <2>3, <2>9, <2>10, <2>12
  <1>3. CASE K # {}
    <2>1. w = [i \in 1 .. Len(s) |-> IF i \in K THEN <<u, x>> ELSE s[i]]
      BY <1>3 DEF Prefs!With
    <2> HIDE DEF w
    <2>2. w \in Seq(Pairs) /\ Len(w) = Len(s)
      BY <1>1, <2>1
    <2>3. \A i \in 1 .. Len(s) : w[i] = IF s[i][1] = u THEN <<u, x>> ELSE s[i]
      BY <2>1
    <2>4. \A i \in 1 .. Len(s) : w[i][1] = s[i][1]
      BY <2>3
    <2>5. Keyed(w)
      BY <2>2, <2>4 DEF Keyed
    <2>6. \A i \in 1 .. Len(w) :
              w[i] = <<u, x>> \/ \E j \in 1 .. Len(s) : s[j] = w[i] /\ s[j][1] # u
      BY <2>2, <2>3
    <2>7. PICK k \in 1 .. Len(s) : s[k][1] = u
      BY <1>3
    <2>8. \A v \in Users : (\A i \in 1 .. Len(w) : w[i][1] # v) =>
              v # u /\ \A i \in 1 .. Len(s) : s[i][1] # v
      BY <2>2, <2>4, <2>7
    <2> QED
      BY <2>2, <2>5, <2>6, <2>8
  <1> QED
    BY <1>2, <1>3

LEMMA PrefsInit == Prefs!PreferenceInit => PrefsInv
  <1> SUFFICES ASSUME Prefs!PreferenceInit PROVE PrefsInv
    OBVIOUS
  <1>1. /\ content = <<>> /\ queue = <<>> /\ preferenceStage = "rest"
        /\ preferenceMay = [u \in Users |-> {NoEntry}]
    BY DEF Prefs!PreferenceInit
  <1> QED
    BY <1>1 DEF PrefsInv, PrefsEntries, PrefsQueue, Keyed

\* No entry is left out when the file is read.
LEMMA ReadAll ==
  ASSUME content \in Seq(Pairs), Keyed(content)
  PROVE  Prefs!readEntries = content
  <1>1. Len(content) <= Limit /\ Len(content) \in Nat /\ Limit \in Nat
    BY KeyedFits, PreferenceAssumption
  <1>2. Prefs!readEntries = SubSeq(content, 1, Len(content))
    BY <1>1 DEF Prefs!readEntries
  <1> QED
    BY <1>2

LEMMA PrefsWriteKeeps ==
  ASSUME PrefsEntries, PrefsQueue, NEW u \in Users, NEW x \in Snapshots, Prefs!write(u, x)
  PROVE  PrefsEntries' /\ PrefsQueue'
  <1>1. /\ content' = content /\ queue' = Append(queue, <<u, x>>)
        /\ preferenceMay' = [preferenceMay EXCEPT ![u] = @ \cup {x}]
        /\ UNCHANGED <<preferenceStage, held>>
    BY DEF Prefs!write
  <1>2. /\ content \in Seq(Pairs) /\ queue \in Seq(Pairs) /\ <<u, x>> \in Pairs
        /\ DOMAIN preferenceMay = Users
    BY DEF PrefsEntries, PrefsQueue, Pairs
  <1>3. \A v \in Users : preferenceMay[v] \subseteq preferenceMay'[v]
    BY <1>1, <1>2
  <1>4. \A i \in 1 .. Len(content) : content[i][1] \in Users
    BY <1>2 DEF Pairs
  <1>5. PrefsEntries'
    BY <1>1, <1>3, <1>4 DEF PrefsEntries
  <1>6. /\ queue' \in Seq(Pairs) /\ Len(queue') = Len(queue) + 1 /\ queue' # <<>>
        /\ queue'[Len(queue) + 1] = <<u, x>> /\ Len(queue) \in Nat
        /\ \A i \in 1 .. Len(queue) : queue'[i] = queue[i] /\ queue[i][1] \in Users
    BY <1>1, <1>2 DEF Pairs
  <1>7. \A i \in 1 .. Len(queue') : queue'[i][2] \in preferenceMay'[queue'[i][1]]
    <2>1. ASSUME NEW i \in 1 .. Len(queue)
          PROVE  queue'[i][2] \in preferenceMay'[queue'[i][1]]
      BY <1>3, <1>6 DEF PrefsQueue
    <2>2. x \in preferenceMay'[u]
      BY <1>1, <1>2
    <2>3. queue'[Len(queue) + 1][2] \in preferenceMay'[queue'[Len(queue) + 1][1]]
      BY <1>6, <2>2
    <2>4. \A i \in 1 .. Len(queue') : i \in 1 .. Len(queue) \/ i = Len(queue) + 1
      BY <1>6
    <2> QED
      BY <2>1, <2>3, <2>4
  <1>8. preferenceStage # "rest" => Head(queue') = Head(queue)
    BY <1>1, <1>2, <1>6 DEF PrefsQueue
  <1>9. DOMAIN preferenceMay' = Users
    BY <1>1, <1>2
  <1> QED
    BY <1>1, <1>5, <1>6, <1>7, <1>8, <1>9 DEF PrefsQueue

LEMMA PrefsTurnKeeps ==
  ASSUME PrefsEntries, PrefsQueue, Prefs!Turn
  PROVE  PrefsEntries' /\ PrefsQueue'
  <1>1. Prefs!readEntries = content
    BY ReadAll DEF PrefsEntries
  <1>2. /\ UNCHANGED <<content, queue, preferenceMay>> /\ queue # <<>>
        /\ preferenceStage' = "write"
        /\ held' = Prefs!With(content, Head(queue)[1], Head(queue)[2])
    BY <1>1 DEF Prefs!Turn
  <1>3. PrefsEntries'
    BY <1>2 DEF PrefsEntries
  <1>4. held' = Prefs!With(content, Head(queue)[1], Head(queue)[2])'
    BY <1>2 DEF Prefs!With
  <1> QED
    BY <1>2, <1>3, <1>4 DEF PrefsQueue

LEMMA PrefsTemporaryKeeps ==
  ASSUME PrefsEntries, PrefsQueue, ~onWindows, Prefs!WriteTemporary
  PROVE  PrefsEntries' /\ PrefsQueue'
  <1>1. /\ UNCHANGED <<content, queue, preferenceMay, held>>
        /\ preferenceStage = "write" /\ preferenceStage' = "rename"
    BY DEF Prefs!WriteTemporary
  <1>2. PrefsEntries'
    BY <1>1 DEF PrefsEntries
  <1>3. queue # <<>> /\ held = Prefs!With(content, Head(queue)[1], Head(queue)[2])
    BY <1>1 DEF PrefsQueue
  <1>4. held' = Prefs!With(content, Head(queue)[1], Head(queue)[2])'
    BY <1>1, <1>3 DEF Prefs!With
  <1> QED
    BY <1>1, <1>2, <1>3, <1>4 DEF PrefsQueue

\* What is left of the queue once its first write is over.
LEMMA QueueTail ==
  ASSUME PrefsQueue, queue # <<>>
  PROVE  /\ Tail(queue) \in Seq(Pairs) /\ Len(Tail(queue)) = Len(queue) - 1
         /\ Len(queue) \in Nat \ {0}
         /\ Head(queue) = queue[1] /\ Head(queue) \in Pairs
         /\ \A i \in 1 .. Len(queue) - 1 :
               /\ i + 1 \in 1 .. Len(queue) /\ Tail(queue)[i] = queue[i + 1]
               /\ Tail(queue)[i] \in Pairs
  BY DEF PrefsQueue

LEMMA PrefsFailureKeeps ==
  ASSUME PrefsEntries, PrefsQueue, preferenceStage # "rest", Prefs!Answered(FALSE),
         UNCHANGED content
  PROVE  PrefsEntries' /\ PrefsQueue'
  <1>1. queue' = Tail(queue) /\ UNCHANGED preferenceMay /\ preferenceStage' = "rest"
    BY DEF Prefs!Answered
  <1>2. queue # <<>>
    BY DEF PrefsQueue
  <1>3. PrefsEntries'
    BY <1>1 DEF PrefsEntries
  <1>4. \A i \in 1 .. Len(queue') : queue'[i][2] \in preferenceMay'[queue'[i][1]]
    <2> SUFFICES ASSUME NEW i \in 1 .. Len(queue')
                 PROVE  queue'[i][2] \in preferenceMay'[queue'[i][1]]
      OBVIOUS
    <2>1. i \in 1 .. Len(queue) - 1
      BY <1>1, <1>2, QueueTail
    <2>2. i + 1 \in 1 .. Len(queue) /\ queue'[i] = queue[i + 1]
      BY <1>1, <1>2, <2>1, QueueTail
    <2>3. queue[i + 1][2] \in preferenceMay[queue[i + 1][1]]
      BY <2>2 DEF PrefsQueue
    <2> QED
      BY <1>1, <2>2, <2>3
  <1> QED
    BY <1>1, <1>2, <1>3, <1>4, QueueTail DEF PrefsQueue

LEMMA PrefsRenameKeeps ==
  ASSUME PrefsEntries, PrefsQueue, Prefs!Rename \/ Prefs!ChmodFails
  PROVE  PrefsEntries' /\ PrefsQueue'
  <1>1. preferenceStage = "rename" /\ content' = held
    BY DEF Prefs!Rename, Prefs!ChmodFails
  <1> queue # <<>> /\ held = Prefs!With(content, Head(queue)[1], Head(queue)[2])
    BY <1>1 DEF PrefsQueue
  <1>3. PICK u \in Users, x \in Snapshots :
           u = Head(queue)[1] /\ x = Head(queue)[2] /\ Head(queue) = <<u, x>>
    BY QueueTail DEF Pairs
  <1>2. queue # <<>> /\ held = Prefs!With(content, u, x)
    BY <1>3
  <1>4. content \in Seq(Pairs) /\ Keyed(content)
    BY DEF PrefsEntries
  <1>5. queue' = Tail(queue) /\ preferenceStage' = "rest"
    BY DEF Prefs!Rename, Prefs!ChmodFails, Prefs!Answered
  <1>6. /\ DOMAIN preferenceMay' = Users /\ x \in preferenceMay'[u]
        /\ \A v \in Users \ {u} : preferenceMay'[v] = preferenceMay[v]
        /\ \A i \in 1 .. Len(queue) - 1 :
              Tail(queue)[i][1] = u => Tail(queue)[i][2] \in preferenceMay'[u]
    <2>1. CASE Prefs!Answered(TRUE)
      <3> DEFINE waiting == {Tail(queue)[i][2] : i \in
                       {j \in 1 .. Len(queue) - 1 : Tail(queue)[j][1] = u}}
      <3>1. preferenceMay' = [preferenceMay EXCEPT ![u] = {x} \cup waiting]
        BY <1>3, <2>1 DEF Prefs!Answered
      <3>2. preferenceMay'[u] = {x} \cup waiting /\ DOMAIN preferenceMay' = Users
        BY <1>3, <3>1 DEF PrefsQueue
      <3>3. \A v \in Users \ {u} : preferenceMay'[v] = preferenceMay[v]
        BY <1>3, <3>1 DEF PrefsQueue
      <3> QED
        BY <3>2, <3>3
    <2>2. CASE Prefs!Answered(FALSE)
      <3>1. preferenceMay' = preferenceMay
        BY <2>2 DEF Prefs!Answered
      <3>2. x \in preferenceMay[u]
        <4>1. 1 \in 1 .. Len(queue) /\ Head(queue) = queue[1]
          BY <1>2, QueueTail
        <4> QED
          BY <1>3, <4>1 DEF PrefsQueue
      <3>3. ASSUME NEW i \in 1 .. Len(queue) - 1, Tail(queue)[i][1] = u
            PROVE  Tail(queue)[i][2] \in preferenceMay[u]
        <4>1. i + 1 \in 1 .. Len(queue) /\ Tail(queue)[i] = queue[i + 1]
          BY <1>2, QueueTail
        <4>2. queue[i + 1][2] \in preferenceMay[queue[i + 1][1]]
          BY <4>1 DEF PrefsQueue
        <4> QED
          BY <3>3, <4>1, <4>2
      <3> QED
        BY <3>1, <3>2, <3>3 DEF PrefsQueue
    <2> QED
      BY <2>1, <2>2 DEF Prefs!Rename, Prefs!ChmodFails
  <1>7. /\ held \in Seq(Pairs) /\ Keyed(held)
        /\ \A i \in 1 .. Len(held) : held[i] = <<u, x>> \/
              \E j \in 1 .. Len(content) : content[j] = held[i] /\ content[j][1] # u
        /\ \A v \in Users : (\A i \in 1 .. Len(held) : held[i][1] # v) =>
              v # u /\ \A i \in 1 .. Len(content) : content[i][1] # v
    <2>1. Replaces(held, content, u, x)
      BY <1>2, <1>3, <1>4, WithEntry
    <2> QED
      BY <2>1 DEF Replaces
  <1>8. ASSUME NEW i \in 1 .. Len(held)
        PROVE  held[i][2] \in preferenceMay'[held[i][1]]
    <2>1. CASE held[i] = <<u, x>>
      <3>1. held[i][1] = u /\ held[i][2] = x
        BY <2>1
      <3> QED
        BY <3>1, <1>6
    <2>2. CASE held[i] # <<u, x>>
      <3>1. PICK j \in 1 .. Len(content) : content[j] = held[i] /\ content[j][1] # u
        BY <1>7, <2>2
      <3>2. content[j][2] \in preferenceMay[content[j][1]]
        BY DEF PrefsEntries
      <3>3. content[j][1] \in Users
        BY <1>4 DEF Pairs
      <3> QED
        BY <1>6, <3>1, <3>2, <3>3
    <2> QED
      BY <2>1, <2>2
  <1>9. ASSUME NEW v \in Users, \A i \in 1 .. Len(held) : held[i][1] # v
        PROVE  NoEntry \in preferenceMay'[v]
    <2>1. v # u /\ \A i \in 1 .. Len(content) : content[i][1] # v
      BY <1>7, <1>9
    <2>2. NoEntry \in preferenceMay[v]
      BY <2>1 DEF PrefsEntries
    <2> QED
      BY <1>6, <2>1, <2>2
  <1>10. PrefsEntries'
    BY <1>1, <1>7, <1>8, <1>9 DEF PrefsEntries, Keyed
  <1>11. ASSUME NEW i \in 1 .. Len(Tail(queue))
         PROVE  Tail(queue)[i][2] \in preferenceMay'[Tail(queue)[i][1]]
    <2>1. i \in 1 .. Len(queue) - 1
      BY <1>2, QueueTail
    <2>2. i + 1 \in 1 .. Len(queue) /\ Tail(queue)[i] = queue[i + 1] /\ Tail(queue)[i] \in Pairs
      BY <1>2, <2>1, QueueTail
    <2>3. queue[i + 1][2] \in preferenceMay[queue[i + 1][1]]
      BY <2>2 DEF PrefsQueue
    <2>4. Tail(queue)[i][1] \in Users
      BY <2>2 DEF Pairs
    <2> QED
      BY <1>6, <2>1, <2>2, <2>3, <2>4
  <1>12. PrefsQueue'
    BY <1>2, <1>5, <1>6, <1>11, QueueTail DEF PrefsQueue
  <1> QED
    BY <1>10, <1>12

LEMMA PrefsKillKeeps ==
  ASSUME PrefsEntries, PrefsQueue, Prefs!Kill
  PROVE  PrefsEntries' /\ PrefsQueue'
  <1>1. UNCHANGED <<content, preferenceMay>> /\ queue' = <<>> /\ preferenceStage' = "rest"
    BY DEF Prefs!Kill
  <1>2. queue' \in Seq(Pairs) /\ Len(queue') = 0
    BY <1>1
  <1>3. PrefsEntries'
    BY <1>1 DEF PrefsEntries
  <1> QED
    BY <1>1, <1>2, <1>3 DEF PrefsQueue

LEMMA PrefsNext == PrefsInv /\ [Prefs!PreferenceNext]_preferenceVars => PrefsInv'
  <1> SUFFICES ASSUME PrefsInv, [Prefs!PreferenceNext]_preferenceVars PROVE PrefsInv'
    OBVIOUS
  <1>1. onWindows' = onWindows
    BY DEF Prefs!PreferenceNext, Prefs!write, Prefs!Turn, Prefs!WriteTemporary,
       Prefs!WriteFails, Prefs!UnlinkTarget, Prefs!Rename, Prefs!ChmodFails,
       Prefs!ReplaceFails, Prefs!Kill, preferenceVars
  <1> SUFFICES ASSUME ~onWindows PROVE PrefsEntries' /\ PrefsQueue'
    BY <1>1 DEF PrefsInv
  <1>2. PrefsEntries /\ PrefsQueue
    BY DEF PrefsInv
  <1>3. CASE \E u \in Users, x \in Snapshots : Prefs!write(u, x)
    BY <1>2, <1>3, PrefsWriteKeeps
  <1>4. CASE Prefs!Turn
    BY <1>2, <1>4, PrefsTurnKeeps
  <1>5. CASE Prefs!WriteTemporary
    BY <1>2, <1>5, PrefsTemporaryKeeps
  <1>6. CASE Prefs!WriteFails
    <2>1. preferenceStage # "rest" /\ Prefs!Answered(FALSE) /\ UNCHANGED content
      BY <1>6 DEF Prefs!WriteFails
    <2> QED
      BY <1>2, <2>1, PrefsFailureKeeps
  <1>7. CASE Prefs!UnlinkTarget
    BY <1>2, <1>7 DEF Prefs!UnlinkTarget, PrefsQueue
  <1>8. CASE Prefs!Rename \/ Prefs!ChmodFails
    BY <1>2, <1>8, PrefsRenameKeeps
  <1>9. CASE Prefs!ReplaceFails
    <2>1. preferenceStage # "rest" /\ Prefs!Answered(FALSE) /\ UNCHANGED content
      BY <1>9 DEF Prefs!ReplaceFails
    <2> QED
      BY <1>2, <2>1, PrefsFailureKeeps
  <1>10. CASE Prefs!Kill
    BY <1>2, <1>10, PrefsKillKeeps
  <1>11. CASE UNCHANGED preferenceVars
    <2>1. UNCHANGED <<content, queue, preferenceStage, held, preferenceMay>>
      BY <1>11 DEF preferenceVars
    <2>2. PrefsEntries'
      BY <1>2, <2>1 DEF PrefsEntries
    <2>3. PrefsQueue'
      BY <1>2, <2>1 DEF PrefsQueue, Prefs!With
    <2> QED
      BY <2>2, <2>3
  <1> QED
    BY <1>3, <1>4, <1>5, <1>6, <1>7, <1>8, <1>9, <1>10, <1>11 DEF Prefs!PreferenceNext

LEMMA PrefsKept == PrefsInv => Prefs!EntriesKept
  <1> SUFFICES ASSUME PrefsInv, ~onWindows, NEW u \in Users
               PROVE  Prefs!read(u) \in preferenceMay[u]
    BY DEF Prefs!EntriesKept
  <1>1. PrefsEntries
    BY DEF PrefsInv
  <1>2. Prefs!readEntries = content
    BY <1>1, ReadAll DEF PrefsEntries
  <1> DEFINE K == {i \in 1 .. Len(content) : content[i][1] = u}
  <1>3. Prefs!read(u) = IF K = {} THEN NoEntry ELSE content[CHOOSE i \in K : TRUE][2]
    BY <1>2 DEF Prefs!read
  <1>4. CASE K = {}
    BY <1>1, <1>3, <1>4 DEF PrefsEntries
  <1>5. CASE K # {}
    <2>1. (CHOOSE i \in K : TRUE) \in K
      BY <1>5
    <2>2. PICK i \in K : Prefs!read(u) = content[i][2]
      BY <1>3, <1>5, <2>1
    <2>3. i \in 1 .. Len(content) /\ content[i][1] = u
      BY <2>2
    <2> QED
      BY <1>1, <2>2, <2>3 DEF PrefsEntries
  <1> QED
    BY <1>4, <1>5

-----------------------------------------------------------------------------
\* The rich text editor: uploads of pasted files.

Entry == [entry : BOOLEAN, ui : {"uploading", "error"}, defers : Nat, url : BOOLEAN,
          calls : Nat, timers : Nat]
Runs(x) == x.calls + x.timers
\* The files of a paste, by their number in the clipboard.
Plans == UNION {[I -> Editor!Uploads] : I \in SUBSET Nat}
Pastes == [files : Plans, over : BOOLEAN, in : SUBSET Editor!Uploads,
           out : SUBSET Editor!Uploads, nth : Nat]

EditorType ==
    /\ mounted \in BOOLEAN /\ editorBehind \in BOOLEAN
    /\ doc \in [text : Nat, atts : SUBSET Editor!Uploads, pend : SUBSET Editor!Uploads]
    /\ editorValue \in [text : Nat, atts : SUBSET Editor!Uploads]
    /\ up \in [Editor!Uploads -> Entry]
    /\ flag \in Editor!Uploads \cup {"nobody", "post"}
    /\ DOMAIN fate = Editor!Uploads
    /\ reading \in Seq(Pastes)
    /\ unsaid \in [text : BOOLEAN, atts : SUBSET Editor!Uploads]
    /\ editorUsed \in [pastes : Nat, texts : Nat, retries : Nat, posts : Nat]

\* An upload has one call or one timer, and none once it has failed visibly;
\* its preview goes with its entry.
Calm(x) == Runs(x) <= 1 /\ (x.entry /\ x.ui = "error" => Runs(x) = 0)
Owned(x) == x.url => mounted /\ x.entry
EditorRuns == \A u \in Editor!Uploads : Calm(up[u]) /\ Owned(up[u])

\* Attachments are where they belong.  The application's copy has all that is
\* shown, and what was pasted over since it was published; it lags behind only
\* after the application emptied it, and then there is nothing to post.
Covers ==
    /\ editorValue.atts = doc.atts \cup unsaid.atts
    /\ editorValue.text = doc.text \/ unsaid.text
EditorLand ==
    /\ \A u \in Editor!Uploads :
          /\ fate[u] = "shown" => u \in doc.atts
          /\ up[u].entry /\ fate[u] = "none" => u \in doc.pend
    /\ ~editorBehind => Covers
    /\ editorBehind => editorValue = Editor!NoText
    /\ flag = "post" => ~editorBehind

EditorInv == EditorType /\ EditorRuns /\ EditorLand

LEMMA EditorNames == "nobody" \notin Editor!Uploads /\ "post" \notin Editor!Uploads
  BY EditorAssumption DEF Editor!Nobody, Editor!Post

\* What asking does to the entry of one upload that has no run.
Asks(x) == [[x EXCEPT !.ui = "uploading"] EXCEPT !.calls = @ + 1]
Waits(x) == Editor!Deferred([x EXCEPT !.ui = "uploading"])
LEMMA AskedEntry ==
  ASSUME NEW x \in Entry, x.calls + x.timers = 0, NEW z, z = Asks(x) \/ z = Waits(x)
  PROVE  z \in Entry /\ Calm(z) /\ z.entry = x.entry /\ z.url = x.url
  <1> DEFINE y == [x EXCEPT !.ui = "uploading"]
  <1>1. /\ x.entry \in BOOLEAN /\ x.url \in BOOLEAN /\ x.defers \in Nat /\ x.calls \in Nat
        /\ x.timers \in Nat
    BY DEF Entry
  <1>2. /\ y \in Entry /\ y.ui = "uploading" /\ y.calls = 0 /\ y.timers = 0
        /\ y.entry = x.entry /\ y.url = x.url /\ y.defers = x.defers
    BY <1>1 DEF Entry
  <1> HIDE DEF y
  <1>3. CASE z = [y EXCEPT !.calls = @ + 1]
    <2>1. z \in Entry /\ z.entry = y.entry /\ z.url = y.url
      BY <1>2, <1>3 DEF Entry
    <2>2. z.ui = "uploading" /\ z.calls = 1 /\ z.timers = 0
      BY <1>2, <1>3 DEF Entry
    <2>3. Runs(z) <= 1 /\ (z.ui = "error" => Runs(z) = 0)
      BY <2>2 DEF Runs
    <2> QED
      BY <1>2, <2>1, <2>3 DEF Calm
  <1>4. CASE z = [y EXCEPT !.ui = "error"]
    <2>1. z \in Entry /\ z.entry = y.entry /\ z.url = y.url
      BY <1>2, <1>4 DEF Entry
    <2>2. z.ui = "error" /\ z.calls = 0 /\ z.timers = 0
      BY <1>2, <1>4 DEF Entry
    <2>3. Runs(z) <= 1 /\ (z.ui = "error" => Runs(z) = 0)
      BY <2>2 DEF Runs
    <2> QED
      BY <1>2, <2>1, <2>3 DEF Calm
  <1>5. CASE z = [y EXCEPT !.defers = @ + 1, !.timers = @ + 1]
    <2>1. z \in Entry /\ z.entry = y.entry /\ z.url = y.url
      <3> DEFINE w == [y EXCEPT !.defers = @ + 1]
      <3>1. w \in Entry /\ w.entry = y.entry /\ w.url = y.url /\ w.timers = y.timers
        BY <1>2 DEF Entry
      <3>2. z = [w EXCEPT !.timers = @ + 1]
        BY <1>2, <1>5 DEF Entry
      <3> HIDE DEF w
      <3> QED
        BY <1>2, <3>1, <3>2 DEF Entry
    <2>2. z.ui = "uploading" /\ z.calls = 0 /\ z.timers = 1
      BY <1>2, <1>5 DEF Entry
    <2>3. Runs(z) <= 1 /\ (z.ui = "error" => Runs(z) = 0)
      BY <2>2 DEF Runs
    <2> QED
      BY <1>2, <2>1, <2>3 DEF Calm
  <1>6. z = [y EXCEPT !.calls = @ + 1] \/ z = Editor!Deferred(y)
    BY DEF Asks, Waits, y
  <1> QED
    BY <1>3, <1>4, <1>5, <1>6 DEF Editor!Deferred

\* Asking for uploads that have no run leaves one run for each at most, and
\* takes the application's flag for an upload only.
LEMMA AskedCalm ==
  ASSUME NEW S \in Plans, NEW U \in [Editor!Uploads -> Entry],
         NEW f \in Editor!Uploads \cup {"nobody", "post"},
         \A u \in Editor!Uploads : Calm(U[u]),
         \A i \in DOMAIN S : U[S[i]].entry => Runs(U[S[i]]) = 0,
         NEW r, r = Editor!Asked(S, U, f)
  PROVE  /\ r.up \in [Editor!Uploads -> Entry]
         /\ \A u \in Editor!Uploads :
               Calm(r.up[u]) /\ r.up[u].entry = U[u].entry /\ r.up[u].url = U[u].url
         /\ r.flag \in Editor!Uploads \cup {"nobody", "post"}
         /\ r.flag = "post" => f = "post"
  <1> DEFINE asking == {i \in DOMAIN S : U[S[i]].entry}
             takes == {S[i] : i \in {j \in asking :
                          f = Editor!Nobody /\ \A k \in asking : j <= k}}
             Ask(u) == LET x == [U[u] EXCEPT !.ui = "uploading"] IN
                       IF u \in takes THEN [x EXCEPT !.calls = @ + 1] ELSE Editor!Deferred(x)
             called == {S[i] : i \in asking}
             R == [u \in Editor!Uploads |-> IF u \in called THEN Ask(u) ELSE U[u]]
  <1>1. r = [up |-> R, flag |-> IF takes = {} THEN f ELSE CHOOSE u \in takes : TRUE]
    BY DEF Editor!Asked
  <1>2. \A i \in DOMAIN S : S[i] \in Editor!Uploads
    BY DEF Plans
  <1>3. ASSUME NEW u \in called PROVE U[u].entry /\ Runs(U[u]) = 0
    OBVIOUS
  <1>4. ASSUME NEW u \in called, u \in Editor!Uploads
        PROVE  Ask(u) \in Entry /\ Calm(Ask(u)) /\ Ask(u).entry = U[u].entry
                /\ Ask(u).url = U[u].url
    <2> DEFINE x == U[u]
               z == Ask(u)
    <2>1. x \in Entry /\ x.calls + x.timers = 0
      BY <1>3, <1>4 DEF Runs
    <2>2. z = Asks(x) \/ z = Waits(x)
      BY DEF Asks, Waits
    <2> HIDE DEF x, z, takes
    <2>3. z \in Entry /\ Calm(z) /\ z.entry = x.entry /\ z.url = x.url
      BY <2>1, <2>2, AskedEntry
    <2> QED
      BY <2>3 DEF x, z
  <1>5. takes \subseteq Editor!Uploads
    BY <1>2
  <1> HIDE DEF called, Ask, takes
  <1>6. \A u \in Editor!Uploads : R[u] = IF u \in called THEN Ask(u) ELSE U[u]
    OBVIOUS
  <1>7. ASSUME NEW u \in Editor!Uploads
        PROVE  R[u] \in Entry /\ Calm(R[u]) /\ R[u].entry = U[u].entry /\ R[u].url = U[u].url
    <2>1. CASE u \in called
      BY <1>4, <1>6, <2>1
    <2>2. CASE u \notin called
      BY <1>6, <2>2
    <2> QED
      BY <2>1, <2>2
  <1>8. R \in [Editor!Uploads -> Entry]
    BY <1>7
  <1>9. r.up = R
    BY <1>1
  <1> HIDE DEF R
  <1>10. r.flag \in Editor!Uploads \cup {"nobody", "post"} /\ (r.flag = "post" => f = "post")
    <2>1. CASE takes = {}
      BY <1>1, <2>1
    <2>2. CASE takes # {}
      <3>1. r.flag \in takes
        BY <1>1, <2>2
      <3> QED
        BY <3>1, <1>5, EditorNames
    <2> QED
      BY <2>1, <2>2
  <1> QED
    BY <1>7, <1>8, <1>9, <1>10

LEMMA NoEntryYet ==
  /\ Editor!NoUpload \in Entry /\ Editor!NoUpload.entry = FALSE
  /\ Editor!NoUpload.url = FALSE /\ Calm(Editor!NoUpload)
  /\ Editor!NoUpload.calls = 0 /\ Editor!NoUpload.timers = 0
  /\ Editor!NoUpload.ui = "uploading"
  BY DEF Editor!NoUpload, Entry, Calm, Runs

\* Entries that stay as they are, or are cleaned up, or lose a run.
LEMMA CleanedEntry ==
  ASSUME NEW x \in Entry
  PROVE  /\ Editor!CleanedUp(x) \in Entry
         /\ Editor!CleanedUp(x).entry = FALSE /\ Editor!CleanedUp(x).url = FALSE
         /\ Editor!CleanedUp(x).calls = x.calls /\ Editor!CleanedUp(x).timers = x.timers
         /\ Calm(x) => Calm(Editor!CleanedUp(x))
  <1> DEFINE y == Editor!CleanedUp(x)
             w == [Editor!NoUpload EXCEPT !.calls = x.calls]
  <1>1. /\ w \in Entry /\ w.entry = FALSE /\ w.url = FALSE /\ w.calls = x.calls
        /\ y = [w EXCEPT !.timers = x.timers] /\ x.timers \in Nat
    BY NoEntryYet DEF Editor!CleanedUp, Entry
  <1> HIDE DEF w, y
  <1>2. y \in Entry /\ y.entry = FALSE /\ y.url = FALSE /\ y.calls = x.calls /\ y.timers = x.timers
    BY <1>1 DEF Entry
  <1>3. Calm(x) => Calm(y)
    BY <1>2 DEF Calm, Runs
  <1> QED
    BY <1>2, <1>3 DEF y

LEMMA EditorInit == Editor!Init => EditorInv
  <1> SUFFICES ASSUME Editor!Init PROVE EditorInv
    OBVIOUS
  <1> USE DEF Editor!Init, Editor!Nobody
  <1>1. up = [u \in Editor!Uploads |-> Editor!NoUpload]
    OBVIOUS
  <1>2. /\ Editor!NoUpload \in Entry /\ Editor!NoUpload.entry = FALSE
        /\ Editor!NoUpload.url = FALSE /\ Calm(Editor!NoUpload)
    BY NoEntryYet
  <1>3. EditorType
    <2>1. up \in [Editor!Uploads -> Entry]
      BY <1>1, <1>2
    <2>2. /\ doc \in [text : Nat, atts : SUBSET Editor!Uploads, pend : SUBSET Editor!Uploads]
          /\ editorValue \in [text : Nat, atts : SUBSET Editor!Uploads]
      BY DEF Editor!Content
    <2>3. editorUsed \in [pastes : Nat, texts : Nat, retries : Nat, posts : Nat]
      OBVIOUS
    <2>4. /\ reading \in Seq(Pastes) /\ DOMAIN fate = Editor!Uploads
          /\ unsaid \in [text : BOOLEAN, atts : SUBSET Editor!Uploads]
      BY DEF Editor!AllSaid
    <2>5. mounted \in BOOLEAN /\ editorBehind \in BOOLEAN /\ flag = "nobody"
      OBVIOUS
    <2> QED
      BY <2>1, <2>2, <2>3, <2>4, <2>5 DEF EditorType
  <1>4. EditorRuns
    BY <1>1, <1>2 DEF EditorRuns, Owned
  <1>5. EditorLand
    <2>1. Covers
      BY DEF Covers, Editor!Content, Editor!AllSaid
    <2> QED
      BY <1>1, <1>2, <2>1 DEF EditorLand
  <1> QED
    BY <1>3, <1>4, <1>5 DEF EditorInv

LEMMA PasteKeeps == EditorInv /\ Editor!Paste => EditorInv'
  <1> SUFFICES ASSUME EditorInv, Editor!Paste PROVE EditorInv'
    OBVIOUS
  <1> DEFINE n == editorUsed.pastes + 1
             files == Editor!uniquePastedFilesByContent(Editor!pastedFiles(Batches[n]))
             plan == [i \in DOMAIN files |-> files[i].id]
  <1>1. /\ UNCHANGED <<mounted, doc, editorValue, up, flag, fate, editorBehind, unsaid>>
        /\ editorUsed' = [editorUsed EXCEPT !.pastes = @ + 1]
        /\ editorUsed.pastes < Len(Batches)
    BY DEF Editor!Paste
  <1>a. PICK over \in BOOLEAN, in \in SUBSET Editor!Nodes(doc) :
          reading' = Append(reading, [files |-> plan, over |-> over, in |-> in,
                                      out |-> Editor!Nodes(doc) \ in, nth |-> n])
    BY DEF Editor!Paste
  <1>2. editorUsed \in [pastes : Nat, texts : Nat, retries : Nat, posts : Nat]
        /\ reading \in Seq(Pastes) /\ Editor!Nodes(doc) \subseteq Editor!Uploads
    BY DEF EditorInv, EditorType, Editor!Nodes
  <1>3. n \in 1 .. Len(Batches) /\ Batches[n] \in Editor!Range(Batches)
    <2>1. Len(Batches) \in Nat /\ DOMAIN Batches = 1 .. Len(Batches)
      BY EditorAssumption
    <2>2. n \in 1 .. Len(Batches)
      BY <1>1, <1>2, <2>1
    <2> QED
      BY <2>1, <2>2 DEF Editor!Range
  <1>4. /\ DOMAIN files \subseteq DOMAIN Batches[n]
        /\ \A i \in DOMAIN files : files[i] = Batches[n][i]
    BY DEF Editor!uniquePastedFilesByContent, Editor!pastedFiles, Editor!FirstBy,
       Editor!Restrict
  <1> HIDE DEF files
  <1>5. ASSUME NEW i \in DOMAIN files PROVE files[i].id \in Editor!Uploads
    <2>1. Batches[n][i] \in Editor!Range(Batches[n])
      BY <1>4 DEF Editor!Range
    <2> QED
      BY <1>3, <1>4, <2>1 DEF Editor!Uploads
  <1>6. DOMAIN files \subseteq Nat
    BY <1>3, <1>4, EditorAssumption
  <1>7. plan \in [DOMAIN files -> Editor!Uploads]
    BY <1>5
  <1>8. plan \in Plans
    BY <1>6, <1>7 DEF Plans
  <1> HIDE DEF plan
  <1>9. reading' \in Seq(Pastes)
    <2> DEFINE p == [files |-> plan, over |-> over, in |-> in,
                     out |-> Editor!Nodes(doc) \ in, nth |-> n]
    <2>1. n \in Nat
      BY <1>2
    <2>2. p \in Pastes
      BY <1>2, <1>8, <2>1 DEF Pastes
    <2> HIDE DEF p
    <2>3. reading' = Append(reading, p)
      BY <1>a DEF p
    <2> QED
      BY <1>2, <2>2, <2>3
  <1>10. EditorType'
    <2>1. editorUsed' \in [pastes : Nat, texts : Nat, retries : Nat, posts : Nat]
      BY <1>1, <1>2
    <2> QED
      BY <1>1, <1>9, <2>1 DEF EditorInv, EditorType
  <1>11. EditorRuns' /\ EditorLand'
    BY <1>1 DEF EditorInv, EditorRuns, Owned, Calm, Runs, EditorLand, Covers
  <1> QED
    BY <1>10, <1>11 DEF EditorInv

LEMMA StartPasteKeeps == EditorInv /\ Editor!startPasteUpload => EditorInv'
  <1> SUFFICES ASSUME EditorInv, Editor!startPasteUpload PROVE EditorInv'
    OBVIOUS
  <1>1. UNCHANGED <<mounted, editorValue, editorBehind, editorUsed>>
    BY DEF Editor!startPasteUpload
  <1>2. PICK i \in DOMAIN reading :
           /\ reading' = Editor!RemoveAt(reading, i)
           /\ IF mounted
              THEN /\ \E gone \in Editor!Deletes(reading[i]), cut \in Editor!Cuts(reading[i]) :
                        /\ doc' = [text |-> cut, atts |-> doc.atts \ gone,
                                   pend |-> (doc.pend \ gone)
                                            \cup Editor!Range(reading[i].files)]
                        /\ unsaid' = [text |-> unsaid.text \/ cut # doc.text,
                                      atts |-> unsaid.atts \cup (doc.atts \cap gone)]
                        /\ fate' = [u \in Editor!Uploads |->
                                      IF u \in gone THEN "deleted" ELSE fate[u]]
                   /\ Editor!AskNow(reading[i].files,
                        [u \in Editor!Uploads |-> IF u \in Editor!Range(reading[i].files)
                           THEN [Editor!NoUpload EXCEPT !.entry = TRUE, !.url = TRUE]
                           ELSE up[u]])
              ELSE UNCHANGED <<doc, up, flag, fate, unsaid>>
    BY DEF Editor!startPasteUpload
  <1> DEFINE S == reading[i].files
  <1>3. reading \in Seq(Pastes) /\ reading[i] \in Pastes /\ S \in Plans
    <2>1. reading \in Seq(Pastes)
      BY DEF EditorInv, EditorType
    <2>2. reading[i] \in Pastes
      BY <2>1
    <2> QED
      BY <2>1, <2>2 DEF Pastes
  <1>4. reading' \in Seq(Pastes)
    <2>1. i \in 1 .. Len(reading) /\ Len(reading) \in Nat
      BY <1>3
    <2>2. SubSeq(reading, 1, i - 1) \in Seq(Pastes)
      BY <1>3, <2>1
    <2>3. SubSeq(reading, i + 1, Len(reading)) \in Seq(Pastes)
      BY <1>3, <2>1
    <2>4. reading' = SubSeq(reading, 1, i - 1) \o SubSeq(reading, i + 1, Len(reading))
      BY <1>2 DEF Editor!RemoveAt
    <2> QED
      BY <2>2, <2>3, <2>4
  <1>5. CASE ~mounted
    <2>1. UNCHANGED <<doc, up, flag, fate, unsaid>>
      BY <1>2, <1>5
    <2>2. EditorType'
      BY <1>1, <1>4, <2>1 DEF EditorInv, EditorType
    <2>3. EditorRuns' /\ EditorLand'
      BY <1>1, <2>1 DEF EditorInv, EditorRuns, Owned, Calm, Runs, EditorLand, Covers
    <2> QED
      BY <2>2, <2>3 DEF EditorInv
  <1>6. CASE mounted
    <2> DEFINE R == Editor!Range(S)
               New == [Editor!NoUpload EXCEPT !.entry = TRUE, !.url = TRUE]
               U == [u \in Editor!Uploads |-> IF u \in R THEN New ELSE up[u]]
               r == Editor!Asked(S, U, flag)
    <2>a. PICK gone \in Editor!Deletes(reading[i]), cut \in Editor!Cuts(reading[i]) :
            /\ doc' = [text |-> cut, atts |-> doc.atts \ gone,
                       pend |-> (doc.pend \ gone) \cup R]
            /\ unsaid' = [text |-> unsaid.text \/ cut # doc.text,
                          atts |-> unsaid.atts \cup (doc.atts \cap gone)]
            /\ fate' = [u \in Editor!Uploads |-> IF u \in gone THEN "deleted" ELSE fate[u]]
      BY <1>2, <1>6
    <2>1. up' = r.up /\ flag' = r.flag
      BY <1>2, <1>6 DEF Editor!AskNow
    <2>b. cut \in Nat
      BY <1>3, EditorAssumption DEF Editor!Cuts, Pastes, EditorInv, EditorType
    <2>2. /\ New \in Entry /\ New.entry = TRUE /\ New.url = TRUE /\ Calm(New) /\ Runs(New) = 0
      <3> DEFINE w == [Editor!NoUpload EXCEPT !.entry = TRUE]
      <3>1. /\ w \in Entry /\ w.entry = TRUE /\ w.calls = 0 /\ w.timers = 0
            /\ w.ui = "uploading" /\ New = [w EXCEPT !.url = TRUE]
        BY NoEntryYet DEF Entry
      <3> HIDE DEF w, New
      <3>2. /\ New \in Entry /\ New.entry = TRUE /\ New.url = TRUE
            /\ New.calls = 0 /\ New.timers = 0 /\ New.ui = "uploading"
        BY <3>1 DEF Entry
      <3> QED
        BY <3>2 DEF Calm, Runs
    <2>3. R \subseteq Editor!Uploads /\ \A j \in DOMAIN S : S[j] \in R
      <3>1. PICK I \in SUBSET Nat : S \in [I -> Editor!Uploads]
        BY <1>3 DEF Plans
      <3> HIDE DEF S
      <3> QED
        BY <3>1 DEF Editor!Range
    <2>4. up \in [Editor!Uploads -> Entry] /\ flag \in Editor!Uploads \cup {"nobody", "post"}
      BY DEF EditorInv, EditorType
    <2> HIDE DEF R, New, S
    <2>5. U \in [Editor!Uploads -> Entry]
      BY <2>2, <2>4
    <2>6. \A u \in Editor!Uploads : Calm(U[u])
      BY <2>2 DEF EditorInv, EditorRuns
    <2>7. \A j \in DOMAIN S : U[S[j]].entry => Runs(U[S[j]]) = 0
      BY <2>2, <2>3
    <2>8. \A u \in Editor!Uploads :
             IF u \in R THEN U[u].entry = TRUE /\ U[u].url = TRUE ELSE U[u] = up[u]
      BY <2>2
    <2> HIDE DEF U
    <2>9. /\ r.up \in [Editor!Uploads -> Entry]
          /\ \A u \in Editor!Uploads :
                Calm(r.up[u]) /\ r.up[u].entry = U[u].entry /\ r.up[u].url = U[u].url
          /\ r.flag \in Editor!Uploads \cup {"nobody", "post"}
          /\ r.flag = "post" => flag = "post"
      BY <1>3, <2>4, <2>5, <2>6, <2>7, AskedCalm
    <2> HIDE DEF r
    <2>10. /\ doc' \in [text : Nat, atts : SUBSET Editor!Uploads, pend : SUBSET Editor!Uploads]
           /\ doc'.text = cut /\ doc'.atts = doc.atts \ gone
           /\ doc'.pend = (doc.pend \ gone) \cup R
      BY <2>3, <2>a, <2>b DEF EditorInv, EditorType
    <2>c. /\ unsaid' \in [text : BOOLEAN, atts : SUBSET Editor!Uploads]
          /\ unsaid'.text = (unsaid.text \/ cut # doc.text)
          /\ unsaid'.atts = unsaid.atts \cup (doc.atts \cap gone)
      <3>1. /\ unsaid \in [text : BOOLEAN, atts : SUBSET Editor!Uploads]
            /\ doc.atts \subseteq Editor!Uploads
        BY DEF EditorInv, EditorType
      <3> QED
        BY <2>a, <3>1
    <2>d. /\ DOMAIN fate' = Editor!Uploads
          /\ \A u \in Editor!Uploads : fate'[u] = IF u \in gone THEN "deleted" ELSE fate[u]
      BY <2>a
    <2>11. EditorType'
      BY <1>1, <1>4, <2>1, <2>9, <2>10, <2>c, <2>d DEF EditorInv, EditorType
    <2>12. EditorRuns'
      BY <1>1, <1>6, <2>1, <2>8, <2>9 DEF EditorInv, EditorRuns, Owned
    <2>13. EditorLand'
      <3>1. ASSUME NEW u \in Editor!Uploads
            PROVE  /\ (fate[u] = "shown" => u \in doc.atts)'
                   /\ (up[u].entry /\ fate[u] = "none" => u \in doc.pend)'
        BY <2>1, <2>8, <2>9, <2>10, <2>d DEF EditorInv, EditorLand
      <3>2. ASSUME ~editorBehind PROVE Covers'
        <4>1. Covers
          BY <3>2 DEF EditorInv, EditorLand
        <4>2. (editorValue.atts = doc.atts \cup unsaid.atts)'
          BY <1>1, <2>10, <2>c, <4>1 DEF Covers
        <4>3. (editorValue.text = doc.text \/ unsaid.text)'
          BY <1>1, <2>10, <2>c, <4>1 DEF Covers
        <4> QED
          BY <4>2, <4>3 DEF Covers
      <3> QED
        BY <1>1, <2>1, <2>9, <3>1, <3>2 DEF EditorInv, EditorLand
    <2> QED
      BY <2>11, <2>12, <2>13 DEF EditorInv
  <1> QED
    BY <1>5, <1>6

\* One upload that has no run is asked for.
LEMMA OneAsked ==
  ASSUME EditorInv, NEW u \in Editor!Uploads, NEW U \in [Editor!Uploads -> Entry],
         \A v \in Editor!Uploads \ {u} : U[v] = up[v],
         U[u].entry = up[u].entry, U[u].url = up[u].url, Runs(U[u]) <= 1,
         U[u].entry => Runs(U[u]) = 0,
         Editor!AskNow(<<u>>, U),
         UNCHANGED <<mounted, doc, editorValue, reading, fate, editorBehind, unsaid>>,
         editorUsed' \in [pastes : Nat, texts : Nat, retries : Nat, posts : Nat]
  PROVE  EditorInv'
  <1> DEFINE S == <<u>>
             r == Editor!Asked(S, U, flag)
  <1>1. S \in Plans
    <2>1. S \in [1 .. 1 -> Editor!Uploads] /\ 1 .. 1 \in SUBSET Nat
      OBVIOUS
    <2> QED
      BY <2>1 DEF Plans
  <1>2. up' = r.up /\ flag' = r.flag
    BY DEF Editor!AskNow
  <1>3. \A j \in DOMAIN S : S[j] = u
    OBVIOUS
  <1>4. \A v \in Editor!Uploads :
           Calm(U[v]) /\ U[v].entry = up[v].entry /\ U[v].url = up[v].url
    <2>1. Calm(U[u])
      BY DEF Calm
    <2> QED
      BY <2>1 DEF EditorInv, EditorRuns
  <1> HIDE DEF S
  <1>5. /\ r.up \in [Editor!Uploads -> Entry]
        /\ \A v \in Editor!Uploads :
              Calm(r.up[v]) /\ r.up[v].entry = U[v].entry /\ r.up[v].url = U[v].url
        /\ r.flag \in Editor!Uploads \cup {"nobody", "post"}
        /\ r.flag = "post" => flag = "post"
    <2>1. flag \in Editor!Uploads \cup {"nobody", "post"}
      BY DEF EditorInv, EditorType
    <2>2. \A j \in DOMAIN S : U[S[j]].entry => Runs(U[S[j]]) = 0
      BY <1>3
    <2> QED
      BY <1>1, <1>4, <2>1, <2>2, AskedCalm
  <1> HIDE DEF r
  <1>6. EditorType'
    BY <1>2, <1>5 DEF EditorInv, EditorType
  <1>7. EditorRuns'
    BY <1>2, <1>4, <1>5 DEF EditorInv, EditorRuns, Owned
  <1>8. EditorLand'
    BY <1>2, <1>4, <1>5 DEF EditorInv, EditorLand, Covers
  <1> QED
    BY <1>6, <1>7, <1>8 DEF EditorInv

LEMMA UploadTimerKeeps ==
  ASSUME EditorInv, NEW u \in Editor!Uploads, Editor!TimerFires(u)
  PROVE  EditorInv'
  <1> DEFINE U == [up EXCEPT ![u].timers = @ - 1]
  <1>1. /\ up[u].timers > 0 /\ Editor!AskNow(<<u>>, U)
        /\ UNCHANGED <<mounted, doc, editorValue, reading, fate, editorBehind, unsaid, editorUsed>>
    BY DEF Editor!TimerFires
  <1>2. up \in [Editor!Uploads -> Entry] /\ up[u] \in Entry /\ Runs(up[u]) <= 1
    BY DEF EditorInv, EditorType, EditorRuns, Calm
  <1>3. up[u].timers = 1 /\ up[u].calls = 0
    BY <1>1, <1>2 DEF Entry, Runs
  <1>4. U[u] = [up[u] EXCEPT !.timers = 0] /\ \A v \in Editor!Uploads \ {u} : U[v] = up[v]
    BY <1>2, <1>3
  <1>5. /\ U[u] \in Entry /\ U[u].entry = up[u].entry /\ U[u].url = up[u].url
        /\ Runs(U[u]) = 0
    BY <1>2, <1>3, <1>4 DEF Entry, Runs
  <1>6. U \in [Editor!Uploads -> Entry]
    BY <1>2, <1>4, <1>5
  <1> HIDE DEF U
  <1>7. editorUsed' \in [pastes : Nat, texts : Nat, retries : Nat, posts : Nat]
    BY <1>1 DEF EditorInv, EditorType
  <1>8. Runs(U[u]) <= 1
    BY <1>5
  <1> QED
    BY <1>1, <1>4, <1>5, <1>6, <1>7, <1>8, OneAsked

LEMMA RetryKeeps ==
  ASSUME EditorInv, NEW u \in Editor!Uploads, Editor!retryPendingUpload(u)
  PROVE  EditorInv'
  <1> DEFINE U == [up EXCEPT ![u].defers = 0]
  <1>1. /\ up[u].ui = "error" /\ Editor!AskNow(<<u>>, U)
        /\ UNCHANGED <<mounted, doc, editorValue, reading, fate, editorBehind, unsaid>>
        /\ editorUsed' = [editorUsed EXCEPT !.retries = @ + 1]
    BY DEF Editor!retryPendingUpload, Editor!RetryVisible
  <1>2. up \in [Editor!Uploads -> Entry] /\ up[u] \in Entry /\ Calm(up[u])
    BY DEF EditorInv, EditorType, EditorRuns
  <1>4. U[u] = [up[u] EXCEPT !.defers = 0] /\ \A v \in Editor!Uploads \ {u} : U[v] = up[v]
    BY <1>2
  <1>5. /\ U[u] \in Entry /\ U[u].entry = up[u].entry /\ U[u].url = up[u].url
        /\ U[u].calls = up[u].calls /\ U[u].timers = up[u].timers
    BY <1>2, <1>4 DEF Entry
  <1>6. U \in [Editor!Uploads -> Entry]
    BY <1>2, <1>4, <1>5
  <1> HIDE DEF U
  <1>7. editorUsed' \in [pastes : Nat, texts : Nat, retries : Nat, posts : Nat]
    <2>1. editorUsed \in [pastes : Nat, texts : Nat, retries : Nat, posts : Nat]
      BY DEF EditorInv, EditorType
    <2> QED
      BY <1>1, <2>1
  <1>8. Runs(U[u]) <= 1 /\ (U[u].entry => Runs(U[u]) = 0)
    BY <1>1, <1>2, <1>5 DEF Calm, Runs
  <1> QED
    BY <1>1, <1>4, <1>5, <1>6, <1>7, <1>8, OneAsked

\* One upload's entry changes, and what was shown or pending stays so.
LEMMA OneChanged ==
  ASSUME EditorInv, NEW u \in Editor!Uploads, NEW x \in Entry, Calm(x), x.url => mounted /\ x.entry,
         up' = [up EXCEPT ![u] = x],
         flag' \in Editor!Uploads \cup {"nobody", "post"}, flag' = "post" => flag = "post",
         UNCHANGED <<mounted, reading, editorUsed>>
  PROVE  /\ up' \in [Editor!Uploads -> Entry] /\ up'[u] = x
         /\ \A v \in Editor!Uploads \ {u} : up'[v] = up[v]
         /\ EditorRuns'
  <1>1. up \in [Editor!Uploads -> Entry]
    BY DEF EditorInv, EditorType
  <1>2. /\ up' \in [Editor!Uploads -> Entry] /\ up'[u] = x
        /\ \A v \in Editor!Uploads \ {u} : up'[v] = up[v]
    BY <1>1
  <1>3. \A v \in Editor!Uploads : Calm(up'[v]) /\ (up'[v].url => mounted /\ up'[v].entry)
    BY <1>2 DEF EditorInv, EditorRuns, Owned
  <1> QED
    BY <1>2, <1>3 DEF EditorRuns, Owned

LEMMA UploadedKeeps ==
  ASSUME EditorInv, NEW u \in Editor!Uploads, Editor!Uploaded(u)
  PROVE  EditorInv'
  <1> DEFINE x == [up[u] EXCEPT !.calls = @ - 1]
             d == [doc EXCEPT !.pend = @ \ {u},
                    !.atts = IF u \in doc.pend THEN @ \cup {u} ELSE @]
  <1>1. /\ up[u].calls > 0 /\ flag' = IF flag = u THEN "nobody" ELSE flag
        /\ UNCHANGED <<mounted, reading, editorUsed>>
        /\ IF x.entry
           THEN /\ up' = [up EXCEPT ![u] = Editor!CleanedUp(x)]
                /\ Editor!Publish(d)
                /\ fate' = IF u \in doc.pend THEN [fate EXCEPT ![u] = "shown"] ELSE fate
           ELSE up' = [up EXCEPT ![u] = x] /\ UNCHANGED <<doc, editorValue, fate, editorBehind, unsaid>>
    BY DEF Editor!Uploaded, Editor!Nobody
  <1>2. /\ up \in [Editor!Uploads -> Entry] /\ up[u] \in Entry /\ Calm(up[u])
        /\ up[u].url => mounted /\ up[u].entry
        /\ flag \in Editor!Uploads \cup {"nobody", "post"}
    BY DEF EditorInv, EditorType, EditorRuns, Owned
  <1>3. up[u].calls = 1 /\ up[u].timers = 0
    BY <1>1, <1>2 DEF Entry, Calm, Runs
  <1>4. /\ x \in Entry /\ x.entry = up[u].entry /\ x.url = up[u].url /\ x.calls = 0
        /\ x.timers = 0
    BY <1>2, <1>3 DEF Entry
  <1>5. Calm(x)
    BY <1>4 DEF Calm, Runs
  <1> HIDE DEF x
  <1>6. flag' \in Editor!Uploads \cup {"nobody", "post"} /\ (flag' = "post" => flag = "post")
    BY <1>1, <1>2
  <1>7. CASE ~x.entry
    <2>1. up' = [up EXCEPT ![u] = x] /\ UNCHANGED <<doc, editorValue, fate, editorBehind, unsaid>>
      BY <1>1, <1>7
    <2>2. /\ up' \in [Editor!Uploads -> Entry] /\ up'[u] = x
          /\ \A v \in Editor!Uploads \ {u} : up'[v] = up[v]
          /\ EditorRuns'
      BY <1>1, <1>2, <1>4, <1>5, <1>6, <2>1, OneChanged
    <2>3. EditorType'
      BY <1>1, <1>6, <2>1, <2>2 DEF EditorInv, EditorType
    <2>4. \A v \in Editor!Uploads : up'[v].entry = up[v].entry
      BY <1>4, <2>2
    <2>5. EditorLand'
      BY <1>6, <2>1, <2>4 DEF EditorInv, EditorLand, Covers
    <2> QED
      BY <2>2, <2>3, <2>5 DEF EditorInv
  <1>8. CASE x.entry
    <2> DEFINE y == Editor!CleanedUp(x)
    <2>1. /\ up' = [up EXCEPT ![u] = y] /\ Editor!Publish(d)
          /\ fate' = IF u \in doc.pend THEN [fate EXCEPT ![u] = "shown"] ELSE fate
      BY <1>1, <1>8
    <2>2. y \in Entry /\ y.entry = FALSE /\ y.url = FALSE /\ Calm(y)
      BY <1>4, <1>5, CleanedEntry
    <2> HIDE DEF y
    <2>3. /\ up' \in [Editor!Uploads -> Entry] /\ up'[u] = y
          /\ \A v \in Editor!Uploads \ {u} : up'[v] = up[v]
          /\ EditorRuns'
      BY <1>1, <1>6, <2>1, <2>2, OneChanged
    <2>4. /\ d \in [text : Nat, atts : SUBSET Editor!Uploads, pend : SUBSET Editor!Uploads]
          /\ d.pend = doc.pend \ {u}
          /\ d.atts = IF u \in doc.pend THEN doc.atts \cup {u} ELSE doc.atts
      <3> DEFINE e == [doc EXCEPT !.pend = @ \ {u}]
      <3>1. /\ e \in [text : Nat, atts : SUBSET Editor!Uploads, pend : SUBSET Editor!Uploads]
            /\ e.pend = doc.pend \ {u} /\ e.atts = doc.atts
            /\ d = [e EXCEPT !.atts = IF u \in doc.pend THEN @ \cup {u} ELSE @]
        BY DEF EditorInv, EditorType
      <3> HIDE DEF e, d
      <3> QED
        BY <3>1
    <2> HIDE DEF d
    <2>5. /\ doc' = d /\ editorValue' = Editor!Content(d) /\ editorBehind' = FALSE
          /\ unsaid' = Editor!AllSaid
      BY <2>1 DEF Editor!Publish
    <2>a. unsaid' \in [text : BOOLEAN, atts : SUBSET Editor!Uploads] /\ Covers'
      BY <2>5 DEF Covers, Editor!Content, Editor!AllSaid
    <2>6. DOMAIN fate' = Editor!Uploads
      BY <2>1 DEF EditorInv, EditorType
    <2>7. editorValue' \in [text : Nat, atts : SUBSET Editor!Uploads]
      BY <2>4, <2>5 DEF Editor!Content
    <2>8. EditorType'
      BY <1>1, <1>6, <2>3, <2>4, <2>5, <2>6, <2>7, <2>a DEF EditorInv, EditorType
    <2>9. ASSUME NEW v \in Editor!Uploads
          PROVE  /\ fate'[v] = "shown" => v \in doc'.atts
                 /\ up'[v].entry /\ fate'[v] = "none" => v \in doc'.pend
      <3>1. CASE v = u
        <4>1. ~up'[v].entry
          BY <2>2, <2>3, <3>1
        <4>2. fate'[v] = "shown" => v \in d.atts
          BY <2>1, <2>4, <3>1 DEF EditorInv, EditorLand, EditorType
        <4> QED
          BY <4>1, <4>2, <2>5
      <3>2. CASE v # u
        <4>1. fate'[v] = fate[v] /\ up'[v] = up[v]
          BY <2>1, <2>3, <3>2 DEF EditorInv, EditorType
        <4> QED
          BY <2>4, <2>5, <3>2, <4>1 DEF EditorInv, EditorLand
      <3> QED
        BY <3>1, <3>2
    <2>10. EditorLand'
      BY <2>5, <2>9, <2>a DEF EditorLand
    <2> QED
      BY <2>3, <2>8, <2>10 DEF EditorInv
  <1> QED
    BY <1>7, <1>8

LEMMA NotUploadedKeeps ==
  ASSUME EditorInv, NEW u \in Editor!Uploads, Editor!NotUploaded(u)
  PROVE  EditorInv'
  <1> DEFINE w == [up[u] EXCEPT !.calls = @ - 1]
             x == [w EXCEPT !.ui = IF up[u].entry THEN "error" ELSE @]
  <1>1. /\ up[u].calls > 0 /\ flag' = IF flag = u THEN "nobody" ELSE flag
        /\ UNCHANGED <<mounted, doc, editorValue, reading, fate, editorBehind, unsaid, editorUsed>>
        /\ up' = [up EXCEPT ![u].calls = @ - 1, ![u].ui = IF up[u].entry THEN "error" ELSE @]
    BY DEF Editor!NotUploaded, Editor!Nobody
  <1>2. /\ up \in [Editor!Uploads -> Entry] /\ up[u] \in Entry /\ Calm(up[u])
        /\ up[u].url => mounted /\ up[u].entry
        /\ flag \in Editor!Uploads \cup {"nobody", "post"}
    BY DEF EditorInv, EditorType, EditorRuns, Owned
  <1>3. up[u].calls = 1 /\ up[u].timers = 0
    BY <1>1, <1>2 DEF Entry, Calm, Runs
  <1>4. /\ w \in Entry /\ w.entry = up[u].entry /\ w.url = up[u].url /\ w.calls = 0
        /\ w.timers = 0
    BY <1>2, <1>3 DEF Entry
  <1>5. up' = [up EXCEPT ![u] = x]
    BY <1>1, <1>2
  <1> HIDE DEF w
  <1>6. /\ x \in Entry /\ x.entry = up[u].entry /\ x.url = up[u].url /\ x.calls = 0
        /\ x.timers = 0
    BY <1>4 DEF Entry
  <1>7. Calm(x)
    BY <1>6 DEF Calm, Runs
  <1> HIDE DEF x
  <1>8. flag' \in Editor!Uploads \cup {"nobody", "post"} /\ (flag' = "post" => flag = "post")
    BY <1>1, <1>2
  <1>9. /\ up' \in [Editor!Uploads -> Entry] /\ up'[u] = x
        /\ \A v \in Editor!Uploads \ {u} : up'[v] = up[v]
        /\ EditorRuns'
    BY <1>1, <1>2, <1>5, <1>6, <1>7, <1>8, OneChanged
  <1>10. EditorType'
    BY <1>1, <1>8, <1>9 DEF EditorInv, EditorType
  <1>11. \A v \in Editor!Uploads : up'[v].entry = up[v].entry
    BY <1>6, <1>9
  <1>12. EditorLand'
    BY <1>1, <1>8, <1>11 DEF EditorInv, EditorLand, Covers
  <1> QED
    BY <1>9, <1>10, <1>12 DEF EditorInv

LEMMA RemoveUploadKeeps ==
  ASSUME EditorInv, NEW u \in Editor!Uploads, Editor!removePendingUpload(u)
  PROVE  EditorInv'
  <1> DEFINE y == Editor!CleanedUp(up[u])
  <1>1. /\ up' = [up EXCEPT ![u] = y] /\ doc' = [doc EXCEPT !.pend = @ \ {u}]
        /\ fate' = [fate EXCEPT ![u] = "removed"]
        /\ UNCHANGED <<mounted, editorValue, reading, flag, editorBehind, unsaid, editorUsed>>
    BY DEF Editor!removePendingUpload
  <1>2. up[u] \in Entry /\ Calm(up[u]) /\ flag \in Editor!Uploads \cup {"nobody", "post"}
    BY DEF EditorInv, EditorType, EditorRuns
  <1>3. y \in Entry /\ y.entry = FALSE /\ y.url = FALSE /\ Calm(y)
    BY <1>2, CleanedEntry
  <1> HIDE DEF y
  <1>4. /\ up' \in [Editor!Uploads -> Entry] /\ up'[u] = y
        /\ \A v \in Editor!Uploads \ {u} : up'[v] = up[v]
        /\ EditorRuns'
    BY <1>1, <1>2, <1>3, OneChanged
  <1>5. /\ doc' \in [text : Nat, atts : SUBSET Editor!Uploads, pend : SUBSET Editor!Uploads]
        /\ doc'.pend = doc.pend \ {u} /\ doc'.atts = doc.atts /\ doc'.text = doc.text
    BY <1>1 DEF EditorInv, EditorType
  <1>6. /\ DOMAIN fate' = Editor!Uploads /\ fate'[u] = "removed"
        /\ \A v \in Editor!Uploads \ {u} : fate'[v] = fate[v]
    BY <1>1 DEF EditorInv, EditorType
  <1>7. EditorType'
    BY <1>1, <1>4, <1>5, <1>6 DEF EditorInv, EditorType
  <1>8. Covers => Covers'
    BY <1>1, <1>5 DEF Covers
  <1>9. \A v \in Editor!Uploads :
           /\ fate'[v] = "shown" => v \in doc'.atts
           /\ up'[v].entry /\ fate'[v] = "none" => v \in doc'.pend
    BY <1>4, <1>5, <1>6 DEF EditorInv, EditorLand
  <1>10. EditorLand'
    BY <1>1, <1>8, <1>9 DEF EditorInv, EditorLand
  <1> QED
    BY <1>4, <1>7, <1>10 DEF EditorInv

\* The document changes by hand, is published, and no node is lost without a
\* trace.
LEMMA PublishedKeeps ==
  ASSUME EditorInv,
         NEW d \in [text : Nat, atts : SUBSET Editor!Uploads, pend : SUBSET Editor!Uploads],
         Editor!Publish(d), UNCHANGED <<mounted, up, flag>>, reading' \in Seq(Pastes),
         editorUsed' \in [pastes : Nat, texts : Nat, retries : Nat, posts : Nat],
         DOMAIN fate' = Editor!Uploads,
         \A v \in Editor!Uploads :
            /\ fate'[v] = "shown" => v \in d.atts
            /\ up[v].entry /\ fate'[v] = "none" => v \in d.pend
  PROVE  EditorInv'
  <1>1. /\ doc' = d /\ editorValue' = Editor!Content(d) /\ editorBehind' = FALSE
        /\ unsaid' = Editor!AllSaid
    BY DEF Editor!Publish
  <1>a. unsaid' \in [text : BOOLEAN, atts : SUBSET Editor!Uploads] /\ Covers'
    BY <1>1 DEF Covers, Editor!Content, Editor!AllSaid
  <1>2. Editor!Content(d) \in [text : Nat, atts : SUBSET Editor!Uploads]
    BY DEF Editor!Content
  <1>3. EditorType'
    BY <1>1, <1>2, <1>a DEF EditorInv, EditorType
  <1>4. EditorRuns'
    BY DEF EditorInv, EditorRuns, Owned, Calm, Runs
  <1>5. EditorLand'
    BY <1>1, <1>a DEF EditorLand
  <1> QED
    BY <1>3, <1>4, <1>5 DEF EditorInv

LEMMA CollapsedPastes ==
  ASSUME reading \in Seq(Pastes) PROVE Editor!Collapsed(reading) \in Seq(Pastes)
  <1>1. Len(reading) \in Nat /\ DOMAIN reading = 1 .. Len(reading)
    OBVIOUS
  <1>2. ASSUME NEW i \in 1 .. Len(reading)
        PROVE  [reading[i] EXCEPT !.over = FALSE, !.in = {}, !.out = {}] \in Pastes
    <2>1. reading[i] \in Pastes
      BY <1>1
    <2>2. [reading[i] EXCEPT !.over = FALSE] \in Pastes
      BY <2>1 DEF Pastes
    <2>3. [[reading[i] EXCEPT !.over = FALSE] EXCEPT !.in = {}] \in Pastes
      BY <2>2 DEF Pastes
    <2> QED
      BY <2>3 DEF Pastes
  <1>3. Editor!Collapsed(reading)
           = [i \in 1 .. Len(reading) |->
                [reading[i] EXCEPT !.over = FALSE, !.in = {}, !.out = {}]]
    BY <1>1 DEF Editor!Collapsed
  <1>4. Editor!Collapsed(reading) \in [1 .. Len(reading) -> Pastes]
    BY <1>2, <1>3
  <1> QED
    BY <1>1, <1>4

LEMMA TypingKeeps ==
  ASSUME EditorInv,
         Editor!Type \/ Editor!convertMarkdown \/ \E u \in Editor!Uploads : Editor!DeleteNode(u)
  PROVE  EditorInv'
  <1>1. /\ doc \in [text : Nat, atts : SUBSET Editor!Uploads, pend : SUBSET Editor!Uploads]
        /\ editorUsed \in [pastes : Nat, texts : Nat, retries : Nat, posts : Nat]
        /\ DOMAIN fate = Editor!Uploads
    BY DEF EditorInv, EditorType
  <1>a. reading \in Seq(Pastes)
    BY DEF EditorInv, EditorType
  <1>2. [editorUsed EXCEPT !.texts = @ + 1]
           \in [pastes : Nat, texts : Nat, retries : Nat, posts : Nat]
    BY <1>1
  <1>3. CASE Editor!Type
    <2> DEFINE d == [doc EXCEPT !.text = editorUsed.texts + 1]
    <2>1. /\ Editor!Publish(d) /\ UNCHANGED <<mounted, reading, up, flag, fate>>
          /\ editorUsed' = [editorUsed EXCEPT !.texts = @ + 1]
      BY <1>3 DEF Editor!Type
    <2>2. /\ d \in [text : Nat, atts : SUBSET Editor!Uploads, pend : SUBSET Editor!Uploads]
          /\ d.pend = doc.pend /\ d.atts = doc.atts
      BY <1>1
    <2> HIDE DEF d
    <2>3. \A v \in Editor!Uploads :
             /\ fate'[v] = "shown" => v \in d.atts
             /\ up[v].entry /\ fate'[v] = "none" => v \in d.pend
      BY <2>1, <2>2 DEF EditorInv, EditorLand
    <2> QED
      BY <1>1, <1>2, <1>a, <2>1, <2>2, <2>3, PublishedKeeps
  <1>4. CASE Editor!convertMarkdown
    <2> DEFINE d == [text |-> editorUsed.texts + 1, atts |-> {}, pend |-> {}]
    <2>1. /\ Editor!Publish(d) /\ UNCHANGED <<mounted, up, flag>>
          /\ editorUsed' = [editorUsed EXCEPT !.texts = @ + 1]
          /\ reading' = Editor!Collapsed(reading)
          /\ fate' = [u \in Editor!Uploads |-> IF u \in doc.pend \cup doc.atts
                                  THEN "converted" ELSE fate[u]]
      BY <1>4 DEF Editor!convertMarkdown
    <2>2. /\ d \in [text : Nat, atts : SUBSET Editor!Uploads, pend : SUBSET Editor!Uploads]
      BY <1>1
    <2>3. ASSUME NEW v \in Editor!Uploads PROVE fate'[v] \notin {"shown"} /\ (up[v].entry => fate'[v] # "none")
      <3>1. CASE v \in doc.pend \cup doc.atts
        BY <2>1, <3>1
      <3>2. CASE v \notin doc.pend \cup doc.atts
        BY <2>1, <3>2 DEF EditorInv, EditorLand
      <3> QED
        BY <3>1, <3>2
    <2>4. DOMAIN fate' = Editor!Uploads
      BY <2>1
    <2> HIDE DEF d
    <2> QED
      BY <1>2, <1>a, <2>1, <2>2, <2>3, <2>4, CollapsedPastes, PublishedKeeps
  <1>5. ASSUME NEW u \in Editor!Uploads, Editor!DeleteNode(u) PROVE EditorInv'
    <2> DEFINE e == [doc EXCEPT !.pend = @ \ {u}]
               d == [e EXCEPT !.atts = @ \ {u}]
    <2>1. /\ Editor!Publish([doc EXCEPT !.pend = @ \ {u}, !.atts = @ \ {u}])
          /\ UNCHANGED <<mounted, reading, up, flag, editorUsed>>
          /\ fate' = [fate EXCEPT ![u] = "deleted"]
      BY <1>5 DEF Editor!DeleteNode
    <2>2. /\ e \in [text : Nat, atts : SUBSET Editor!Uploads, pend : SUBSET Editor!Uploads]
          /\ e.pend = doc.pend \ {u} /\ e.atts = doc.atts
          /\ [doc EXCEPT !.pend = @ \ {u}, !.atts = @ \ {u}] = d
      BY <1>1
    <2> HIDE DEF e
    <2>3. /\ d \in [text : Nat, atts : SUBSET Editor!Uploads, pend : SUBSET Editor!Uploads]
          /\ d.pend = doc.pend \ {u} /\ d.atts = doc.atts \ {u}
      BY <2>2
    <2> HIDE DEF d
    <2>4. /\ DOMAIN fate' = Editor!Uploads /\ fate'[u] = "deleted"
          /\ \A v \in Editor!Uploads \ {u} : fate'[v] = fate[v]
      BY <1>1, <2>1
    <2>5. \A v \in Editor!Uploads :
             /\ fate'[v] = "shown" => v \in d.atts
             /\ up[v].entry /\ fate'[v] = "none" => v \in d.pend
      BY <2>3, <2>4 DEF EditorInv, EditorLand
    <2>6. Editor!Publish(d)
      BY <2>1, <2>2
    <2> QED
      BY <1>1, <1>a, <2>1, <2>3, <2>4, <2>5, <2>6, PublishedKeeps
  <1> QED
    BY <1>3, <1>4, <1>5

LEMMA PostingKeeps ==
  ASSUME EditorInv, Editor!submitWorkItemComment \/ Editor!Posted
  PROVE  EditorInv'
  <1>1. CASE Editor!submitWorkItemComment
    <2>1. /\ editorValue # Editor!NoText /\ flag' = "post"
          /\ UNCHANGED <<mounted, doc, editorValue, reading, up, fate, editorBehind, unsaid>>
          /\ editorUsed' = [editorUsed EXCEPT !.posts = @ + 1]
      BY <1>1 DEF Editor!submitWorkItemComment, Editor!Post
    <2>2. editorUsed' \in [pastes : Nat, texts : Nat, retries : Nat, posts : Nat]
      <3>1. editorUsed \in [pastes : Nat, texts : Nat, retries : Nat, posts : Nat]
        BY DEF EditorInv, EditorType
      <3> QED
        BY <2>1, <3>1
    <2>3. EditorType'
      BY <2>1, <2>2 DEF EditorInv, EditorType
    <2>4. EditorRuns'
      BY <2>1 DEF EditorInv, EditorRuns, Owned, Calm, Runs
    <2>5. EditorLand'
      BY <2>1 DEF EditorInv, EditorLand, Covers, Editor!NoText
    <2> QED
      BY <2>3, <2>4, <2>5 DEF EditorInv
  <1>2. CASE Editor!Posted
    <2>1. /\ flag = "post" /\ flag' = "nobody" /\ UNCHANGED <<mounted, up, editorUsed>>
      BY <1>2 DEF Editor!Posted, Editor!Nobody, Editor!Post
    <2>2. EditorRuns'
      BY <2>1 DEF EditorInv, EditorRuns, Owned, Calm, Runs
    <2>3. CASE UNCHANGED <<doc, editorValue, reading, editorBehind, unsaid, fate>>
      <3>1. EditorType'
        BY <2>1, <2>3 DEF EditorInv, EditorType
      <3>2. EditorLand'
        BY <2>1, <2>3 DEF EditorInv, EditorLand, Covers
      <3> QED
        BY <2>2, <3>1, <3>2 DEF EditorInv
    <2> DEFINE v == Editor!NoText
               d == Editor!Rebuilt(doc, v)
    <2>4. CASE /\ editorValue' = v /\ doc' = d /\ unsaid' = Editor!AllSaid
               /\ reading' = IF d = doc THEN reading ELSE Editor!Collapsed(reading)
               /\ editorBehind' = (editorBehind \/ Editor!Content(d) # v)
               /\ fate' = [u \in Editor!Uploads |->
                    IF u \in editorValue.atts THEN "removed" ELSE fate[u]]
      <3>1. reading' \in Seq(Pastes)
        BY <2>4, CollapsedPastes DEF EditorInv, EditorType
      <3>2. ~editorBehind /\ Covers
        BY <2>1 DEF EditorInv, EditorLand
      <3>4. /\ v \in [text : Nat, atts : SUBSET Editor!Uploads] /\ v.atts = {}
        BY DEF Editor!NoText
      <3>5. /\ d \in [text : Nat, atts : SUBSET Editor!Uploads, pend : SUBSET Editor!Uploads]
            /\ d.pend = doc.pend
        BY <3>4 DEF Editor!Rebuilt, EditorInv, EditorType
      <3>6. /\ DOMAIN fate' = Editor!Uploads
            /\ unsaid' \in [text : BOOLEAN, atts : SUBSET Editor!Uploads]
        BY <2>4 DEF Editor!AllSaid
      <3> HIDE DEF v, d
      <3>7. EditorType'
        BY <2>1, <2>4, <3>1, <3>4, <3>5, <3>6 DEF EditorInv, EditorType
      <3>8. ASSUME NEW u \in Editor!Uploads
            PROVE  fate'[u] # "shown" /\ (up'[u].entry /\ fate'[u] = "none" => u \in doc'.pend)
        <4>1. fate'[u] = IF u \in editorValue.atts THEN "removed" ELSE fate[u]
          BY <2>4
        <4>2. doc.atts \subseteq editorValue.atts
          BY <3>2 DEF Covers
        <4> QED
          BY <2>1, <2>4, <3>5, <4>1, <4>2 DEF EditorInv, EditorLand
      <3>9. ~editorBehind' => Covers'
        <4>1. Editor!Content(d).atts = d.atts /\ Editor!Content(d).text = d.text
          BY DEF Editor!Content
        <4>2. SUFFICES ASSUME ~editorBehind' PROVE Covers'
          OBVIOUS
        <4>3. Editor!Content(d) = v
          BY <2>4, <4>2
        <4> QED
          BY <2>4, <4>1, <4>3 DEF Covers, Editor!AllSaid
      <3>10. EditorLand'
        BY <2>1, <2>4, <3>8, <3>9 DEF EditorLand, v
      <3> QED
        BY <2>2, <3>7, <3>10 DEF EditorInv
    <2>5. CASE /\ editorValue = v /\ UNCHANGED <<doc, editorValue, reading, editorBehind, unsaid>>
               /\ fate' = [u \in Editor!Uploads |->
                    IF u \in editorValue.atts THEN "removed" ELSE fate[u]]
      <3>1. DOMAIN fate' = Editor!Uploads /\ \A u \in Editor!Uploads : fate'[u] = fate[u]
        BY <2>5 DEF Editor!NoText
      <3>2. EditorType'
        BY <2>1, <2>5, <3>1 DEF EditorInv, EditorType
      <3>3. EditorLand'
        BY <2>1, <2>5, <3>1 DEF EditorInv, EditorLand, Covers
      <3> QED
        BY <2>2, <3>2, <3>3 DEF EditorInv
    <2> QED
      BY <1>2, <2>3, <2>4, <2>5 DEF Editor!Posted, Editor!SetValue
  <1> QED
    BY <1>1, <1>2

LEMMA UnmountKeeps == EditorInv /\ Editor!Unmount => EditorInv'
  <1> SUFFICES ASSUME EditorInv, Editor!Unmount PROVE EditorInv'
    OBVIOUS
  <1>1. /\ mounted' = FALSE /\ doc' = [doc EXCEPT !.pend = {}]
        /\ up' = [u \in Editor!Uploads |->
                     IF up[u].entry THEN Editor!CleanedUp(up[u]) ELSE up[u]]
        /\ fate' = [u \in Editor!Uploads |->
                     IF fate[u] = "none" THEN "unmounted" ELSE fate[u]]
        /\ UNCHANGED <<editorValue, reading, flag, editorBehind, unsaid, editorUsed>>
    BY DEF Editor!Unmount
  <1>2. ASSUME NEW u \in Editor!Uploads
        PROVE  up'[u] \in Entry /\ Calm(up'[u]) /\ ~up'[u].url /\ ~up'[u].entry
    <2>1. up[u] \in Entry /\ Calm(up[u]) /\ (up[u].url => mounted /\ up[u].entry)
      BY DEF EditorInv, EditorType, EditorRuns, Owned
    <2>2. up'[u] = IF up[u].entry THEN Editor!CleanedUp(up[u]) ELSE up[u]
      BY <1>1
    <2>3. CASE up[u].entry
      BY <2>1, <2>2, <2>3, CleanedEntry
    <2>4. CASE ~up[u].entry
      BY <2>1, <2>2, <2>4
    <2> QED
      BY <2>3, <2>4
  <1>3. up' \in [Editor!Uploads -> Entry]
    <2>1. up' = [u \in Editor!Uploads |-> up'[u]]
      BY <1>1
    <2> QED
      BY <1>2, <2>1
  <1>4. /\ doc' \in [text : Nat, atts : SUBSET Editor!Uploads, pend : SUBSET Editor!Uploads]
        /\ doc'.atts = doc.atts /\ doc'.text = doc.text
    BY <1>1 DEF EditorInv, EditorType
  <1>5. DOMAIN fate' = Editor!Uploads
    BY <1>1
  <1>6. EditorType'
    BY <1>1, <1>3, <1>4, <1>5 DEF EditorInv, EditorType
  <1>7. EditorRuns'
    BY <1>2 DEF EditorRuns, Owned
  <1>8. Covers => Covers'
    BY <1>1, <1>4 DEF Covers
  <1>9. \A u \in Editor!Uploads : fate'[u] = "shown" => u \in doc'.atts
    BY <1>1, <1>4 DEF EditorInv, EditorLand
  <1>10. EditorLand'
    BY <1>1, <1>2, <1>8, <1>9 DEF EditorInv, EditorLand
  <1> QED
    BY <1>6, <1>7, <1>10 DEF EditorInv

LEMMA EditorNext == EditorInv /\ [Editor!Next]_editorVars => EditorInv'
  <1> SUFFICES ASSUME EditorInv, [Editor!Next]_editorVars PROVE EditorInv'
    OBVIOUS
  <1>1. CASE Editor!Next
    <2>1. CASE Editor!Proceed
      BY <2>1, StartPasteKeeps, PostingKeeps, UploadedKeeps, NotUploadedKeeps,
         UploadTimerKeeps DEF Editor!Proceed
    <2>2. CASE Editor!Paste \/ Editor!Type \/ Editor!convertMarkdown
               \/ Editor!submitWorkItemComment \/ Editor!Unmount
      BY <2>2, PasteKeeps, TypingKeeps, PostingKeeps, UnmountKeeps
    <2>3. ASSUME NEW u \in Editor!Uploads,
                 Editor!retryPendingUpload(u) \/ Editor!removePendingUpload(u)
                 \/ Editor!DeleteNode(u)
          PROVE  EditorInv'
      BY <2>3, RetryKeeps, RemoveUploadKeeps, TypingKeeps
    <2> QED
      BY <1>1, <2>1, <2>2, <2>3 DEF Editor!Next
  <1>2. CASE UNCHANGED editorVars
    <2>1. UNCHANGED <<mounted, doc, editorValue, reading, up, flag, fate, editorBehind, unsaid,
                     editorUsed>>
      BY <1>2 DEF editorVars
    <2>2. EditorType' /\ EditorRuns'
      BY <2>1 DEF EditorInv, EditorType, EditorRuns, Owned, Calm, Runs
    <2>3. EditorLand'
      BY <2>1 DEF EditorInv, EditorLand, Covers
    <2> QED
      BY <2>2, <2>3 DEF EditorInv
  <1> QED
    BY <1>1, <1>2

LEMMA EditorKept ==
  EditorInv => Editor!OneRunPerUpload /\ Editor!UrlsOwned /\ Editor!UploadsLand
  BY DEF EditorInv, EditorRuns, EditorLand, Editor!OneRunPerUpload, Editor!UrlsOwned,
     Editor!UploadsLand, Calm, Runs, Owned, Covers

-----------------------------------------------------------------------------
\* The toolbar, and a text that is shown.

ToolbarInv ==
    /\ \A m, n \in open : m = n
    /\ range # "none" => open # {} \/ bySection

LEMMA ToolbarInit == Toolbar!Init => ToolbarInv
  BY DEF Toolbar!Init, Toolbar!None, ToolbarInv

LEMMA ShutKeeps ==
  ASSUME ToolbarInv, NEW C, Toolbar!Shut(C)
  PROVE  ToolbarInv'
  BY DEF Toolbar!Shut, Toolbar!None, ToolbarInv

LEMMA OpensKeeps ==
  ASSUME NEW m, Toolbar!Opens(m)
  PROVE  ToolbarInv'
  BY DEF Toolbar!Opens, Toolbar!OpenAfter, ToolbarInv

LEMMA ToolbarStays ==
  ASSUME ToolbarInv, UNCHANGED <<open, range, bySection>>
  PROVE  ToolbarInv'
  BY DEF ToolbarInv

LEMMA ToolbarNext == ToolbarInv /\ [Toolbar!Next]_toolbarVars => ToolbarInv'
  <1> SUFFICES ASSUME ToolbarInv, [Toolbar!Next]_toolbarVars PROVE ToolbarInv'
    OBVIOUS
  <1>1. CASE Toolbar!Dismiss
    BY <1>1, ShutKeeps DEF Toolbar!Dismiss
  <1>2. CASE Toolbar!PickCustomColor
    BY <1>2, ShutKeeps DEF Toolbar!PickCustomColor
  <1>3. CASE Toolbar!Execute
    BY <1>3, ToolbarStays DEF Toolbar!Execute
  <1>4. CASE Toolbar!openSectionLinks
    BY <1>4 DEF Toolbar!openSectionLinks, ToolbarInv
  <1>5. CASE Toolbar!ChooseSection
    BY <1>5, ToolbarStays DEF Toolbar!ChooseSection
  <1>6. ASSUME NEW to \in Toolbar!Spots, Toolbar!MovePointer(to) PROVE ToolbarInv'
    BY <1>6, OpensKeeps, ToolbarStays DEF Toolbar!MovePointer
  <1>7. ASSUME NEW m \in Toolbar!Menus,
               Toolbar!Press(m) \/ Toolbar!TimerFires(m) \/ Toolbar!PickOption(m)
        PROVE  ToolbarInv'
    <2>1. CASE Toolbar!Press(m)
      BY <2>1, OpensKeeps DEF Toolbar!Press
    <2>2. CASE Toolbar!TimerFires(m)
      BY <2>2, ShutKeeps, ToolbarStays DEF Toolbar!TimerFires
    <2>3. CASE Toolbar!PickOption(m)
      BY <2>3, ShutKeeps DEF Toolbar!PickOption
    <2> QED
      BY <1>7, <2>1, <2>2, <2>3
  <1>8. ASSUME NEW p \in Places, Toolbar!Select(p) PROVE ToolbarInv'
    BY <1>8, ToolbarStays DEF Toolbar!Select
  <1>9. CASE UNCHANGED toolbarVars
    BY <1>9, ToolbarStays DEF toolbarVars
  <1> QED
    BY <1>1, <1>2, <1>3, <1>4, <1>5, <1>6, <1>7, <1>8, <1>9 DEF Toolbar!Next

LEMMA ToolbarKept == ToolbarInv => Toolbar!RangeOfOpenMenu
  BY DEF ToolbarInv, Toolbar!RangeOfOpenMenu, Toolbar!None

ContentInv ==
    /\ \A k \in DOMAIN source : source[k] = "open" => k[1] = text
    /\ width \in MinWidth .. MaxWidth
    /\ contentDrag = "none" => width = Content!Remembered(stored)

LEMMA Clamped ==
  ASSUME NEW w \in Int
  PROVE  Content!clampRichTextTableOfContentsWidth(w) \in MinWidth .. MaxWidth
  BY ContentAssumption DEF Content!clampRichTextTableOfContentsWidth

LEMMA ContentInit == Content!Init => ContentInv
  <1> SUFFICES ASSUME Content!Init PROVE ContentInv
    OBVIOUS
  <1>1. \A k \in DOMAIN source : source[k] # "open"
    BY DEF Content!Init, Content!Shown
  <1>2. width \in MinWidth .. MaxWidth /\ width = Content!Remembered(stored)
    BY ContentAssumption DEF Content!Init, Content!Remembered
  <1> QED
    BY <1>1, <1>2 DEF ContentInv

LEMMA ContentNext == ContentInv /\ [Content!Next]_contentVars => ContentInv'
  <1> SUFFICES ASSUME ContentInv, [Content!Next]_contentVars PROVE ContentInv'
    OBVIOUS
  <1>1. CASE Content!ReplaceText
    <2> DEFINE s == [k \in DOMAIN source |->
                       IF source[k] = "open" THEN "released" ELSE source[k]]
    <2>1. /\ source' = Content!Shown(s, text + 1) /\ UNCHANGED <<width, stored, contentDrag>>
      BY <1>1 DEF Content!ReplaceText
    <2>2. \A k \in DOMAIN s : s[k] # "open"
      OBVIOUS
    <2> HIDE DEF s
    <2>3. \A k \in DOMAIN source' : source'[k] # "open"
      BY <2>1, <2>2 DEF Content!Shown
    <2> QED
      BY <2>1, <2>3 DEF ContentInv, Content!Remembered
  <1>2. CASE Content!KeyDown
    <2>1. PICK w \in {width - 1, width + 1, MinWidth, MaxWidth} :
             width' = Content!clampRichTextTableOfContentsWidth(w)
      BY <1>2 DEF Content!KeyDown
    <2>2. w \in Int
      BY <2>1, ContentAssumption DEF ContentInv
    <2>3. width' \in MinWidth .. MaxWidth /\ UNCHANGED <<text, source>> /\ stored' = width'
      BY <1>2, <2>1, <2>2, Clamped DEF Content!KeyDown
    <2>4. stored' # 0
      BY <2>3, ContentAssumption
    <2> QED
      BY <2>3, <2>4 DEF ContentInv, Content!Remembered
  <1>3. ASSUME NEW k \in DOMAIN source, Content!Resolve(k) PROVE ContentInv'
    <2>1. UNCHANGED <<text, width, stored, contentDrag>>
      BY <1>3 DEF Content!Resolve
    <2>2. PICK s : source' = [source EXCEPT ![k] = s] /\ (s = "open" => k[1] = text)
      BY <1>3 DEF Content!Resolve, Content!Resolved
    <2>3. \A j \in DOMAIN source' : source'[j] = "open" => j[1] = text
      BY <2>2 DEF ContentInv
    <2> QED
      BY <2>1, <2>3 DEF ContentInv, Content!Remembered
  <1>4. ASSUME NEW p \in Pointers,
               Content!PointerDown(p) \/ Content!PointerMove(p) \/ Content!PointerEnd(p)
        PROVE  ContentInv'
    <2>1. p # "none"
      BY ContentAssumption DEF Content!None
    <2>2. CASE Content!PointerDown(p)
      BY <2>1, <2>2 DEF Content!PointerDown, ContentInv
    <2>3. CASE Content!PointerMove(p)
      <3>1. PICK w \in Widths : width' = Content!clampRichTextTableOfContentsWidth(w)
        BY <2>3 DEF Content!PointerMove
      <3>2. width' \in MinWidth .. MaxWidth
        BY <3>1, ContentAssumption, Clamped
      <3>3. contentDrag' = p /\ UNCHANGED <<text, source>>
        BY <2>3 DEF Content!PointerMove
      <3> QED
        BY <2>1, <3>2, <3>3 DEF ContentInv
    <2>4. CASE Content!PointerEnd(p)
      <3>1. stored' = width /\ UNCHANGED <<text, source, width>> /\ width # 0
        BY <2>4, ContentAssumption DEF Content!PointerEnd, ContentInv
      <3> QED
        BY <3>1 DEF ContentInv, Content!Remembered
    <2> QED
      BY <1>4, <2>2, <2>3, <2>4
  <1>5. CASE UNCHANGED contentVars
    BY <1>5 DEF contentVars, ContentInv, Content!Remembered
  <1> QED
    BY <1>1, <1>2, <1>3, <1>4, <1>5 DEF Content!Next

LEMMA ContentKept == ContentInv => Content!SourcesOfShownText
  BY DEF ContentInv, Content!SourcesOfShownText, Content!None

-----------------------------------------------------------------------------
\* The pace of polling.

\* The next poll comes e half seconds before the server's gate at most, or
\* anywhere for e = 2.
Longer == IF pollingPoll.delay > pollingPoll.answer THEN pollingPoll.delay ELSE pollingPoll.answer
Lag(e) ==
    \/ e = 2
    \/ /\ pollingPoll.at = "sleep" =>
             pollingPoll.until >= gate - e \/ pollingPoll.until >= expires
       /\ pollingPoll.at = "sent" => clock >= gate - e
       /\ pollingPoll.at = "answered" => clock + 2 * Longer >= gate - e
       /\ pollingPoll.at = "off" => clock + 2 * Interval >= gate - e

PollType ==
    /\ clock \in Nat /\ gate \in Nat /\ expires \in Nat /\ slowed \in Nat
    /\ restarts \in Nat /\ stray \in 0 .. restarts
    /\ pollingPoll \in [at : {"sleep", "sent", "answered", "off", "over"},
                        until : Nat, delay : Nat, answer : Nat]

\* A request that was served late may push the gate away from the next poll;
\* as long as none was, the gate is an interval ahead at most.
PollInv ==
    /\ PollType
    /\ pollingPoll.at \in {"sleep", "sent", "answered"} => pollingPoll.delay >= Interval
    /\ stray = restarts => gate <= clock + 2 * Interval
    /\ \E e \in 0 .. 2 : Lag(e) /\ slowed + e + 2 * stray <= 2 * restarts

LEMMA AsleepLasts ==
  ASSUME NEW t \in Nat, NEW d \in Nat, expires \in Nat
  PROVE  LET a == Polling!Asleep(t, d)
         IN  /\ a \in [at : {"sleep", "sent", "answered", "off", "over"},
                       until : Nat, delay : Nat, answer : Nat]
             /\ a.at = "sleep" /\ a.delay = d
             /\ a.until >= t + 2 * d \/ a.until >= expires
  <1> DEFINE n == t + Polling!Smaller(2 * d, Polling!Larger(0, expires - t))
  <1>1. n \in Nat /\ (n >= t + 2 * d \/ n >= expires)
    BY DEF Polling!Smaller, Polling!Larger
  <1> HIDE DEF n
  <1>2. Polling!Asleep(t, d) = [at |-> "sleep", delay |-> d, answer |-> 0, until |-> n]
    BY DEF Polling!Asleep, n
  <1> QED
    BY <1>1, <1>2

LEMMA PollInit == Polling!PollInit => PollInv
  <1> SUFFICES ASSUME Polling!PollInit PROVE PollInv
    OBVIOUS
  <1>1. /\ clock \in 0 .. 2 /\ gate = 0 /\ expires = clock + 2 * Lifetime
        /\ pollingPoll = Polling!Asleep(clock, Interval)
        /\ stray = 0 /\ slowed = 0 /\ restarts = 0
    BY DEF Polling!PollInit
  <1>2. clock \in Nat /\ expires \in Nat /\ Interval \in Nat
    BY <1>1, PollingAssumption
  <1>3. /\ pollingPoll \in [at : {"sleep", "sent", "answered", "off", "over"},
                       until : Nat, delay : Nat, answer : Nat]
        /\ pollingPoll.at = "sleep" /\ pollingPoll.delay = Interval
    BY <1>1, <1>2, AsleepLasts
  <1>4. pollingPoll.until \in Nat
    BY <1>3
  <1>5. Lag(0)
    BY <1>1, <1>3, <1>4 DEF Lag
  <1> QED
    BY <1>1, <1>2, <1>3, <1>5 DEF PollInv, PollType

LEMMA PollNext == PollInv /\ [Polling!PollNext]_pollVars => PollInv'
  <1> SUFFICES ASSUME PollInv, [Polling!PollNext]_pollVars PROVE PollInv'
    OBVIOUS
  <1> DEFINE P == [at : {"sleep", "sent", "answered", "off", "over"},
                   until : Nat, delay : Nat, answer : Nat]
  <1>1. PICK e \in 0 .. 2 : Lag(e) /\ slowed + e + 2 * stray <= 2 * restarts
    BY DEF PollInv
  <1>2. /\ clock \in Nat /\ gate \in Nat /\ expires \in Nat /\ slowed \in Nat
        /\ restarts \in Nat /\ stray \in 0 .. restarts /\ Interval \in Nat
        /\ pollingPoll \in P
        /\ pollingPoll.until \in Nat /\ pollingPoll.delay \in Nat /\ pollingPoll.answer \in Nat
    BY PollingAssumption DEF PollInv, PollType
  <1>3. /\ pollingPoll.at \in {"sleep", "sent", "answered"} => pollingPoll.delay >= Interval
        /\ stray = restarts => gate <= clock + 2 * Interval
    BY DEF PollInv
  <1>4. Longer \in Nat /\ Longer >= pollingPoll.delay /\ Longer >= pollingPoll.answer
    BY <1>2 DEF Longer
  <1>5. CASE Polling!Tick
    <2>1. clock' = clock + 1 /\ UNCHANGED <<gate, pollingPoll, expires, stray, slowed, restarts>>
      BY <1>5 DEF Polling!Tick
    <2>2. Lag(e)'
      BY <1>1, <1>2, <1>4, <2>1 DEF Lag, Longer
    <2> QED
      BY <1>1, <1>2, <1>3, <2>1, <2>2 DEF PollInv, PollType
  <1>6. CASE Polling!Wake
    <2>1. /\ pollingPoll.at = "sleep" /\ pollingPoll.until <= clock
          /\ pollingPoll' = [pollingPoll EXCEPT !.at = IF clock >= expires THEN "over" ELSE "sent"]
          /\ UNCHANGED <<clock, gate, expires, stray, slowed, restarts>>
      BY <1>6 DEF Polling!Wake
    <2>2. /\ pollingPoll' \in P /\ pollingPoll'.delay = pollingPoll.delay
          /\ pollingPoll'.at = IF clock >= expires THEN "over" ELSE "sent"
      BY <1>2, <2>1
    <2>3. Lag(e)'
      BY <1>1, <1>2, <2>1, <2>2 DEF Lag
    <2> QED
      BY <1>1, <1>2, <1>3, <2>1, <2>2, <2>3 DEF PollInv, PollType
  <1>7. Polling!Early => Polling!NextGate = gate + 2 * Interval
    BY DEF Polling!NextGate
  <1>8. ~Polling!Early => Polling!NextGate \in Nat /\ Polling!NextGate <= clock + 2 * Interval
    BY <1>2 DEF Polling!NextGate, Polling!Cut
  <1>9. Polling!NextGate \in Nat
    BY <1>2, <1>7, <1>8
  <1>10. CASE Polling!Serve
    <2> DEFINE a == Polling!RetryAfter
    <2>1. /\ pollingPoll.at = "sent" /\ gate' = Polling!NextGate
          /\ pollingPoll' = [pollingPoll EXCEPT !.at = "answered", !.answer = a]
          /\ slowed' = IF Polling!Early THEN slowed + 1 ELSE 0
          /\ UNCHANGED <<clock, expires, stray, restarts>>
      BY <1>10 DEF Polling!Serve
    <2>2. a \in Nat
      BY <1>2 DEF Polling!RetryAfter, Polling!Larger, Polling!Early
    <2>3. Polling!Early => /\ 2 * a >= gate - clock - 1 + 2 * Interval
                           /\ gate - clock <= 1 => 2 * a >= gate - clock + 2 * Interval
      BY <1>2 DEF Polling!RetryAfter, Polling!Larger, Polling!Early
    <2>4. ~Polling!Early => a = Interval
      BY DEF Polling!RetryAfter
    <2> HIDE DEF a
    <2>5. /\ pollingPoll' \in P /\ pollingPoll'.delay = pollingPoll.delay
          /\ pollingPoll'.at = "answered" /\ pollingPoll'.answer = a
      <3> DEFINE w == [pollingPoll EXCEPT !.at = "answered"]
      <3>1. w \in P /\ w.delay = pollingPoll.delay /\ w.at = "answered"
            /\ pollingPoll' = [w EXCEPT !.answer = a]
        BY <1>2, <2>1
      <3> HIDE DEF w
      <3> QED
        BY <2>2, <3>1
    <2>6. Longer' \in Nat /\ Longer' >= a /\ Longer' >= pollingPoll.delay
      BY <1>2, <2>2, <2>5 DEF Longer
    <2>7. CASE ~Polling!Early
      <3>1. gate' <= clock + 2 * Interval /\ gate' \in Nat
        BY <1>8, <2>1, <2>7
      <3>2. Lag(0)'
        BY <1>2, <2>1, <2>4, <2>5, <2>6, <2>7, <3>1 DEF Lag
      <3>3. slowed' = 0 /\ slowed' + 0 + 2 * stray' <= 2 * restarts'
        BY <1>2, <2>1, <2>7
      <3> QED
        BY <1>2, <1>3, <2>1, <2>5, <3>1, <3>2, <3>3 DEF PollInv, PollType
    <2>8. CASE Polling!Early
      <3>1. gate > clock /\ gate' = gate + 2 * Interval /\ slowed' = slowed + 1
        BY <1>7, <2>1, <2>8 DEF Polling!Early
      <3>2. e # 0
        BY <1>1, <1>2, <2>1, <3>1 DEF Lag
      <3>3. PICK c \in 0 .. 1 : c < e /\ Lag(c)'
        <4>1. CASE e = 1
          <5>1. clock >= gate - 1
            BY <1>1, <2>1, <4>1 DEF Lag
          <5>2. 2 * a >= gate - clock + 2 * Interval
            BY <1>2, <2>3, <2>8, <5>1
          <5>3. Lag(0)'
            BY <1>2, <2>1, <2>2, <2>5, <2>6, <3>1, <5>2 DEF Lag
          <5> QED
            BY <4>1, <5>3
        <4>2. CASE e = 2
          <5>1. Lag(1)'
            BY <1>2, <2>1, <2>2, <2>3, <2>5, <2>6, <2>8, <3>1 DEF Lag
          <5> QED
            BY <4>2, <5>1
        <4> QED
          BY <3>2, <4>1, <4>2
      <3>4. slowed' + c + 2 * stray' <= 2 * restarts'
        BY <1>1, <1>2, <2>1, <3>1, <3>3
      <3>5. stray # restarts
        BY <1>1, <1>2, <3>2
      <3>6. c \in 0 .. 2
        BY <3>3
      <3>7. PollType'
        BY <1>2, <2>1, <2>5, <3>1 DEF PollType
      <3> QED
        BY <1>3, <2>1, <2>5, <3>3, <3>4, <3>5, <3>6, <3>7 DEF PollInv
    <2> QED
      BY <2>7, <2>8
  <1>11. CASE Polling!ServeStray
    <2>1. /\ stray > 0 /\ stray' = stray - 1 /\ gate' = Polling!NextGate
          /\ UNCHANGED <<clock, pollingPoll, expires, slowed, restarts>>
      BY <1>11 DEF Polling!ServeStray
    <2>2. Lag(2)' /\ 2 \in 0 .. 2
      BY DEF Lag
    <2>3. slowed' + 2 + 2 * stray' <= 2 * restarts'
      BY <1>1, <1>2, <2>1
    <2>4. stray' # restarts' /\ stray' \in 0 .. restarts'
      BY <1>2, <2>1
    <2> QED
      BY <1>2, <1>3, <1>9, <2>1, <2>2, <2>3, <2>4 DEF PollInv, PollType
  <1>12. CASE Polling!Answered
    <2>1. /\ pollingPoll.at = "answered"
          /\ pollingPoll' = Polling!Asleep(clock, Longer)
          /\ UNCHANGED <<clock, gate, expires, stray, slowed, restarts>>
      BY <1>12 DEF Polling!Answered, Polling!Larger, Longer
    <2>2. /\ pollingPoll' \in P /\ pollingPoll'.at = "sleep" /\ pollingPoll'.delay = Longer
          /\ pollingPoll'.until >= clock + 2 * Longer \/ pollingPoll'.until >= expires
          /\ pollingPoll'.until \in Nat
      BY <1>2, <1>4, <2>1, AsleepLasts
    <2>3. Lag(e)'
      BY <1>1, <1>2, <1>4, <2>1, <2>2 DEF Lag
    <2>4. pollingPoll'.delay >= Interval
      BY <1>2, <1>3, <1>4, <2>1, <2>2
    <2> QED
      BY <1>1, <1>2, <1>3, <2>1, <2>2, <2>3, <2>4 DEF PollInv, PollType
  <1>13. CASE Polling!StopPolling
    <2>1. /\ pollingPoll' = [pollingPoll EXCEPT !.at = "off", !.answer = 0, !.until = 0]
          /\ restarts' = restarts + 1 /\ slowed' = 0
          /\ stray' = IF pollingPoll.at = "sent" THEN stray + 1 ELSE stray
          /\ UNCHANGED <<clock, gate, expires>>
      BY <1>13 DEF Polling!StopPolling
    <2>2. pollingPoll' \in P /\ pollingPoll'.at = "off"
      <3> DEFINE w == [pollingPoll EXCEPT !.at = "off"]
                 x == [w EXCEPT !.answer = 0]
      <3>1. w \in P /\ w.at = "off" /\ pollingPoll' = [x EXCEPT !.until = 0]
        BY <1>2, <2>1
      <3> HIDE DEF w
      <3>2. x \in P /\ x.at = "off"
        BY <3>1
      <3> HIDE DEF x
      <3> QED
        BY <3>1, <3>2
    <2>3. stray' \in 0 .. restarts' /\ stray' <= stray + 1
      BY <1>2, <2>1
    <2>4. PollType'
      BY <1>2, <2>1, <2>2, <2>3 DEF PollType
    <2>5. CASE stray' = restarts'
      <3>1. stray = restarts
        BY <1>2, <2>1, <2>5
      <3>2. Lag(0)'
        BY <1>2, <1>3, <2>1, <2>2, <3>1 DEF Lag
      <3>3. slowed' + 0 + 2 * stray' <= 2 * restarts'
        BY <1>2, <2>1, <2>3
      <3> QED
        BY <1>3, <2>1, <2>2, <2>4, <3>1, <3>2, <3>3 DEF PollInv
    <2>6. CASE stray' # restarts'
      <3>1. Lag(2)' /\ 2 \in 0 .. 2
        BY DEF Lag
      <3>2. slowed' + 2 + 2 * stray' <= 2 * restarts'
        BY <1>2, <2>1, <2>3, <2>6
      <3> QED
        BY <2>2, <2>4, <2>6, <3>1, <3>2 DEF PollInv
    <2> QED
      BY <2>5, <2>6
  <1>14. CASE Polling!ResumePolling
    <2>1. /\ pollingPoll.at = "off"
          /\ pollingPoll' = IF clock < expires THEN Polling!Asleep(clock, Interval)
                            ELSE [pollingPoll EXCEPT !.at = "over"]
          /\ UNCHANGED <<clock, gate, expires, stray, slowed, restarts>>
      BY <1>14 DEF Polling!ResumePolling
    <2>2. CASE clock < expires
      <3>1. /\ pollingPoll' \in P /\ pollingPoll'.at = "sleep" /\ pollingPoll'.delay = Interval
            /\ pollingPoll'.until >= clock + 2 * Interval \/ pollingPoll'.until >= expires
            /\ pollingPoll'.until \in Nat
        BY <1>2, <2>1, <2>2, AsleepLasts
      <3>2. Lag(e)'
        BY <1>1, <1>2, <2>1, <3>1 DEF Lag
      <3> QED
        BY <1>1, <1>2, <1>3, <2>1, <3>1, <3>2 DEF PollInv, PollType
    <2>3. CASE ~(clock < expires)
      <3>1. pollingPoll' \in P /\ pollingPoll'.at = "over"
        BY <1>2, <2>1, <2>3
      <3>2. Lag(e)'
        BY <1>1, <1>2, <2>1, <3>1 DEF Lag
      <3> QED
        BY <1>1, <1>2, <1>3, <2>1, <3>1, <3>2 DEF PollInv, PollType
    <2> QED
      BY <2>2, <2>3
  <1>15. CASE UNCHANGED pollVars
    <2>1. UNCHANGED <<clock, gate, pollingPoll, expires, stray, slowed, restarts>>
      BY <1>15 DEF pollVars
    <2>2. Lag(e)'
      BY <1>1, <2>1 DEF Lag, Longer
    <2> QED
      BY <1>1, <1>2, <1>3, <2>1, <2>2 DEF PollInv, PollType
  <1> QED
    BY <1>5, <1>6, <1>10, <1>11, <1>12, <1>13, <1>14, <1>15 DEF Polling!PollNext

LEMMA PollKept == PollInv => Polling!SoonServed
  <1> SUFFICES ASSUME PollInv PROVE slowed <= 2 * restarts
    BY DEF Polling!SoonServed
  <1>1. PICK e \in 0 .. 2 : slowed + e + 2 * stray <= 2 * restarts
    BY DEF PollInv
  <1>2. slowed \in Nat /\ restarts \in Nat /\ stray \in 0 .. restarts
    BY DEF PollInv, PollType
  <1> QED
    BY <1>1, <1>2

-----------------------------------------------------------------------------
\* Signing in.

SignFlow == [kind : {"authorize", "resume"}, at : SignIn!Steps, epoch : Nat,
             tx : Int, code : Nat]
SignEntry == [state : {"pending", "approved", "denied", "consumed"}, tx : Int, over : Nat]
SignDisk == [credential : Nat, marker : BOOLEAN,
             pending : [phase : {"none", "prepared", "started"}, tx : Int, code : Nat]]

SignType ==
    /\ running \in {"off", "starting", "up", "quitting"}
    /\ status \in SignIn!Statuses
    /\ epoch \in Nat /\ credential \in Nat
    /\ signInDisk \in SignDisk
    /\ flow = SignIn!Idle \/ flow \in SignFlow
    /\ discard \in {"none", "credential", "pending", "marker"}
    /\ signInServer \in Seq(SignEntry)
    /\ signInLeft \in [presses : Int, faults : Int, stops : Int]

Active == flow # SignIn!Idle
\* The session moved on under an authorization the user asked for.
Late == flow.kind = "authorize" /\ flow.epoch # epoch

\* What the authorization under way has on disk at each of its steps.
FlowKept ==
    Active =>
      /\ running # "off"
      /\ flow.epoch <= epoch
      /\ flow.kind = "resume" => running \in {"starting", "quitting"}
      /\ ~signInDisk.marker
      /\ flow.at \in {"prepare", "start"} => flow.code = 0
      /\ flow.at \notin {"prepare", "start"} => flow.code \in 1 .. Len(signInServer)
      /\ flow.at \in {"prepare", "start", "started", "keep"} => signInDisk.pending.code = 0
      /\ signInDisk.pending.code \in {0, flow.code}
      /\ flow.at # "remove" => signInDisk.credential = 0
      /\ signInDisk.credential \in {0, flow.code}
      /\ flow.code \notin withdrawn =>
           /\ flow.at \in {"open", "poll", "issued", "probe", "save"} =>
                signInDisk.pending.code = flow.code /\ signInDisk.pending.tx = flow.tx
           /\ flow.at = "remove" => signInDisk.credential = flow.code

\* A removal works on what was given up, and comes after what the late
\* authorization handed to the stores.
DiscardKept ==
    discard # "none" =>
      /\ running \in {"up", "quitting"}
      /\ {signInDisk.credential, signInDisk.pending.code} \ {0} \subseteq withdrawn
      /\ discard # "credential" => signInDisk.credential = 0
      /\ discard = "marker" => signInDisk.pending.code = 0 /\ signInDisk.pending.phase = "none"
      /\ Active =>
           /\ Late
           /\ flow.code \in withdrawn \/ flow.at \in {"prepare", "start", "started"}
           /\ discard # "credential" => flow.at # "save"
           /\ discard = "marker" => flow.at \notin {"prepare", "keep", "remove"}

\* Between sessions nothing is on disk, in a session nothing is pending, and a
\* session that waits to be revoked is the one that was given up.
SessionKept ==
    /\ running = "off" => discard = "none"
    /\ running # "off" /\ discard = "none" /\ status = "unauthenticated" =>
         /\ signInDisk.credential = 0 /\ ~signInDisk.marker
         /\ signInDisk.pending.phase = "none"
         /\ Active => Late /\ flow.at \notin {"prepare", "keep", "save", "remove"}
    /\ running # "off" /\ status = "authenticated" =>
         /\ ~Active
         /\ signInDisk.credential \in {0, credential}
         /\ signInDisk.pending.phase = "none"
    /\ signInDisk.marker =>
         /\ signInDisk.pending.phase = "none"
         /\ {signInDisk.credential} \ {0} \subseteq withdrawn
         /\ running # "off" => signInDisk.credential \in {0, credential}
    /\ signInDisk.pending.phase = "none" => signInDisk.pending = SignIn!Nothing
    /\ (signInDisk.pending.phase = "started") <=> (signInDisk.pending.code # 0)
    /\ signInDisk.pending.code <= Len(signInServer)
    /\ signInDisk.credential # 0 =>
         signInDisk.pending.code \in {0, signInDisk.credential}

SignInv == SignType /\ FlowKept /\ DiscardKept /\ SessionKept /\ SignIn!IssuedIsKept

\* The credentials handed out stay recoverable if nothing of what was not given
\* up disappears from the disk.
LEMMA IssuedStays ==
  ASSUME SignIn!IssuedIsKept,
         Len(signInServer') >= Len(signInServer),
         \A c \in 1 .. Len(signInServer') :
            signInServer'[c].state = "consumed" /\ signInServer'[c].over = 0 =>
               /\ c <= Len(signInServer) /\ signInServer[c].state = "consumed"
               /\ signInServer[c].over = 0 /\ signInServer[c].tx = signInServer'[c].tx,
         withdrawn \subseteq withdrawn',
         \A c \in 1 .. Len(signInServer) : c \notin withdrawn' =>
            /\ signInDisk.credential = c => signInDisk'.credential = c
            /\ signInDisk.pending.code = c =>
                 \/ signInDisk'.credential = c
                 \/ /\ signInDisk'.pending.code = c
                    /\ signInDisk'.pending.tx = signInDisk.pending.tx,
         Len(signInServer) \in Nat, Len(signInServer') \in Nat
  PROVE  SignIn!IssuedIsKept'
  <1> SUFFICES ASSUME NEW c \in 1 .. Len(signInServer'),
                      signInServer'[c].state = "consumed",
                      signInServer'[c].over = 0, c \notin withdrawn'
               PROVE  SignIn!Recoverable(c)'
    BY DEF SignIn!IssuedIsKept
  <1>1. c \in 1 .. Len(signInServer) /\ signInServer[c].tx = signInServer'[c].tx
    OBVIOUS
  <1>2. SignIn!Recoverable(c)
    BY <1>1 DEF SignIn!IssuedIsKept
  <1> QED
    BY <1>1, <1>2 DEF SignIn!Recoverable

LEMMA SignInit == SignIn!AuthorizationInit => SignInv
  <1> SUFFICES ASSUME SignIn!AuthorizationInit PROVE SignInv
    OBVIOUS
  <1>1. /\ running = "off" /\ status = "unauthenticated" /\ epoch = 0 /\ credential = 0
        /\ signInDisk = [credential |-> 0, pending |-> SignIn!Nothing, marker |-> FALSE]
        /\ flow = SignIn!Idle /\ discard = "none" /\ signInServer = <<>> /\ withdrawn = {}
        /\ signInLeft = [presses |-> MaxPresses, faults |-> MaxLostAnswers, stops |-> MaxStops]
    BY DEF SignIn!AuthorizationInit, SignIn!None
  <1>2. SignType
    BY <1>1, SignInAssumption DEF SignType, SignDisk, SignIn!Nothing, SignIn!Statuses
  <1>3. FlowKept /\ DiscardKept
    BY <1>1 DEF FlowKept, DiscardKept, Active
  <1>4. SessionKept
    BY <1>1 DEF SessionKept, SignIn!Nothing
  <1>5. SignIn!IssuedIsKept
    BY <1>1 DEF SignIn!IssuedIsKept
  <1> QED
    BY <1>2, <1>3, <1>4, <1>5 DEF SignInv

\* What a state of the invariant consists of.
LEMMA SignShape ==
  ASSUME SignType
  PROVE  /\ signInDisk.credential \in Nat /\ signInDisk.marker \in BOOLEAN
         /\ signInDisk.pending \in [phase : {"none", "prepared", "started"}, tx : Int, code : Nat]
         /\ signInDisk.pending.code \in Nat /\ signInDisk.pending.tx \in Int
         /\ signInDisk.pending.phase \in {"none", "prepared", "started"}
         /\ Active => /\ flow \in SignFlow
                      /\ flow.kind \in {"authorize", "resume"} /\ flow.at \in SignIn!Steps
                      /\ flow.epoch \in Nat /\ flow.tx \in Int /\ flow.code \in Nat
         /\ Len(signInServer) \in Nat
         /\ \A c \in 1 .. Len(signInServer) : signInServer[c] \in SignEntry
         /\ \A c \in 1 .. Len(signInServer) :
              /\ signInServer[c].tx \in Int /\ signInServer[c].over \in Nat
              /\ signInServer[c].state \in {"pending", "approved", "denied", "consumed"}
  <1>1. signInDisk \in SignDisk /\ (flow = SignIn!Idle \/ flow \in SignFlow) /\ signInServer \in Seq(SignEntry)
    BY DEF SignType
  <1>2. /\ signInDisk.credential \in Nat /\ signInDisk.marker \in BOOLEAN
        /\ signInDisk.pending \in [phase : {"none", "prepared", "started"}, tx : Int, code : Nat]
    BY <1>1 DEF SignDisk
  <1>3. /\ signInDisk.pending.code \in Nat /\ signInDisk.pending.tx \in Int
        /\ signInDisk.pending.phase \in {"none", "prepared", "started"}
    BY <1>2
  <1>4. Active => /\ flow \in SignFlow
                  /\ flow.kind \in {"authorize", "resume"} /\ flow.at \in SignIn!Steps
                  /\ flow.epoch \in Nat /\ flow.tx \in Int /\ flow.code \in Nat
    BY <1>1 DEF Active, SignFlow
  <1>5. Len(signInServer) \in Nat /\ \A c \in 1 .. Len(signInServer) : signInServer[c] \in SignEntry
    BY <1>1
  <1>6. \A c \in 1 .. Len(signInServer) :
              /\ signInServer[c].tx \in Int /\ signInServer[c].over \in Nat
              /\ signInServer[c].state \in {"pending", "approved", "denied", "consumed"}
    BY <1>5 DEF SignEntry
  <1> QED
    BY <1>2, <1>3, <1>4, <1>5, <1>6

LEMMA IdleShape ==
  /\ SignIn!Idle.at = "none" /\ SignIn!Idle.kind = "none" /\ SignIn!Idle.code = 0
  /\ SignIn!Nothing.phase = "none" /\ SignIn!Nothing.code = 0 /\ SignIn!Nothing.tx = 0
  /\ SignIn!Nothing \in [phase : {"none", "prepared", "started"}, tx : Int, code : Nat]
  BY DEF SignIn!Idle, SignIn!Nothing

LEMMA SignVerdictKeeps ==
  ASSUME SignInv, SignIn!Verdict PROVE SignInv'
  <1>1. /\ running = "up" /\ discard = "none" /\ epoch' = epoch + 1 /\ discard' = "credential"
        /\ withdrawn' = withdrawn \cup SignIn!Held
        /\ UNCHANGED <<running, status, credential, signInDisk, flow, signInServer>>
        /\ signInLeft' = [signInLeft EXCEPT !.faults = @ - 1]
    BY DEF SignIn!Verdict, SignIn!Fault
  <1>2. SignType /\ FlowKept /\ DiscardKept /\ SessionKept /\ SignIn!IssuedIsKept
    BY DEF SignInv
  <1>3. SignType'
    BY <1>1, <1>2 DEF SignType
  <1>4. {credential, signInDisk.credential, signInDisk.pending.code, flow.code} \ {0} \subseteq withdrawn'
    BY <1>1 DEF SignIn!Held
  <1>5. FlowKept'
    BY <1>1, <1>2, SignShape DEF FlowKept, Active, SignType
  <1>6. DiscardKept'
    <2>1. Active => /\ flow.kind = "authorize" /\ flow.epoch # epoch'
                    /\ flow.at \notin {"prepare", "start"} => flow.code \in Nat \ {0}
      BY <1>1, <1>2, SignShape DEF FlowKept, SignType
    <2> QED
      BY <1>1, <1>4, <2>1 DEF DiscardKept, Active, Late
  <1>7. SessionKept'
    BY <1>1, <1>2 DEF SessionKept, Active
  <1>8. SignIn!IssuedIsKept'
    BY <1>1, <1>2, IssuedStays, SignShape
  <1> QED
    BY <1>3, <1>5, <1>6, <1>7, <1>8 DEF SignInv

LEMMA SignServerKeeps ==
  ASSUME SignInv,
         \/ \E c \in 1 .. Len(signInServer), v \in {"approved", "denied"} : SignIn!Decide(c, v)
         \/ SignIn!Expires
  PROVE  SignInv'
  <1>1. PICK c \in 1 .. Len(signInServer) : SignIn!Lapse(c) \/ SignIn!Decide(c, "approved")
                                            \/ SignIn!Decide(c, "denied")
    BY DEF SignIn!Expires
  <1>2. /\ UNCHANGED <<running, status, epoch, credential, signInDisk, flow, discard,
                       withdrawn, signInLeft>>
        /\ \/ signInServer' = [signInServer EXCEPT ![c].over = @ + 1]
           \/ /\ signInServer[c].state = "pending"
              /\ \E v \in {"approved", "denied"} :
                    signInServer' = [signInServer EXCEPT ![c].state = v]
    BY <1>1 DEF SignIn!Lapse, SignIn!Decide
  <1>3. SignType /\ FlowKept /\ DiscardKept /\ SessionKept /\ SignIn!IssuedIsKept
    BY DEF SignInv
  <1>4. PICK e \in SignEntry :
           /\ signInServer' = [signInServer EXCEPT ![c] = e]
           /\ e.state = "consumed" /\ e.over = 0 => FALSE
    <2>1. signInServer[c] \in SignEntry
      BY <1>3, SignShape
    <2>2. CASE signInServer' = [signInServer EXCEPT ![c].over = @ + 1]
      <3> DEFINE e == [signInServer[c] EXCEPT !.over = @ + 1]
      <3>1. e \in SignEntry /\ e.over = signInServer[c].over + 1 /\ signInServer[c].over \in Nat
        BY <2>1 DEF SignEntry
      <3>2. signInServer' = [signInServer EXCEPT ![c] = e]
        BY <2>2
      <3>3. e.over # 0
        BY <3>1
      <3> HIDE DEF e
      <3> QED
        BY <3>1, <3>2, <3>3
    <2>3. CASE \E v \in {"approved", "denied"} : signInServer' = [signInServer EXCEPT ![c].state = v]
      <3>1. PICK v \in {"approved", "denied"} : signInServer' = [signInServer EXCEPT ![c].state = v]
        BY <2>3
      <3> DEFINE e == [signInServer[c] EXCEPT !.state = v]
      <3>2. e \in SignEntry /\ e.state = v
        BY <2>1 DEF SignEntry
      <3>3. signInServer' = [signInServer EXCEPT ![c] = e]
        BY <3>1
      <3> QED
        BY <3>2, <3>3
    <2> QED
      BY <1>2, <2>2, <2>3
  <1>5. /\ signInServer' \in Seq(SignEntry) /\ Len(signInServer') = Len(signInServer)
        /\ \A d \in 1 .. Len(signInServer) : d # c => signInServer'[d] = signInServer[d]
        /\ signInServer'[c] = e
    BY <1>3, <1>4 DEF SignType
  <1>6. SignType'
    BY <1>2, <1>3, <1>5 DEF SignType
  <1>7. FlowKept' /\ DiscardKept' /\ SessionKept'
    BY <1>2, <1>3, <1>5 DEF FlowKept, DiscardKept, SessionKept, Active, Late
  <1>8. SignIn!IssuedIsKept'
    BY <1>2, <1>3, <1>4, <1>5, IssuedStays, SignShape
  <1> QED
    BY <1>6, <1>7, <1>8 DEF SignInv

LEMMA SignStopKeeps ==
  ASSUME SignInv, SignIn!Quit \/ SignIn!Stop PROVE SignInv'
  <1>1. SignType /\ FlowKept /\ DiscardKept /\ SessionKept /\ SignIn!IssuedIsKept
    BY DEF SignInv
  <1>2. CASE SignIn!Quit
    <2>1. /\ running \in {"up", "starting"} /\ running' = "quitting" /\ epoch' = epoch + 1
          /\ status' = "locked"
          /\ UNCHANGED <<credential, signInDisk, flow, discard, signInServer, withdrawn, signInLeft>>
      BY <1>2 DEF SignIn!Quit
    <2>2. SignType'
      BY <1>1, <2>1 DEF SignType, SignIn!Statuses
    <2>3. FlowKept'
      BY <1>1, <2>1, SignShape DEF FlowKept, Active, SignType
    <2>4. DiscardKept'
      <3>1. Active => flow.epoch < epoch'
        BY <1>1, <2>1, SignShape DEF FlowKept, SignType
      <3>2. Active => flow.epoch # epoch'
        BY <3>1, <1>1, <2>1, SignShape DEF SignType
      <3> QED
        BY <1>1, <2>1, <3>2 DEF DiscardKept, Active, Late
    <2>5. SessionKept'
      BY <1>1, <2>1 DEF SessionKept
    <2>6. SignIn!IssuedIsKept'
      BY <1>1, <2>1, IssuedStays, SignShape
    <2> QED
      BY <2>2, <2>3, <2>4, <2>5, <2>6 DEF SignInv
  <1>3. CASE SignIn!Stop
    <2>1. /\ running' = "off" /\ status' = "unauthenticated" /\ credential' = 0 /\ epoch' = 0
          /\ flow' = SignIn!Idle /\ discard' = "none"
          /\ UNCHANGED <<signInDisk, signInServer, withdrawn>>
          /\ signInLeft' = [signInLeft EXCEPT !.stops = @ - 1]
      BY <1>3 DEF SignIn!Stop, SignIn!None
    <2>2. SignType'
      BY <1>1, <2>1 DEF SignType, SignIn!Statuses
    <2>3. FlowKept' /\ DiscardKept'
      BY <2>1 DEF FlowKept, DiscardKept, Active
    <2>4. SessionKept'
      BY <1>1, <2>1 DEF SessionKept
    <2>5. SignIn!IssuedIsKept'
      BY <1>1, <2>1, IssuedStays, SignShape
    <2> QED
      BY <2>2, <2>3, <2>4, <2>5 DEF SignInv
  <1> QED
    BY <1>2, <1>3

\* Neither the session nor the authorization under way, but the status.
LEMMA SignEndKeeps ==
  ASSUME SignInv, SignIn!SessionEnds \/ SignIn!DiscardFails PROVE SignInv'
  <1>1. /\ status' \in {"revoked", "locked"}
        /\ discard' = "none"
        /\ UNCHANGED <<running, epoch, credential, signInDisk, flow, signInServer, withdrawn>>
        /\ signInLeft' = [signInLeft EXCEPT !.faults = @ - 1]
        /\ running # "off"
    BY DEF SignIn!SessionEnds, SignIn!DiscardFails, SignIn!Fault, SignIn!Usable, SignIn!Alive
  <1>2. SignType /\ FlowKept /\ DiscardKept /\ SessionKept /\ SignIn!IssuedIsKept
    BY DEF SignInv
  <1>3. SignType'
    BY <1>1, <1>2 DEF SignType, SignIn!Statuses
  <1>4. FlowKept'
    BY <1>1, <1>2 DEF FlowKept, Active
  <1>5. DiscardKept'
    BY <1>1 DEF DiscardKept
  <1>6. SessionKept'
    BY <1>1, <1>2 DEF SessionKept
  <1>7. SignIn!IssuedIsKept'
    BY <1>1, <1>2, IssuedStays, SignShape
  <1> QED
    BY <1>3, <1>4, <1>5, <1>6, <1>7 DEF SignInv

LEMMA SignAuthorizeKeeps ==
  ASSUME SignInv, SignIn!Authorize PROVE SignInv'
  <1>1. /\ running = "up" /\ flow = SignIn!Idle /\ discard = "none"
        /\ UNCHANGED <<running, signInDisk, discard, signInServer, withdrawn>>
        /\ signInLeft' = [signInLeft EXCEPT !.presses = @ - 1]
        /\ \/ /\ status = "unauthenticated" /\ epoch' = epoch + 1 /\ credential' = 0
              /\ status' = "authorizing"
              /\ flow' = [kind |-> "authorize", at |-> "prepare", code |-> 0,
                          epoch |-> epoch + 1, tx |-> MaxPresses - signInLeft.presses + 1]
           \/ UNCHANGED <<epoch, credential, status, flow>>
    BY DEF SignIn!Authorize, SignIn!Usable, SignIn!None
  <1>2. SignType /\ FlowKept /\ DiscardKept /\ SessionKept /\ SignIn!IssuedIsKept
    BY DEF SignInv
  <1>3. signInLeft' \in [presses : Int, faults : Int, stops : Int] /\ signInLeft.presses \in Int
    BY <1>1, <1>2 DEF SignType
  <1>4. SignIn!IssuedIsKept'
    BY <1>1, <1>2, IssuedStays, SignShape
  <1>5. DiscardKept'
    BY <1>1 DEF DiscardKept
  <1>6. CASE UNCHANGED <<epoch, credential, status, flow>>
    <2>1. SignType' /\ FlowKept' /\ SessionKept'
      BY <1>1, <1>2, <1>3, <1>6 DEF SignType, FlowKept, SessionKept, Active
    <2> QED
      BY <1>4, <1>5, <2>1 DEF SignInv
  <1>7. CASE /\ status = "unauthenticated" /\ epoch' = epoch + 1 /\ credential' = 0
             /\ status' = "authorizing"
             /\ flow' = [kind |-> "authorize", at |-> "prepare", code |-> 0,
                         epoch |-> epoch + 1, tx |-> MaxPresses - signInLeft.presses + 1]
    <2>1. /\ flow' \in SignFlow /\ flow'.kind = "authorize" /\ flow'.at = "prepare"
          /\ flow'.code = 0 /\ flow'.epoch = epoch' /\ epoch' \in Nat
      BY <1>2, <1>3, <1>7, SignInAssumption DEF SignType, SignFlow, SignIn!Steps
    <2>2. SignType'
      BY <1>1, <1>2, <1>3, <1>7, <2>1 DEF SignType, SignIn!Statuses
    <2>3. /\ signInDisk.credential = 0 /\ ~signInDisk.marker /\ signInDisk.pending.code = 0
          /\ signInDisk.pending.phase = "none"
      BY <1>1, <1>2, <1>7, IdleShape DEF SessionKept
    <2>4. FlowKept'
      BY <1>1, <2>1, <2>3 DEF FlowKept
    <2>5. SessionKept'
      BY <1>1, <1>2, <1>7, <2>3 DEF SessionKept
    <2> QED
      BY <1>4, <1>5, <2>2, <2>4, <2>5 DEF SignInv
  <1> QED
    BY <1>1, <1>6, <1>7

LEMMA SignRetryKeeps ==
  ASSUME SignInv, SignIn!Retry PROVE SignInv'
  <1>1. /\ running = "up" /\ flow = SignIn!Idle /\ discard = "none" /\ signInDisk.marker
        /\ signInDisk' = [signInDisk EXCEPT !.marker = FALSE, !.credential =
                             IF credential = 0 THEN @ ELSE 0]
        /\ credential' = 0 /\ status' = "unauthenticated"
        /\ UNCHANGED <<running, epoch, flow, discard, signInServer, withdrawn, signInLeft>>
    BY DEF SignIn!Retry, SignIn!Usable, SignIn!None
  <1>2. SignType /\ FlowKept /\ DiscardKept /\ SessionKept /\ SignIn!IssuedIsKept
    BY DEF SignInv
  <1>3. /\ signInDisk.credential \in {0, credential} /\ signInDisk.pending.phase = "none"
        /\ signInDisk.pending = SignIn!Nothing
        /\ {signInDisk.credential} \ {0} \subseteq withdrawn
    BY <1>1, <1>2 DEF SessionKept
  <1> DEFINE n == IF credential = 0 THEN signInDisk.credential ELSE 0
  <1>4. n = 0
    BY <1>3
  <1>5. signInDisk' = [signInDisk EXCEPT !.marker = FALSE, !.credential = n]
    BY <1>1
  <1> HIDE DEF n
  <1>6. /\ signInDisk' \in SignDisk /\ signInDisk'.marker = FALSE /\ signInDisk'.credential = 0
        /\ signInDisk'.pending = SignIn!Nothing
    BY <1>2, <1>3, <1>4, <1>5 DEF SignType, SignDisk
  <1>7. SignType'
    BY <1>1, <1>2, <1>6 DEF SignType, SignIn!Statuses
  <1>8. FlowKept' /\ DiscardKept'
    BY <1>1 DEF FlowKept, DiscardKept, Active
  <1>9. SessionKept'
    BY <1>1, <1>2, <1>6, IdleShape, SignShape DEF SessionKept, Active
  <1>10. SignIn!IssuedIsKept'
    BY <1>1, <1>2, <1>3, <1>6, IssuedStays, SignShape, IdleShape
  <1> QED
    BY <1>7, <1>8, <1>9, <1>10 DEF SignInv

LEMMA SignLogoutKeeps ==
  ASSUME SignInv, SignIn!Logout PROVE SignInv'
  <1>1. /\ running = "up" /\ flow = SignIn!Idle /\ discard = "none" /\ status = "authenticated"
        /\ epoch' = epoch + 1
        /\ \/ /\ signInDisk' = [credential |-> 0, pending |-> SignIn!Nothing, marker |-> FALSE]
              /\ credential' = 0 /\ status' = "unauthenticated" /\ UNCHANGED signInLeft
           \/ /\ signInLeft' = [signInLeft EXCEPT !.faults = @ - 1]
              /\ signInDisk' = [signInDisk EXCEPT !.pending = SignIn!Nothing, !.marker = TRUE]
              /\ status' = "locked" /\ UNCHANGED credential
        /\ withdrawn' = withdrawn \cup {credential}
        /\ UNCHANGED <<running, flow, discard, signInServer>>
    <2>1. status = "authenticated"
      BY DEF SignIn!Logout, SignIn!Usable, SignIn!Offered, SignIn!Public
    <2> QED
      BY <2>1 DEF SignIn!Logout, SignIn!Usable, SignIn!None, SignIn!Fault
  <1>2. SignType /\ FlowKept /\ DiscardKept /\ SessionKept /\ SignIn!IssuedIsKept
    BY DEF SignInv
  <1>3. /\ signInDisk.credential \in {0, credential} /\ signInDisk.pending = SignIn!Nothing
    BY <1>1, <1>2 DEF SessionKept
  <1>4. /\ signInDisk' \in SignDisk /\ signInDisk'.pending = SignIn!Nothing
        /\ \/ /\ signInDisk'.credential = 0 /\ ~signInDisk'.marker
              /\ credential' = 0 /\ status' = "unauthenticated"
           \/ /\ signInDisk'.credential = signInDisk.credential /\ signInDisk'.marker
              /\ credential' = credential /\ status' = "locked"
    <2>1. CASE signInDisk' = [credential |-> 0, pending |-> SignIn!Nothing, marker |-> FALSE]
               /\ credential' = 0 /\ status' = "unauthenticated"
      BY <2>1, IdleShape DEF SignDisk
    <2>2. CASE signInDisk' = [signInDisk EXCEPT !.pending = SignIn!Nothing, !.marker = TRUE]
               /\ status' = "locked" /\ UNCHANGED credential
      BY <1>2, <2>2, IdleShape DEF SignType, SignDisk
    <2> QED
      BY <1>1, <2>1, <2>2
  <1>5. SignType'
    BY <1>1, <1>2, <1>4 DEF SignType, SignIn!Statuses
  <1>6. FlowKept' /\ DiscardKept'
    BY <1>1 DEF FlowKept, DiscardKept, Active
  <1>7. SessionKept'
    BY <1>1, <1>3, <1>2, <1>4, IdleShape, SignShape DEF SessionKept, Active
  <1>8. SignIn!IssuedIsKept'
    BY <1>1, <1>2, <1>3, <1>4, IssuedStays, SignShape, IdleShape
  <1> QED
    BY <1>5, <1>6, <1>7, <1>8 DEF SignInv

LEMMA SignDiscardsKeep ==
  ASSUME SignInv, SignIn!Discards PROVE SignInv'
  <1>1. SignType /\ FlowKept /\ DiscardKept /\ SessionKept /\ SignIn!IssuedIsKept
    BY DEF SignInv
  <1>2. /\ running # "off" /\ discard # "none"
        /\ UNCHANGED <<running, epoch, flow, signInServer, withdrawn, signInLeft>>
        /\ {signInDisk.credential, signInDisk.pending.code} \ {0} \subseteq withdrawn
    BY <1>1 DEF SignIn!Discards, SignIn!Discarded, SignIn!Alive, DiscardKept
  <1>3. CASE /\ discard = "credential" /\ discard' = "pending" /\ flow.at # "save"
             /\ credential' = credential /\ status' = status
             /\ signInDisk' = [signInDisk EXCEPT !.credential = 0]
    <2>1. /\ signInDisk' \in SignDisk /\ signInDisk'.credential = 0
          /\ signInDisk'.marker = signInDisk.marker /\ signInDisk'.pending = signInDisk.pending
      BY <1>1, <1>3 DEF SignType, SignDisk
    <2>2. SignType'
      BY <1>1, <1>2, <1>3, <2>1 DEF SignType
    <2>3. FlowKept'
      BY <1>1, <1>2, <1>3, <2>1, SignShape DEF FlowKept, DiscardKept, Active
    <2>4. DiscardKept'
      BY <1>1, <1>2, <1>3, <2>1, SignShape DEF DiscardKept, Active, Late
    <2>5. SessionKept'
      BY <1>1, <1>2, <1>3, <2>1, SignShape DEF SessionKept, Active
    <2>6. SignIn!IssuedIsKept'
      BY <1>1, <1>2, <2>1, IssuedStays, SignShape
    <2> QED
      BY <2>2, <2>3, <2>4, <2>5, <2>6 DEF SignInv
  <1>4. CASE /\ discard = "pending" /\ discard' = "marker"
             /\ flow.at \notin {"prepare", "keep", "remove"}
             /\ credential' = 0 /\ status' = status
             /\ signInDisk' = [signInDisk EXCEPT !.pending = SignIn!Nothing]
    <2>1. /\ signInDisk' \in SignDisk /\ signInDisk'.pending = SignIn!Nothing
          /\ signInDisk'.marker = signInDisk.marker
          /\ signInDisk'.credential = signInDisk.credential /\ signInDisk.credential = 0
      BY <1>1, <1>4, IdleShape DEF SignType, SignDisk, DiscardKept
    <2>2. SignType'
      BY <1>1, <1>2, <1>4, <2>1 DEF SignType
    <2>3. FlowKept'
      BY <1>1, <1>2, <1>4, <2>1, SignShape, IdleShape DEF FlowKept, DiscardKept, Active
    <2>4. DiscardKept'
      BY <1>1, <1>2, <1>4, <2>1, SignShape, IdleShape DEF DiscardKept, Active, Late
    <2>5. SessionKept'
      BY <1>1, <1>2, <1>4, <2>1, SignShape, IdleShape DEF SessionKept, Active
    <2>6. SignIn!IssuedIsKept'
      BY <1>1, <1>2, <2>1, IssuedStays, SignShape
    <2> QED
      BY <2>2, <2>3, <2>4, <2>5, <2>6 DEF SignInv
  <1>5. CASE /\ discard = "marker" /\ discard' = "none"
             /\ credential' = credential /\ status' = "unauthenticated"
             /\ signInDisk' = [signInDisk EXCEPT !.marker = FALSE]
    <2>1. /\ signInDisk' \in SignDisk /\ ~signInDisk'.marker
          /\ signInDisk'.pending = signInDisk.pending
          /\ signInDisk'.credential = signInDisk.credential /\ signInDisk.credential = 0
          /\ signInDisk.pending.phase = "none"
      BY <1>1, <1>5, IdleShape DEF SignType, SignDisk, DiscardKept
    <2>2. SignType'
      BY <1>1, <1>2, <1>5, <2>1 DEF SignType, SignIn!Statuses
    <2>3. FlowKept'
      BY <1>1, <1>2, <1>5, <2>1, SignShape, IdleShape DEF FlowKept, Active
    <2>4. DiscardKept'
      BY <1>5 DEF DiscardKept
    <2>5. Active => Late /\ flow.at \notin {"prepare", "keep", "save", "remove"}
      BY <1>1, <1>5 DEF DiscardKept
    <2>6. SessionKept'
      BY <1>1, <1>2, <1>5, <2>1, <2>5, SignShape, IdleShape DEF SessionKept, Active, Late
    <2>7. SignIn!IssuedIsKept'
      BY <1>1, <1>2, <2>1, IssuedStays, SignShape
    <2> QED
      BY <2>2, <2>3, <2>4, <2>6, <2>7 DEF SignInv
  <1> QED
    BY <1>3, <1>4, <1>5 DEF SignIn!Discards, SignIn!Discarded, SignIn!Behind, SignIn!None

LEMMA SignInitializeKeeps ==
  ASSUME SignInv, SignIn!Initialize PROVE SignInv'
  <1>1. SignType /\ FlowKept /\ DiscardKept /\ SessionKept /\ SignIn!IssuedIsKept
    BY DEF SignInv
  <1>2. /\ running = "off" /\ epoch' = epoch + 1 /\ running' # "off"
        /\ UNCHANGED <<discard, signInServer, withdrawn>>
    BY DEF SignIn!Initialize
  <1>3. flow = SignIn!Idle /\ discard = "none"
    BY <1>1, <1>2 DEF FlowKept, Active, SessionKept
  <1>4. DiscardKept'
    BY <1>2, <1>3 DEF DiscardKept
  <1>5. CASE signInDisk.credential # 0
    <2>1. /\ credential' = signInDisk.credential /\ running' = "up" /\ UNCHANGED flow
          /\ \/ /\ signInDisk' = [signInDisk EXCEPT !.pending = SignIn!Nothing]
                /\ status' = IF signInDisk.marker THEN "locked" ELSE "authenticated"
                /\ UNCHANGED signInLeft
             \/ /\ signInLeft' = [signInLeft EXCEPT !.faults = @ - 1]
                /\ status' = "locked" /\ UNCHANGED signInDisk
      BY <1>5 DEF SignIn!Initialize, SignIn!None, SignIn!Fault
    <2>2. /\ signInDisk' \in SignDisk /\ signInDisk'.credential = signInDisk.credential
          /\ signInDisk'.marker = signInDisk.marker
          /\ \/ signInDisk'.pending = SignIn!Nothing
             \/ status' = "locked" /\ signInDisk' = signInDisk
      BY <1>1, <2>1, IdleShape DEF SignType, SignDisk
    <2>3. status' \in {"locked", "authenticated"}
      BY <2>1
    <2>4. SignType'
      BY <1>1, <1>2, <2>1, <2>2, <2>3, SignShape DEF SignType, SignIn!Statuses
    <2>5. FlowKept'
      BY <1>3, <2>1 DEF FlowKept, Active
    <2>6. SessionKept'
      BY <1>1, <1>2, <1>3, <1>5, <2>1, <2>2, <2>3, SignShape, IdleShape DEF SessionKept, Active
    <2>7. SignIn!IssuedIsKept'
      <3>1. signInDisk.pending.code \in {0, signInDisk.credential}
        BY <1>1, <1>5 DEF SessionKept
      <3> QED
        BY <1>1, <1>2, <2>2, <3>1, IssuedStays, SignShape
    <2> QED
      BY <1>4, <2>4, <2>5, <2>6, <2>7 DEF SignInv
  <1>6. CASE signInDisk.credential = 0
    <2>1. credential' = 0 /\ UNCHANGED <<signInDisk, signInLeft>>
      BY <1>6 DEF SignIn!Initialize, SignIn!None
    <2>2. SignIn!IssuedIsKept'
      BY <1>1, <1>2, <2>1, IssuedStays, SignShape
    <2>3. CASE signInDisk.marker \/ signInDisk.pending = SignIn!Nothing
      <3>1. /\ UNCHANGED flow /\ running' = "up"
            /\ \/ signInDisk.marker /\ status' = "locked"
               \/ ~signInDisk.marker /\ signInDisk.pending = SignIn!Nothing /\ status' = "unauthenticated"
        BY <1>6, <2>3 DEF SignIn!Initialize, SignIn!None
      <3>2. SignType'
        BY <1>1, <1>2, <2>1, <3>1 DEF SignType, SignIn!Statuses
      <3>3. FlowKept'
        BY <1>3, <3>1 DEF FlowKept, Active
      <3>4. SessionKept'
        BY <1>1, <1>2, <1>3, <1>6, <2>1, <3>1, SignShape, IdleShape DEF SessionKept, Active
      <3> QED
        BY <1>4, <2>2, <3>2, <3>3, <3>4 DEF SignInv
    <2>4. CASE ~signInDisk.marker /\ signInDisk.pending # SignIn!Nothing
      <3>1. /\ status' = "authorizing" /\ running' = "starting"
            /\ flow' = [kind |-> "resume", epoch |-> epoch + 1,
                        at |-> IF signInDisk.pending.phase = "prepared" THEN "start" ELSE "poll",
                        tx |-> signInDisk.pending.tx, code |-> signInDisk.pending.code]
        BY <1>6, <2>4 DEF SignIn!Initialize, SignIn!None
      <3>2. signInDisk.pending.phase # "none"
        BY <1>1, <2>4 DEF SessionKept
      <3>3. \/ signInDisk.pending.phase = "prepared" /\ signInDisk.pending.code = 0
               /\ flow'.at = "start"
            \/ signInDisk.pending.phase = "started" /\ signInDisk.pending.code # 0
               /\ flow'.at = "poll"
        BY <1>1, <3>1, <3>2, SignShape DEF SessionKept
      <3>4. /\ flow'.kind = "resume" /\ flow'.epoch = epoch' /\ flow'.tx = signInDisk.pending.tx
            /\ flow'.code = signInDisk.pending.code /\ epoch' \in Nat
        BY <1>1, <1>2, <3>1 DEF SignType
      <3>5. flow' \in SignFlow
        BY <1>1, <1>2, <3>1, SignShape DEF SignFlow, SignIn!Steps, SignType
      <3>6. SignType'
        BY <1>1, <1>2, <2>1, <3>1, <3>4, <3>5 DEF SignType, SignIn!Statuses
      <3>7. signInDisk.pending.code <= Len(signInServer) /\ signInDisk.pending.code \in Nat
            /\ Len(signInServer) \in Nat
        BY <1>1, SignShape DEF SessionKept
      <3>8. FlowKept'
        BY <1>2, <1>6, <2>1, <2>4, <3>1, <3>3, <3>4, <3>7 DEF FlowKept
      <3>9. SessionKept'
        BY <1>1, <1>2, <1>3, <1>6, <2>1, <2>4, <3>1, SignShape DEF SessionKept
      <3> QED
        BY <1>4, <2>2, <3>6, <3>8, <3>9 DEF SignInv
    <2> QED
      BY <2>3, <2>4
  <1> QED
    BY <1>5, <1>6

\* The authorization under way goes on: its next step is a.
LEMMA FlowGoes ==
  ASSUME SignType, Active, NEW a \in SignIn!Steps, flow' = [flow EXCEPT !.at = a]
  PROVE  /\ flow' \in SignFlow /\ Active' /\ flow'.at = a /\ flow'.kind = flow.kind
         /\ flow'.epoch = flow.epoch /\ flow'.tx = flow.tx /\ flow'.code = flow.code
  <1>1. flow \in SignFlow
    BY SignShape
  <1>2. /\ flow' \in SignFlow /\ flow'.at = a /\ flow'.kind = flow.kind
        /\ flow'.epoch = flow.epoch /\ flow'.tx = flow.tx /\ flow'.code = flow.code
    BY <1>1 DEF SignFlow
  <1>3. flow'.kind # "none"
    BY <1>2 DEF SignFlow
  <1> QED
    BY <1>2, <1>3, IdleShape DEF Active

\* It ends: late, without a word, or with an error.
FlowEnds ==
    /\ flow' = SignIn!Idle /\ running' = SignIn!Up
    /\ \/ status' \in {"locked", "error", "revoked"}
       \/ status' = status /\ Late
    /\ UNCHANGED <<credential, signInServer>>

LeftKept == signInLeft' = signInLeft \/ signInLeft' = [signInLeft EXCEPT !.faults = @ - 1]

LEMMA FailsEnds ==
  ASSUME SignType, Active, NEW late \in BOOLEAN, NEW code, SignIn!Fails(late, code),
         late => flow.kind = "resume" \/ flow.epoch # epoch
  PROVE  /\ flow' = SignIn!Idle /\ running' = SignIn!Up
         /\ \/ status' \in {"locked", "error", "revoked"}
            \/ status' = status /\ Late
  BY SignShape DEF SignIn!Fails, Late

LEMMA UpShape ==
  ASSUME running \in {"off", "starting", "up", "quitting"}, running # "off", running' = SignIn!Up
  PROVE  /\ running' \in {"up", "quitting"}
         /\ running \in {"up", "quitting"} => running' = running
  BY DEF SignIn!Up

LEMMA SignEndsKeeps ==
  ASSUME SignInv, running # "off", Active, FlowEnds, LeftKept,
         UNCHANGED <<epoch, discard, withdrawn, signInDisk>>
  PROVE  SignInv'
  <1>1. SignType /\ FlowKept /\ DiscardKept /\ SessionKept /\ SignIn!IssuedIsKept
    BY DEF SignInv
  <1>2. running' \in {"up", "quitting"} /\ (running \in {"up", "quitting"} => running' = running)
    BY <1>1, UpShape DEF FlowEnds, SignType
  <1>3. SignType'
    BY <1>1, <1>2 DEF SignType, FlowEnds, LeftKept, SignIn!Statuses
  <1>4. FlowKept'
    BY DEF FlowKept, FlowEnds, Active
  <1>5. DiscardKept'
    BY <1>1, <1>2 DEF DiscardKept, FlowEnds, Active
  <1>6. SessionKept'
    BY <1>1, <1>2 DEF SessionKept, FlowEnds, Active
  <1>7. SignIn!IssuedIsKept'
    BY <1>1, IssuedStays, SignShape DEF FlowEnds
  <1> QED
    BY <1>3, <1>4, <1>5, <1>6, <1>7 DEF SignInv

\* The steps that neither write nor ask the server: the next one is a.
LEMMA SignGoesKeeps ==
  ASSUME SignInv, running # "off", Active, LeftKept,
         UNCHANGED <<epoch, discard, withdrawn, signInDisk, running, status, credential,
                     signInServer>>,
         NEW a \in SignIn!Steps, flow' = [flow EXCEPT !.at = a],
         \/ flow.at = "started" /\ a = "keep" /\ ~Late
         \/ flow.at = "open" /\ a = "poll"
         \/ flow.at = "issued" /\ a = "probe" /\ ~Late
         \/ flow.at = "probe" /\ a = "save" /\ ~Late
  PROVE  SignInv'
  <1>1. SignType /\ FlowKept /\ DiscardKept /\ SessionKept /\ SignIn!IssuedIsKept
    BY DEF SignInv
  <1>2. /\ flow' \in SignFlow /\ Active' /\ flow'.at = a /\ flow'.kind = flow.kind
        /\ flow'.epoch = flow.epoch /\ flow'.tx = flow.tx /\ flow'.code = flow.code
    BY <1>1, FlowGoes
  <1>3. SignType'
    BY <1>1, <1>2 DEF SignType, LeftKept
  <1>4. FlowKept'
    BY <1>1, <1>2 DEF FlowKept
  <1>5. DiscardKept'
    BY <1>1, <1>2 DEF DiscardKept, Late
  <1>6. SessionKept'
    BY <1>1, <1>2 DEF SessionKept, Late
  <1>7. SignIn!IssuedIsKept'
    BY <1>1, IssuedStays, SignShape
  <1> QED
    BY <1>3, <1>4, <1>5, <1>6, <1>7 DEF SignInv

FlowUnder == running # "off" /\ Active /\ UNCHANGED <<epoch, discard, withdrawn>>

LEMMA SignPlainKeeps ==
  ASSUME SignInv, FlowUnder,
         SignIn!Started \/ SignIn!Open \/ SignIn!Issued \/ SignIn!Probe \/ SignIn!PollExpires
  PROVE  SignInv'
  <1>0. SignType
    BY DEF SignInv
  <1>1. UNCHANGED <<signInDisk, signInServer, credential>> /\ LeftKept
    BY DEF SignIn!Started, SignIn!Open, SignIn!Issued, SignIn!Probe, SignIn!PollExpires,
       SignIn!Fault, LeftKept
  <1>2. \/ \E l \in BOOLEAN, c \in {"stale_operation", "network_error", "authorization_failed",
                                   "authorization_expired"} :
             SignIn!Fails(l, c) /\ (l => flow.epoch # epoch)
        \/ \E a \in SignIn!Steps :
             /\ SignIn!Goes(a)
             /\ \/ flow.at = "started" /\ a = "keep" /\ ~Late
                \/ flow.at = "open" /\ a = "poll"
                \/ flow.at = "issued" /\ a = "probe" /\ ~Late
                \/ flow.at = "probe" /\ a = "save" /\ ~Late
    <2>1. "keep" \in SignIn!Steps /\ "poll" \in SignIn!Steps /\ "probe" \in SignIn!Steps
          /\ "save" \in SignIn!Steps
      BY DEF SignIn!Steps
    <2>2. CASE SignIn!Started
      BY <2>1, <2>2 DEF SignIn!Started, SignIn!Answered, SignIn!Current, Late
    <2>3. CASE SignIn!Open
      BY <2>1, <2>3 DEF SignIn!Open
    <2>4. CASE SignIn!Issued
      BY <2>1, <2>4 DEF SignIn!Issued, SignIn!Answered, SignIn!Current, Late
    <2>5. CASE SignIn!Probe
      BY <2>1, <2>5 DEF SignIn!Probe, SignIn!Answered, SignIn!Current, Late
    <2>6. CASE SignIn!PollExpires
      BY <2>6 DEF SignIn!PollExpires
    <2> QED
      BY <2>2, <2>3, <2>4, <2>5, <2>6
  <1>3. CASE \E l \in BOOLEAN, c \in {"stale_operation", "network_error", "authorization_failed",
                                   "authorization_expired"} :
             SignIn!Fails(l, c) /\ (l => flow.epoch # epoch)
    <2>1. FlowEnds
      BY <1>0, <1>1, <1>3, FailsEnds DEF FlowEnds, FlowUnder
    <2> QED
      BY <1>1, <2>1, SignEndsKeeps DEF FlowUnder
  <1>4. CASE \E a \in SignIn!Steps :
             /\ SignIn!Goes(a)
             /\ \/ flow.at = "started" /\ a = "keep" /\ ~Late
                \/ flow.at = "open" /\ a = "poll"
                \/ flow.at = "issued" /\ a = "probe" /\ ~Late
                \/ flow.at = "probe" /\ a = "save" /\ ~Late
    BY <1>1, <1>4, SignGoesKeeps DEF FlowUnder, SignIn!Goes
  <1> QED
    BY <1>2, <1>3, <1>4

LEMMA SignStartKeeps ==
  ASSUME SignInv, FlowUnder, SignIn!Start PROVE SignInv'
  <1>1. SignType /\ FlowKept /\ DiscardKept /\ SessionKept /\ SignIn!IssuedIsKept
    BY DEF SignInv
  <1>2. /\ flow.at = "start" /\ signInServer' = Append(signInServer, SignIn!Fresh)
        /\ UNCHANGED <<signInDisk, credential>>
    BY DEF SignIn!Start
  <1>3. /\ signInServer' \in Seq(SignEntry) /\ Len(signInServer') = Len(signInServer) + 1
        /\ Len(signInServer) \in Nat
        /\ \A c \in 1 .. Len(signInServer) : signInServer'[c] = signInServer[c]
        /\ signInServer'[Len(signInServer) + 1] = SignIn!Fresh
    <2>1. SignIn!Fresh \in SignEntry
      BY DEF SignIn!Fresh, SignEntry
    <2> QED
      BY <1>1, <1>2, <2>1 DEF SignType
  <1>4. SignIn!IssuedIsKept'
    <2>1. SignIn!Fresh.state # "consumed"
      BY DEF SignIn!Fresh
    <2> QED
      BY <1>1, <1>2, <1>3, <2>1, IssuedStays, SignShape DEF FlowUnder
  <1>5. CASE /\ flow' = [flow EXCEPT !.at = "started", !.code = Len(signInServer) + 1]
             /\ UNCHANGED <<running, status, signInLeft>>
    <2> DEFINE w == [flow EXCEPT !.at = "started"]
    <2>0. flow \in SignFlow
      BY <1>1, SignShape DEF FlowUnder
    <2>1. /\ w \in SignFlow /\ w.at = "started" /\ w.kind = flow.kind
          /\ w.epoch = flow.epoch /\ w.tx = flow.tx
      BY <2>0 DEF SignFlow, SignIn!Steps
    <2>2. flow' = [w EXCEPT !.code = Len(signInServer) + 1]
      BY <1>5, <2>0 DEF SignFlow
    <2> HIDE DEF w
    <2>3. /\ flow' \in SignFlow /\ flow'.at = "started" /\ flow'.kind = flow.kind
          /\ flow'.epoch = flow.epoch /\ flow'.tx = flow.tx
          /\ flow'.code = Len(signInServer) + 1
      BY <1>3, <2>1, <2>2 DEF SignFlow
    <2>4. Active'
      <3>1. flow'.kind # "none"
        BY <2>3 DEF SignFlow
      <3> QED
        BY <3>1, IdleShape DEF Active
    <2>5. SignType'
      BY <1>1, <1>2, <1>3, <1>5, <2>3 DEF SignType, FlowUnder
    <2>6. FlowKept'
      BY <1>1, <1>2, <1>3, <1>5, <2>3 DEF FlowKept, FlowUnder
    <2>7. DiscardKept'
      BY <1>1, <1>2, <1>5, <2>3, <2>4 DEF DiscardKept, FlowUnder, Late
    <2>8. SessionKept'
      BY <1>1, <1>2, <1>3, <1>5, <2>3, <2>4, SignShape DEF SessionKept, FlowUnder, Late
    <2> QED
      BY <1>4, <2>5, <2>6, <2>7, <2>8 DEF SignInv
  <1>6. CASE SignIn!Fault /\ SignIn!Fails(FALSE, "network_error")
    <2>1. /\ flow' = SignIn!Idle /\ running' = SignIn!Up
          /\ \/ status' \in {"locked", "error", "revoked"}
             \/ status' = status /\ Late
          /\ signInLeft' = [signInLeft EXCEPT !.faults = @ - 1]
      BY <1>1, <1>6, FailsEnds DEF FlowUnder, SignIn!Fault
    <2>2. running' \in {"up", "quitting"} /\ (running \in {"up", "quitting"} => running' = running)
      BY <1>1, <2>1, UpShape DEF SignType, FlowUnder
    <2>3. SignType'
      <3>1. signInLeft' \in [presses : Int, faults : Int, stops : Int]
        BY <1>1, <2>1 DEF SignType
      <3>2. status' \in SignIn!Statuses
        BY <1>1, <2>1 DEF SignType, SignIn!Statuses
      <3> QED
        BY <1>1, <1>2, <1>3, <2>1, <2>2, <3>1, <3>2 DEF SignType, FlowUnder
    <2>4. FlowKept'
      BY <2>1 DEF FlowKept, Active
    <2>5. DiscardKept'
      BY <1>1, <1>2, <2>1, <2>2 DEF DiscardKept, FlowUnder, Active
    <2>6. SessionKept'
      BY <1>1, <1>2, <1>3, <2>1, <2>2, SignShape DEF SessionKept, FlowUnder, Active
    <2> QED
      BY <1>4, <2>3, <2>4, <2>5, <2>6 DEF SignInv
  <1> QED
    BY <1>5, <1>6 DEF SignIn!Start

\* Both writes of the transaction, before and after the server has opened it.
LEMMA SignWriteKeeps ==
  ASSUME SignInv, FlowUnder, NEW record, NEW a,
         \/ /\ flow.at = "prepare" /\ a = "start"
            /\ record = [phase |-> "prepared", tx |-> flow.tx, code |-> 0]
         \/ /\ flow.at = "keep" /\ a \in {"poll", "open"}
            /\ record = [phase |-> "started", tx |-> flow.tx, code |-> flow.code],
         SignIn!Write(record, a), UNCHANGED <<signInServer, credential>>
  PROVE  SignInv'
  <1>1. SignType /\ FlowKept /\ DiscardKept /\ SessionKept /\ SignIn!IssuedIsKept
    BY DEF SignInv
  <1>2. /\ flow \in SignFlow /\ flow.tx \in Int /\ flow.code \in Nat /\ Len(signInServer) \in Nat
        /\ a \in SignIn!Steps
    BY <1>1, SignShape DEF FlowUnder, SignIn!Steps
  <1>3. /\ record \in [phase : {"none", "prepared", "started"}, tx : Int, code : Nat]
        /\ record.tx = flow.tx
        /\ \/ flow.at = "prepare" /\ a = "start" /\ record.phase = "prepared" /\ record.code = 0
           \/ /\ flow.at = "keep" /\ a \in {"poll", "open"}
              /\ record.phase = "started" /\ record.code = flow.code /\ flow.code # 0
              /\ record.code <= Len(signInServer)
    <2>1. flow.at = "keep" => flow.code # 0 /\ flow.code <= Len(signInServer)
      BY <1>1, <1>2 DEF FlowKept, FlowUnder
    <2> QED
      BY <1>2, <2>1
  <1>4. /\ signInDisk.credential = 0 /\ ~signInDisk.marker /\ signInDisk.pending.code = 0
    BY <1>1, <1>3 DEF FlowKept, FlowUnder
  <1>5. /\ status = "unauthenticated" => discard # "none" /\ discard # "marker"
        /\ discard # "marker" /\ status # "authenticated"
        /\ discard # "none" => record.code \in withdrawn \cup {0}
    BY <1>1, <1>3 DEF SessionKept, DiscardKept, FlowUnder
  <1>6. signInDisk' = [signInDisk EXCEPT !.pending = record] =>
          /\ signInDisk' \in SignDisk /\ signInDisk'.pending = record
          /\ signInDisk'.credential = 0 /\ ~signInDisk'.marker
    BY <1>1, <1>3, <1>4 DEF SignType, SignDisk
  <1>7. CASE /\ signInDisk' = [signInDisk EXCEPT !.pending = record]
             /\ flow' = [flow EXCEPT !.at = a] /\ UNCHANGED <<running, status, signInLeft>>
    <2>1. /\ flow' \in SignFlow /\ Active' /\ flow'.at = a /\ flow'.kind = flow.kind
          /\ flow'.epoch = flow.epoch /\ flow'.tx = flow.tx /\ flow'.code = flow.code
      BY <1>1, <1>2, <1>7, FlowGoes DEF FlowUnder
    <2>2. SignType'
      BY <1>1, <1>6, <1>7, <2>1 DEF SignType, FlowUnder
    <2>3. FlowKept'
      BY <1>1, <1>3, <1>6, <1>7, <2>1 DEF FlowKept, FlowUnder
    <2>4. DiscardKept'
      BY <1>1, <1>3, <1>5, <1>6, <1>7, <2>1 DEF DiscardKept, FlowUnder, Late
    <2>5. SessionKept'
      BY <1>1, <1>2, <1>3, <1>5, <1>6, <1>7, <2>1 DEF SessionKept, FlowUnder
    <2>6. SignIn!IssuedIsKept'
      BY <1>1, <1>4, <1>6, <1>7, IssuedStays, SignShape DEF FlowUnder
    <2> QED
      BY <2>2, <2>3, <2>4, <2>5, <2>6 DEF SignInv
  <1>8. CASE /\ SignIn!Fault /\ status' = "locked" /\ flow' = SignIn!Idle /\ running' = SignIn!Up
             /\ signInDisk' \in {signInDisk, [signInDisk EXCEPT !.pending = record]}
    <2>1. LeftKept
      BY <1>8 DEF SignIn!Fault, LeftKept
    <2>2. CASE signInDisk' = signInDisk
      <3>1. FlowEnds
        BY <1>8 DEF FlowEnds
      <3> QED
        BY <2>1, <2>2, <3>1, SignEndsKeeps DEF FlowUnder
    <2>3. CASE signInDisk' = [signInDisk EXCEPT !.pending = record]
      <3>1. running' \in {"up", "quitting"} /\ (running \in {"up", "quitting"} => running' = running)
        BY <1>1, <1>8, UpShape DEF SignType, FlowUnder
      <3>2. SignType'
        BY <1>1, <1>6, <1>8, <2>1, <2>3, <3>1 DEF SignType, SignIn!Statuses, FlowUnder, LeftKept
      <3>3. FlowKept'
        BY <1>8 DEF FlowKept, Active
      <3>4. DiscardKept'
        BY <1>1, <1>5, <1>6, <1>8, <2>3, <3>1 DEF DiscardKept, FlowUnder, Active
      <3>5. SessionKept'
        BY <1>1, <1>2, <1>3, <1>6, <1>8, <2>3, <3>1 DEF SessionKept, FlowUnder
      <3>6. SignIn!IssuedIsKept'
        BY <1>1, <1>4, <1>6, <2>3, IssuedStays, SignShape DEF FlowUnder
      <3> QED
        BY <3>2, <3>3, <3>4, <3>5, <3>6 DEF SignInv
    <2> QED
      BY <1>8, <2>2, <2>3
  <1> QED
    BY <1>7, <1>8 DEF SignIn!Write, SignIn!Goes

\* The server hands the credentials out: the transaction that asks for them
\* again is on disk.
LEMMA SignPollKeeps ==
  ASSUME SignInv, FlowUnder, SignIn!Poll PROVE SignInv'
  <1>1. SignType /\ FlowKept /\ DiscardKept /\ SessionKept /\ SignIn!IssuedIsKept
    BY DEF SignInv
  <1>2. flow.at = "poll" /\ UNCHANGED <<signInDisk, credential>>
    BY DEF SignIn!Poll
  <1>3. CASE SignIn!Exchange # "issued"
    <2>1. SignIn!Fails(FALSE, SignIn!Exchange) /\ UNCHANGED <<signInServer, signInLeft>>
      BY <1>3 DEF SignIn!Poll
    <2>2. FlowEnds /\ LeftKept
      <3>1. /\ flow' = SignIn!Idle /\ running' = SignIn!Up
            /\ \/ status' \in {"locked", "error", "revoked"}
               \/ status' = status /\ Late
        BY <1>1, <2>1, FailsEnds DEF FlowUnder
      <3> QED
        BY <1>2, <2>1, <3>1 DEF FlowEnds, LeftKept
    <2> QED
      BY <1>2, <2>2, SignEndsKeeps DEF FlowUnder
  <1>4. CASE SignIn!Exchange = "issued"
    <2>1. /\ signInServer' = [signInServer EXCEPT ![flow.code].state = "consumed",
                                                  ![flow.code].tx = flow.tx]
          /\ \/ SignIn!Goes("issued") /\ UNCHANGED signInLeft
             \/ SignIn!Fault /\ SignIn!Fails(FALSE, "network_error")
      BY <1>4 DEF SignIn!Poll
    <2>2. /\ flow \in SignFlow /\ flow.tx \in Int
          /\ flow.code \in 1 .. Len(signInServer) /\ Len(signInServer) \in Nat
          /\ signInServer[flow.code] \in SignEntry
      BY <1>1, <1>2, SignShape DEF FlowUnder, FlowKept
    <2> DEFINE m == [signInServer[flow.code] EXCEPT !.state = "consumed"]
               e == [m EXCEPT !.tx = flow.tx]
    <2>3. m \in SignEntry /\ m.state = "consumed"
      BY <2>2 DEF SignEntry
    <2>4. signInServer' = [signInServer EXCEPT ![flow.code] = e]
      BY <1>1, <2>1, <2>2 DEF SignType
    <2> HIDE DEF m
    <2>5. e \in SignEntry /\ e.state = "consumed" /\ e.tx = flow.tx
      BY <2>2, <2>3 DEF SignEntry
    <2> HIDE DEF e
    <2>6. /\ signInServer' \in Seq(SignEntry) /\ Len(signInServer') = Len(signInServer)
          /\ \A c \in 1 .. Len(signInServer) : c # flow.code => signInServer'[c] = signInServer[c]
          /\ signInServer'[flow.code] = e
      BY <1>1, <2>2, <2>4, <2>5 DEF SignType
    <2>7. SignIn!IssuedIsKept'
      <3> SUFFICES ASSUME NEW c \in 1 .. Len(signInServer),
                          signInServer'[c].state = "consumed",
                          signInServer'[c].over = 0, c \notin withdrawn
                   PROVE  SignIn!Recoverable(c)'
        BY <2>6 DEF SignIn!IssuedIsKept, FlowUnder
      <3>1. CASE c = flow.code
        <4>1. signInDisk.pending.code = c /\ signInDisk.pending.tx = flow.tx
          BY <1>1, <1>2, <3>1 DEF FlowKept, FlowUnder
        <4> QED
          BY <1>2, <2>5, <2>6, <3>1, <4>1 DEF SignIn!Recoverable
      <3>2. CASE c # flow.code
        <4>1. signInServer'[c] = signInServer[c]
          BY <2>6, <3>2
        <4>2. SignIn!Recoverable(c)
          BY <1>1, <4>1 DEF SignIn!IssuedIsKept
        <4> QED
          BY <1>2, <4>1, <4>2 DEF SignIn!Recoverable
      <3> QED
        BY <3>1, <3>2
    <2>8. CASE SignIn!Goes("issued") /\ UNCHANGED signInLeft
      <3>1. /\ flow' \in SignFlow /\ Active' /\ flow'.at = "issued" /\ flow'.kind = flow.kind
            /\ flow'.epoch = flow.epoch /\ flow'.tx = flow.tx /\ flow'.code = flow.code
            /\ UNCHANGED <<running, status>>
        <4>1. "issued" \in SignIn!Steps
          BY DEF SignIn!Steps
        <4> QED
          BY <1>1, <2>8, <4>1, FlowGoes DEF FlowUnder, SignIn!Goes
      <3>2. SignType'
        BY <1>1, <1>2, <2>6, <2>8, <3>1 DEF SignType, FlowUnder
      <3>3. FlowKept'
        BY <1>1, <1>2, <2>6, <3>1 DEF FlowKept, FlowUnder
      <3>4. DiscardKept'
        BY <1>1, <1>2, <3>1 DEF DiscardKept, FlowUnder, Late
      <3>5. SessionKept'
        BY <1>1, <1>2, <2>6, <3>1 DEF SessionKept, FlowUnder, Late
      <3> QED
        BY <2>7, <3>2, <3>3, <3>4, <3>5 DEF SignInv
    <2>9. CASE SignIn!Fault /\ SignIn!Fails(FALSE, "network_error")
      <3>1. /\ flow' = SignIn!Idle /\ running' = SignIn!Up
            /\ \/ status' \in {"locked", "error", "revoked"}
               \/ status' = status /\ Late
            /\ signInLeft' = [signInLeft EXCEPT !.faults = @ - 1]
        BY <1>1, <2>9, FailsEnds DEF FlowUnder, SignIn!Fault
      <3>2. running' \in {"up", "quitting"} /\ (running \in {"up", "quitting"} => running' = running)
        BY <1>1, <3>1, UpShape DEF SignType, FlowUnder
      <3>3. SignType'
        BY <1>1, <1>2, <2>6, <3>1, <3>2 DEF SignType, SignIn!Statuses, FlowUnder
      <3>4. FlowKept'
        BY <3>1 DEF FlowKept, Active
      <3>5. DiscardKept'
        BY <1>1, <1>2, <3>1, <3>2 DEF DiscardKept, FlowUnder, Active
      <3>6. SessionKept'
        BY <1>1, <1>2, <2>6, <3>1, <3>2, SignShape DEF SessionKept, FlowUnder, Active
      <3> QED
        BY <2>7, <3>3, <3>4, <3>5, <3>6 DEF SignInv
    <2> QED
      BY <2>1, <2>8, <2>9
  <1> QED
    BY <1>3, <1>4

LEMMA SignSaveKeeps ==
  ASSUME SignInv, FlowUnder, SignIn!Save PROVE SignInv'
  <1>1. SignType /\ FlowKept /\ DiscardKept /\ SessionKept /\ SignIn!IssuedIsKept
    BY DEF SignInv
  <1>2. flow.at = "save" /\ UNCHANGED <<signInServer, credential>>
    BY DEF SignIn!Save
  <1>3. flow \in SignFlow /\ flow.code \in 1 .. Len(signInServer) /\ Len(signInServer) \in Nat
    BY <1>1, <1>2, SignShape DEF FlowUnder, FlowKept
  <1>4. /\ signInDisk.credential = 0 /\ ~signInDisk.marker
        /\ signInDisk.pending.code \in {0, flow.code}
    BY <1>1, <1>2 DEF FlowKept, FlowUnder
  <1>5. /\ status # "authenticated" /\ (discard = "none" => status # "unauthenticated")
        /\ discard \in {"none", "credential"}
        /\ discard # "none" => flow.code \in withdrawn
    BY <1>1, <1>2 DEF SessionKept, DiscardKept, FlowUnder, SignType
  <1>6. signInDisk' = [signInDisk EXCEPT !.credential = flow.code] =>
          /\ signInDisk' \in SignDisk /\ signInDisk'.credential = flow.code
          /\ signInDisk'.pending = signInDisk.pending /\ ~signInDisk'.marker
    BY <1>1, <1>3, <1>4 DEF SignType, SignDisk
  <1>7. CASE /\ signInDisk' = [signInDisk EXCEPT !.credential = flow.code]
             /\ SignIn!Goes("remove") /\ UNCHANGED signInLeft
    <2>1. /\ flow' \in SignFlow /\ Active' /\ flow'.at = "remove" /\ flow'.kind = flow.kind
          /\ flow'.epoch = flow.epoch /\ flow'.tx = flow.tx /\ flow'.code = flow.code
          /\ UNCHANGED <<running, status>>
      <3>1. "remove" \in SignIn!Steps
        BY DEF SignIn!Steps
      <3> QED
        BY <1>1, <1>7, <3>1, FlowGoes DEF FlowUnder, SignIn!Goes
    <2>2. SignType'
      BY <1>1, <1>2, <1>6, <1>7, <2>1 DEF SignType, FlowUnder
    <2>3. FlowKept'
      BY <1>1, <1>2, <1>4, <1>6, <1>7, <2>1 DEF FlowKept, FlowUnder
    <2>4. DiscardKept'
      BY <1>1, <1>2, <1>4, <1>5, <1>6, <1>7, <2>1 DEF DiscardKept, FlowUnder, Late
    <2>5. SessionKept'
      BY <1>1, <1>2, <1>3, <1>4, <1>5, <1>6, <1>7, <2>1 DEF SessionKept, FlowUnder
    <2>6. SignIn!IssuedIsKept'
      BY <1>1, <1>2, <1>3, <1>4, <1>6, <1>7, IssuedStays, SignShape DEF FlowUnder
    <2> QED
      BY <2>2, <2>3, <2>4, <2>5, <2>6 DEF SignInv
  <1>8. CASE /\ SignIn!Fault /\ status' = "locked" /\ flow' = SignIn!Idle /\ running' = SignIn!Up
             /\ signInDisk' \in {signInDisk, [signInDisk EXCEPT !.credential = flow.code]}
    <2>1. LeftKept
      BY <1>8 DEF SignIn!Fault, LeftKept
    <2>2. CASE signInDisk' = signInDisk
      <3>1. FlowEnds
        BY <1>2, <1>8 DEF FlowEnds
      <3> QED
        BY <2>1, <2>2, <3>1, SignEndsKeeps DEF FlowUnder
    <2>3. CASE signInDisk' = [signInDisk EXCEPT !.credential = flow.code]
      <3>1. running' \in {"up", "quitting"} /\ (running \in {"up", "quitting"} => running' = running)
        BY <1>1, <1>8, UpShape DEF SignType, FlowUnder
      <3>2. SignType'
        BY <1>1, <1>2, <1>6, <1>8, <2>1, <2>3, <3>1 DEF SignType, SignIn!Statuses, FlowUnder, LeftKept
      <3>3. FlowKept'
        BY <1>8 DEF FlowKept, Active
      <3>4. DiscardKept'
        BY <1>1, <1>5, <1>6, <1>8, <2>3, <3>1 DEF DiscardKept, FlowUnder, Active
      <3>5. SessionKept'
        BY <1>1, <1>2, <1>3, <1>4, <1>6, <1>8, <2>3, <3>1 DEF SessionKept, FlowUnder
      <3>6. SignIn!IssuedIsKept'
        BY <1>1, <1>2, <1>3, <1>4, <1>6, <2>3, IssuedStays, SignShape DEF FlowUnder
      <3> QED
        BY <3>2, <3>3, <3>4, <3>5, <3>6 DEF SignInv
    <2> QED
      BY <1>8, <2>2, <2>3
  <1> QED
    BY <1>7, <1>8 DEF SignIn!Save

LEMMA SignRemoveKeeps ==
  ASSUME SignInv, FlowUnder, SignIn!Remove PROVE SignInv'
  <1>1. SignType /\ FlowKept /\ DiscardKept /\ SessionKept /\ SignIn!IssuedIsKept
    BY DEF SignInv
  <1>2. flow.at = "remove" /\ UNCHANGED signInServer
    BY DEF SignIn!Remove
  <1>3. flow \in SignFlow /\ flow.code \in 1 .. Len(signInServer) /\ Len(signInServer) \in Nat
    BY <1>1, <1>2, SignShape DEF FlowUnder, FlowKept
  <1>4. /\ ~signInDisk.marker
        /\ signInDisk.pending.code \in {0, flow.code} /\ signInDisk.credential \in {0, flow.code}
        /\ flow.code \notin withdrawn => signInDisk.credential = flow.code
    BY <1>1, <1>2 DEF FlowKept, FlowUnder
  <1>5. /\ status # "authenticated" /\ (discard = "none" => status # "unauthenticated")
        /\ discard \in {"none", "credential", "pending"}
        /\ discard # "none" => Late
    BY <1>1, <1>2 DEF SessionKept, DiscardKept, FlowUnder, SignType
  <1>6. signInDisk' = [signInDisk EXCEPT !.pending = SignIn!Nothing] =>
          /\ signInDisk' \in SignDisk /\ signInDisk'.credential = signInDisk.credential
          /\ signInDisk'.pending = SignIn!Nothing /\ ~signInDisk'.marker
    BY <1>1, <1>4, IdleShape DEF SignType, SignDisk
  <1>7. /\ flow' = SignIn!Idle /\ running' = SignIn!Up
        /\ \/ status' = "authenticated" /\ flow.epoch = epoch /\ credential' = flow.code
              /\ signInDisk' = [signInDisk EXCEPT !.pending = SignIn!Nothing]
           \/ /\ UNCHANGED credential
              /\ \/ status' \in {"locked", "error", "revoked"}
                 \/ status' = status /\ Late
              /\ \/ signInDisk' = signInDisk
                 \/ signInDisk' = [signInDisk EXCEPT !.pending = SignIn!Nothing]
        /\ LeftKept
    <2>1. CASE SignIn!Fails(TRUE, "stale_operation") /\ flow.epoch # epoch /\ UNCHANGED credential
               /\ signInDisk' = [signInDisk EXCEPT !.pending = SignIn!Nothing] /\ UNCHANGED signInLeft
      BY <1>1, <2>1, FailsEnds DEF FlowUnder, LeftKept
    <2>2. CASE ~(SignIn!Fails(TRUE, "stale_operation") /\ flow.epoch # epoch /\ UNCHANGED credential
               /\ signInDisk' = [signInDisk EXCEPT !.pending = SignIn!Nothing] /\ UNCHANGED signInLeft)
      BY <2>2 DEF SignIn!Remove, SignIn!Current, SignIn!Fault, LeftKept
    <2> QED
      BY <2>1, <2>2
  <1>8. CASE /\ signInDisk' = signInDisk /\ UNCHANGED credential
             /\ \/ status' \in {"locked", "error", "revoked"}
                \/ status' = status /\ Late
    <2>1. FlowEnds
      BY <1>2, <1>7, <1>8 DEF FlowEnds
    <2> QED
      BY <1>7, <1>8, <2>1, SignEndsKeeps DEF FlowUnder
  <1>9. CASE signInDisk' = [signInDisk EXCEPT !.pending = SignIn!Nothing]
    <2>1. running' \in {"up", "quitting"} /\ (running \in {"up", "quitting"} => running' = running)
      BY <1>1, <1>7, UpShape DEF SignType, FlowUnder
    <2>2. SignType'
      BY <1>1, <1>2, <1>3, <1>6, <1>7, <1>9, <2>1 DEF SignType, SignIn!Statuses, FlowUnder, LeftKept
    <2>3. FlowKept'
      BY <1>7 DEF FlowKept, Active
    <2>4. DiscardKept'
      BY <1>1, <1>5, <1>6, <1>7, <1>9, <2>1, IdleShape DEF DiscardKept, FlowUnder, Active
    <2>5. SessionKept'
      BY <1>1, <1>2, <1>3, <1>4, <1>5, <1>6, <1>7, <1>9, <2>1, IdleShape DEF SessionKept, FlowUnder, Active
    <2>6. SignIn!IssuedIsKept'
      BY <1>1, <1>2, <1>3, <1>4, <1>6, <1>9, IssuedStays, SignShape DEF FlowUnder
    <2> QED
      BY <2>2, <2>3, <2>4, <2>5, <2>6 DEF SignInv
  <1> QED
    BY <1>7, <1>8, <1>9

LEMMA SignNext == SignInv /\ [SignIn!AuthorizationNext]_authorizationVars => SignInv'
  <1> SUFFICES ASSUME SignInv, [SignIn!AuthorizationNext]_authorizationVars PROVE SignInv'
    OBVIOUS
  <1>1. CASE SignIn!Flows
    <2>1. FlowUnder /\ SignIn!FlowStep
      BY <1>1 DEF SignIn!Flows, FlowUnder, Active, SignIn!Alive
    <2>2. CASE SignIn!Prepare
      BY <2>1, <2>2, SignWriteKeeps DEF SignIn!Prepare
    <2>3. CASE SignIn!Keep
      BY <2>1, <2>3, SignWriteKeeps DEF SignIn!Keep
    <2> QED
      BY <2>1, <2>2, <2>3, SignPlainKeeps, SignStartKeeps, SignPollKeeps, SignSaveKeeps,
         SignRemoveKeeps DEF SignIn!FlowStep
  <1>2. CASE UNCHANGED authorizationVars
    <2>1. UNCHANGED <<running, status, epoch, credential, signInDisk, flow, discard,
                      signInServer, withdrawn, signInLeft>>
      BY <1>2 DEF authorizationVars
    <2>2. SignType' /\ FlowKept' /\ DiscardKept' /\ SessionKept'
      BY <2>1 DEF SignInv, SignType, FlowKept, DiscardKept, SessionKept, Active, Late
    <2>3. SignIn!IssuedIsKept'
      BY <2>1 DEF SignInv, SignIn!IssuedIsKept, SignIn!Recoverable
    <2> QED
      BY <2>2, <2>3 DEF SignInv
  <1> QED
    BY <1>1, <1>2, SignInitializeKeeps, SignStopKeeps, SignAuthorizeKeeps, SignRetryKeeps,
       SignLogoutKeeps, SignEndKeeps, SignVerdictKeeps, SignDiscardsKeep, SignServerKeeps
       DEF SignIn!AuthorizationNext

-----------------------------------------------------------------------------
\* The parts together.  A step of the composition is a step of the chosen part.

LEMMA PartSteps ==
  ASSUME [PartsNext]_partsVars
  PROVE  /\ part' = part
         /\ part = "store" => [Next]_vars
         /\ part = "pending" => [Pending!StoreNext]_storeVars
         /\ part = "prefs" => [Prefs!PreferenceNext]_preferenceVars
         /\ part = "editor" => [Editor!Next]_editorVars
         /\ part = "toolbar" => [Toolbar!Next]_toolbarVars
         /\ part = "content" => [Content!Next]_contentVars
         /\ part = "polling" => [Polling!PollNext]_pollVars
         /\ part = "signin" => [SignIn!AuthorizationNext]_authorizationVars
         /\ part = "live" => [Live!LiveNext]_liveVars
         /\ part = "item" => [Item!ItemNext]_itemVars
         /\ part = "preview" => [Preview!PreviewNext]_previewVars
         /\ part = "browser" => [Browser!Next]_browserVars
         /\ part = "lifecycle" => [Lifecycle!LifecycleNext]_lifecycleVars
  BY Zenon DEF PartsNext, Still, partsVars

\* Every file a desktop keeps survives kills, losses of power and failed calls
\* with what was reported written last, or what was being written: the
\* credential file, the file of a pending sign-in and the statistics cache.
\* The exception is the one TransactionKnown names: the pending sign-in's
\* record goes with a save whose last flush fails.
THEOREM FilesHoldWhatWasWritten == PartsSpec => []RecordsKnown
  <1> DEFINE Inv == /\ part = "store" => StoreInv
                    /\ part = "pending" => PendingInv /\ FlushLost
                    /\ part = "prefs" => PrefsInv
  <1>1. PartsInit => Inv
    BY InitStore, PendingInit, PrefsInit DEF PartsInit, FlushLost, Pending!StoreInit
  <1>2. Inv /\ [PartsNext]_partsVars => Inv'
    BY PartSteps, NextStore, PendingNext, FlushLostNext, PrefsNext
  <1>3. Inv => RecordsKnown
    BY PrefsKept DEF RecordsKnown, StoreInv, PendingInv, PendingShape, FlushLost,
       Expected, Pending!TransactionKnown
  <1> QED
    BY <1>1, <1>2, <1>3, PTL DEF PartsSpec

\* A desktop that signs in keeps what the server handed out until the session is
\* given up, however often it is quit, killed or cut off (runAuthorization,
\* resumeAuthorization, discardLocalSession), and one that polls early is served
\* soon (pollAuthorization against enforce_poll_gate).
THEOREM SigningInIsServed == PartsSpec => []SignInsServed
  <1> DEFINE Inv == /\ part = "signin" => SignInv
                    /\ part = "polling" => PollInv
  <1>1. PartsInit => Inv
    BY SignInit, PollInit DEF PartsInit
  <1>2. Inv /\ [PartsNext]_partsVars => Inv'
    BY PartSteps, SignNext, PollNext
  <1>3. Inv => SignInsServed
    BY PollKept DEF SignInsServed, SignInv
  <1> QED
    BY <1>1, <1>2, <1>3, PTL DEF PartsSpec

\* Whatever is pasted, removed, retried or posted meanwhile, an upload of the
\* rich text editor has one run, is in the text while it runs and frees its
\* preview once; a menu's range is the open menu's; and no source is open for a
\* text that is no longer shown (rich-text.jsx).
THEOREM RichTextStaysWhole == PartsSpec => []RichTextKept
  <1> DEFINE Inv == /\ part = "editor" => EditorInv
                    /\ part = "toolbar" => ToolbarInv
                    /\ part = "content" => ContentInv
  <1>1. PartsInit => Inv
    BY EditorInit, ToolbarInit, ContentInit DEF PartsInit
  <1>2. Inv /\ [PartsNext]_partsVars => Inv'
    BY PartSteps, EditorNext, ToolbarNext, ContentNext
  <1>3. Inv => RichTextKept
    BY EditorKept, ToolbarKept, ContentKept DEF RichTextKept
  <1> QED
    BY <1>1, <1>2, <1>3, PTL DEF PartsSpec

\* Whatever is lost, late or loaded again, a page that is quiet shows what the
\* server had when it last told, and a new release is prompted for as long as it
\* is newer (runTopbarRefresh, runPageRefresh and the release checks of app.jsx);
\* the discussion of a work item is as fresh, and who is said to be typing is
\* typing (work-item-typing-controller, use-work-item-live).
THEOREM ScreensFollow == PartsSpec => []ScreensFollowEvents
  <1> DEFINE Inv == /\ part = "live" => LiveInv
                    /\ part = "item" => ItemInv
  <1>1. PartsInit => Inv
    BY LiveInit, ItemInit DEF PartsInit
  <1>2. Inv /\ [PartsNext]_partsVars => Inv'
    BY PartSteps, LiveNext, ItemNext
  <1>3. Inv => ScreensFollowEvents
    BY LiveKept, ItemShown DEF ScreensFollowEvents
  <1> QED
    BY <1>1, <1>2, <1>3, PTL DEF PartsSpec

\* A file that is handed over is the file that was registered, whatever was tried
\* twice, cut off or changed on the disk, and what a confirmed upload left on the
\* server opens to the bytes that were chosen (the browser's file transfers); a
\* preview holds the source of the file it shows and no other, and an image stays
\* within reach of its stage (attachment-preview).
THEOREM AttachmentsAreShown == PartsSpec => []AttachmentsShown
  <1> DEFINE Inv == /\ part = "preview" => PreviewInv
                    /\ part = "browser" => BrowserInv
  <1>1. PartsInit => Inv
    BY PreviewInit, BrowserInit DEF PartsInit
  <1>2. Inv /\ [PartsNext]_partsVars => Inv'
    BY PartSteps, PreviewNext, BrowserNext
  <1>3. Inv => AttachmentsShown
    BY PreviewKept, BrowserKept DEF AttachmentsShown
  <1> QED
    BY <1>1, <1>2, <1>3, PTL DEF PartsSpec

\* For any number of windows and any order of their events, the awaits of the start
\* and quitting: quitting takes everything with it, a window is shown when it has
\* something to show and not before, and a page that is loaded knows the session
\* and the network as they are (main.mjs).
THEOREM WindowsAreKept == PartsSpec => []WindowsKept
  <1> DEFINE Inv == part = "lifecycle" => WindowsInv
  <1>1. PartsInit => Inv
    BY WindowsInit DEF PartsInit
  <1>2. Inv /\ [PartsNext]_partsVars => Inv'
    BY PartSteps, WindowsNext
  <1>3. Inv => WindowsKept
    BY WindowsSafe DEF WindowsKept
  <1> QED
    BY <1>1, <1>2, <1>3, PTL DEF PartsSpec

=============================================================================
