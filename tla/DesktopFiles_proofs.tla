------------------------ MODULE DesktopFiles_proofs ------------------------
(***************************************************************************)
(* Proofs about DesktopFiles: the spool counts and owns what lies in it,   *)
(* transfers and previews end with their page and session, and files       *)
(* arrive whole.                                                           *)
(***************************************************************************)
EXTENDS DesktopFiles, FiniteSetTheorems, TLAPS

JobRecords ==
    [pc : Running \cup {"idle", "done"}, epoch : Nat, lease : Nat,
     content : Contents \cup {None}, snap : Picks \cup {None},
     att : Uploads \cup {None}, first : BOOLEAN, ok : BOOLEAN,
     aborted : BOOLEAN, withdrawn : BOOLEAN, took : BOOLEAN, saw : Nat,
     why : {None, "issued", "completed", "refused", "failed", "lost"}]

Bindings == [Snaps -> Nat]

\* What the variables are made of.
ShapesInv ==
    /\ epoch \in Nat \ {0}
    /\ job \in [Jobs -> JobRecords]
    /\ files \subseteq Jobs
    /\ bytes \in [file : Int, preview : Int]
    /\ vault \in Bindings
    /\ \A j \in Jobs : job[j].why # None => job[j].pc = "done"

\* The spool: what is counted, what a vault entry, a scheduled removal and a
\* failed one stand for, and which captures have not begun.
SpoolInv ==
    /\ SpoolAccounted
    /\ cleanup \subseteq files \cap Snaps /\ failed \subseteq files \cap Picks
    /\ cleanup \cap failed = {}
    /\ \A s \in Snaps : vault[s] # Unbound =>
          /\ job[s].pc = "done" /\ s \in files /\ s \notin cleanup \cup failed
    /\ \A p \in Picks :
          /\ job[p].pc \in {"idle", "dialog"} => p \notin files
          /\ job[p].pc \in {"dialog", "copy"} => job[p].epoch # 0
          /\ job[p].pc = "copy" => p \in files /\ p \notin cleanup \cup failed
    /\ \A v \in Previews : job[v].pc # "done" => v \notin files

\* The snapshot an upload works on, and after it has been taken.
UploadFits(u) ==
    LET j == job[u]
    IN  /\ j.pc \in UploadSteps =>
              j.snap \in Picks /\ j.att \in Uploads /\ j.epoch # 0
        /\ j.pc \in {"create", "sign", "put", "sent", "close"} => job[j.snap].pc = "done"
        /\ j.pc \in {"idle", "create", "sign"} => ~j.took
        /\ j.took => /\ j.snap \in Picks /\ vault[j.snap] = Unbound
                     /\ job[j.snap].pc = "done"
        /\ j.pc \in {"put", "sent", "close"} =>
              j.took /\ j.snap \in files /\ j.snap \notin cleanup \cup failed
        /\ j.pc = "confirm" => j.took /\ j.snap \notin files

UploadsInv == \A u \in Uploads : UploadFits(u)

\* How a withdrawal reaches a transfer.
UploadEnds(j) ==
    /\ j.pc \in UploadSteps \cup {"idle", "done"}
    /\ j.pc \in {"idle", "create", "sign", "put"} => ~j.ok
    /\ j.pc \in {"idle", "create", "sign"} => ~j.withdrawn
    /\ j.pc = "put" => (j.withdrawn => j.aborted)
    /\ j.pc = "sent" => ~j.withdrawn
    /\ j.pc = "confirm" => j.ok
    /\ j.ok => ~j.withdrawn

DownloadEnds(j, granted) ==
    /\ j.pc \in DownloadSteps \cup {"idle", "done"}
    /\ j.pc \in {"idle", "dsign", "save", "fetch"} => ~j.ok
    /\ j.pc \in {"idle", "dsign"} => ~j.withdrawn
    /\ j.pc = "save" => (j.withdrawn => ~granted)
    /\ j.pc = "fetch" => (j.withdrawn => j.aborted)
    /\ j.pc \in {"verify", "rename"} => j.ok
    /\ j.ok => ~j.withdrawn

TargetFits == target.id \in Nat /\ TargetWhole

EndsInv ==
    /\ \A u \in Uploads : UploadEnds(job[u])
    /\ \A d \in Downloads : DownloadEnds(job[d], d \in grants)
    /\ TargetFits

\* A preview's request, lease and capability are of epochs in this order.
PreviewFits(v) ==
    /\ job[v].pc \in {"meta", "load", "capture"} =>
          job[v].epoch # 0 /\ job[v].epoch <= job[v].lease /\ job[v].lease <= epoch
    /\ vault[v] # Unbound => vault[v] <= job[v].lease /\ job[v].lease <= epoch

PreviewsInv == PreviewsServedToTheirSession /\ \A v \in Previews : PreviewFits(v)

\* What the server holds is what was registered, and an upload under way is of
\* the file its attachment was registered for.
ServerInv ==
    /\ server \in [Uploads -> [state : {None, "pending", "uploaded"},
                               meta : Contents \cup {None},
                               object : Contents \cup {None},
                               kind : Targets \cup {None}]]
    /\ \A a \in Uploads :
          /\ server[a].object \in {None, server[a].meta}
          /\ server[a].state = "uploaded" => server[a].object = server[a].meta
          /\ job[a].pc \in {"idle", "create"} =>
                server[a].state = None /\ server[a].object = None
    /\ \A u \in Uploads :
          /\ job[u].pc = "create" => job[u].att = u
          /\ job[u].pc \in {"sign", "put", "sent", "close", "confirm"} =>
                server[job[u].att].state # None
          /\ job[u].pc = "put" => server[job[u].att].meta = job[job[u].snap].content

FilesInv ==
    /\ ShapesInv /\ SpoolInv /\ SnapshotsOwned /\ UploadsInv /\ SnapshotSentOnce
    /\ EndsInv /\ PreviewsInv /\ ServerInv

-----------------------------------------------------------------------------
\* The operators of the model.

\* No operation is of two kinds.
LEMMA KindsApart ==
    /\ Jobs = Picks \cup Uploads \cup Downloads \cup Previews
    /\ Snaps = Picks \cup Previews
    /\ \A j : /\ j \in Picks => j \notin Uploads /\ j \notin Downloads
                                /\ j \notin Previews
              /\ j \in Uploads => j \notin Downloads /\ j \notin Previews
              /\ j \in Downloads => j \notin Previews
BY FilesAssumption DEF Jobs, Snaps

\* A step of one operation leaves the others alone.
LEMMA OneJob ==
    ASSUME job \in [Jobs -> JobRecords], NEW j \in Jobs, NEW x \in JobRecords,
           job' = [job EXCEPT ![j] = x]
    PROVE  /\ job' \in [Jobs -> JobRecords] /\ job'[j] = x
           /\ \A k \in Jobs : k # j => job'[k] = job[k]
OBVIOUS

\* The spools are finite, and their sizes are what is removed from them smaller.
LEMMA Sizes ==
    ASSUME NEW S, NEW T, IsFiniteSet(T)
    PROVE  Cardinality((S \cap T)) \in Nat
<1>1. IsFiniteSet(S \cap T)
  BY FS_Intersection
<1> QED BY <1>1, FS_CardinalityType

\* Release() of snapshots that lie in the spool, and one more snapshot.
LEMMA ReleaseCounts ==
    ASSUME SpoolAccounted, NEW S, S \subseteq files, files' = files \ S,
           bytes' = Release(S)
    PROVE  SpoolAccounted' /\ bytes' \in [file : Int, preview : Int]
<1>1. ASSUME NEW T, IsFiniteSet(T)
      PROVE  /\ Cardinality(files' \cap T) =
                   Cardinality(files \cap T) - Cardinality(S \cap T)
             /\ Cardinality(files \cap T) \in Nat /\ Cardinality(S \cap T) \in Nat
  <2>1. IsFiniteSet(files \cap T)
    BY <1>1, FS_Intersection
  <2>2. Cardinality((files \cap T) \ (S \cap T)) = Cardinality(files \cap T)
           - Cardinality((files \cap T) \cap (S \cap T))
    BY <2>1, FS_Difference
  <2>3. (files \cap T) \ (S \cap T) = files' \cap T
    OBVIOUS
  <2>4. (files \cap T) \cap (S \cap T) = S \cap T
    OBVIOUS
  <2>5. Cardinality(files \cap T) \in Nat /\ Cardinality(S \cap T) \in Nat
    BY <1>1, Sizes
  <2> QED BY <2>2, <2>3, <2>4, <2>5
<1>2. IsFiniteSet(Picks) /\ IsFiniteSet(Previews)
  BY FilesAssumption
<1>3. /\ bytes'.file = bytes.file - Cardinality(S \cap Picks)
      /\ bytes'.preview = bytes.preview - Cardinality(S \cap Previews)
  BY DEF Release
<1>4. bytes' \in [file : Int, preview : Int]
  <2>1. Cardinality(files \cap Picks) \in Nat /\ Cardinality(S \cap Picks) \in Nat
    BY <1>1, <1>2
  <2>2. /\ Cardinality(files \cap Previews) \in Nat
        /\ Cardinality(S \cap Previews) \in Nat
    BY <1>1, <1>2
  <2> QED BY <2>1, <2>2 DEF Release, SpoolAccounted
<1> QED BY <1>1, <1>2, <1>3, <1>4 DEF SpoolAccounted

LEMMA PickCounts ==
    ASSUME SpoolAccounted, NEW p \in Picks, p \notin files,
           files' = files \cup {p}, bytes \in [file : Int, preview : Int],
           bytes' = [bytes EXCEPT !.file = @ + 1]
    PROVE  SpoolAccounted' /\ bytes' \in [file : Int, preview : Int]
<1>1. IsFiniteSet(files \cap Picks)
  BY FilesAssumption, FS_Intersection
<1>2. Cardinality((files \cap Picks) \cup {p}) = Cardinality(files \cap Picks) + 1
  BY <1>1, FS_AddElement
<1>3. (files \cap Picks) \cup {p} = files' \cap Picks
  OBVIOUS
<1>4. files' \cap Previews = files \cap Previews
  BY KindsApart
<1>5. /\ bytes' \in [file : Int, preview : Int]
      /\ bytes'.file = bytes.file + 1 /\ bytes'.preview = bytes.preview
  OBVIOUS
<1>6. Cardinality(files' \cap Picks) = Cardinality(files \cap Picks) + 1
  BY <1>2, <1>3
<1> QED BY <1>4, <1>5, <1>6 DEF SpoolAccounted

LEMMA PreviewCounts ==
    ASSUME SpoolAccounted, NEW v \in Previews, v \notin files,
           files' = files \cup {v}, bytes \in [file : Int, preview : Int],
           bytes' = [bytes EXCEPT !.preview = @ + 1]
    PROVE  SpoolAccounted' /\ bytes' \in [file : Int, preview : Int]
<1>1. IsFiniteSet(files \cap Previews)
  BY FilesAssumption, FS_Intersection
<1>2. Cardinality((files \cap Previews) \cup {v}) =
         Cardinality(files \cap Previews) + 1
  BY <1>1, FS_AddElement
<1>3. (files \cap Previews) \cup {v} = files' \cap Previews
  OBVIOUS
<1>4. files' \cap Picks = files \cap Picks
  BY KindsApart
<1> QED BY <1>2, <1>3, <1>4 DEF SpoolAccounted

\* A file that is no snapshot is not counted.
LEMMA SameCounts ==
    ASSUME SpoolAccounted, bytes' = bytes,
           \A s \in Snaps : s \in files' <=> s \in files
    PROVE  SpoolAccounted'
<1>1. files' \cap Picks = files \cap Picks /\ files' \cap Previews = files \cap Previews
  BY KindsApart
<1> QED BY <1>1 DEF SpoolAccounted

-----------------------------------------------------------------------------
\* Downloads.

\* The record that Done() leaves.
LEMMA DoneJob ==
    ASSUME job \in [Jobs -> JobRecords], NEW j \in Jobs,
           NEW why \in {None, "issued", "completed", "refused", "failed", "lost"}
    PROVE  \E x \in JobRecords :
              /\ Done(j, why) = [job EXCEPT ![j] = x]
              /\ x.pc = "done" /\ x.why = why /\ x.content = job[j].content
              /\ x.snap = job[j].snap /\ x.ok = job[j].ok /\ x.took = job[j].took
              /\ x.withdrawn = job[j].withdrawn
              /\ j \in Previews => x.lease = job[j].lease
<1> DEFINE x == [NoJob EXCEPT !.pc = "done", !.why = why,
        !.lease = IF j \in Previews THEN job[j].lease ELSE 0,
        !.content = job[j].content, !.snap = job[j].snap, !.ok = job[j].ok,
        !.withdrawn = job[j].withdrawn, !.took = job[j].took]
<1>1. /\ job[j].content \in Contents \cup {None} /\ job[j].snap \in Picks \cup {None}
      /\ job[j].lease \in Nat
  BY DEF JobRecords
<1>2. job[j].ok \in BOOLEAN /\ job[j].withdrawn \in BOOLEAN /\ job[j].took \in BOOLEAN
  BY DEF JobRecords
<1>3. TRUE \in BOOLEAN /\ FALSE \in BOOLEAN
  OBVIOUS
<1>4. x \in JobRecords
  <2>1. ASSUME NEW W, why \in W
        PROVE  x \in [pc : Running \cup {"idle", "done"}, epoch : Nat, lease : Nat,
                      content : Contents \cup {None}, snap : Picks \cup {None},
                      att : Uploads \cup {None}, first : BOOLEAN, ok : BOOLEAN,
                      aborted : BOOLEAN, withdrawn : BOOLEAN, took : BOOLEAN,
                      saw : Nat, why : W]
    BY <1>1, <1>2, <1>3, <2>1 DEF NoJob, None
  <2> QED BY <2>1 DEF JobRecords
<1>5. /\ x.pc = "done" /\ x.why = why /\ x.content = job[j].content
      /\ x.snap = job[j].snap /\ x.ok = job[j].ok /\ x.took = job[j].took
      /\ x.withdrawn = job[j].withdrawn /\ (j \in Previews => x.lease = job[j].lease)
  BY DEF NoJob
<1>6. Done(j, why) = [job EXCEPT ![j] = x]
  BY DEF Done
<1> HIDE DEF x
<1> QED BY <1>4, <1>5, <1>6

\* A download's own steps: only its record, its temporary file, its grant and
\* the user's file may change.
LEMMA DownloadAlone ==
    ASSUME FilesInv, NEW d \in Downloads, NEW x \in JobRecords,
           job' = [job EXCEPT ![d] = x], x.why # None => x.pc = "done",
           DownloadEnds(x, d \in grants'), grants' \ {d} \subseteq grants,
           files' \ {d} = files \ {d},
           UNCHANGED <<epoch, bytes, vault, cleanup, failed, server, shown>>,
           TargetFits'
    PROVE  FilesInv'
<1> USE KindsApart
<1>1. /\ job' \in [Jobs -> JobRecords] /\ job'[d] = x
      /\ \A k \in Jobs : k # d => job'[k] = job[k]
  BY OneJob DEF FilesInv, ShapesInv
<1>2. \A s \in Snaps : job'[s] = job[s] /\ (s \in files' <=> s \in files)
  BY <1>1
<1>3. \A u \in Uploads : job'[u] = job[u]
  BY <1>1
<1>4. ShapesInv'
  <2>1. \A j \in Jobs : job'[j].why # None => job'[j].pc = "done"
    BY <1>1 DEF FilesInv, ShapesInv
  <2> QED BY <1>1, <2>1 DEF FilesInv, ShapesInv
<1>5. SpoolInv'
  <2>1. SpoolAccounted'
    BY SameCounts, <1>2 DEF FilesInv, SpoolInv
  <2> QED BY <1>2, <2>1 DEF FilesInv, SpoolInv, Unbound
<1>6. SnapshotsOwned'
  BY <1>2, <1>3 DEF FilesInv, SnapshotsOwned
<1>7. UploadsInv'
  <2>1. SUFFICES ASSUME NEW u \in Uploads PROVE UploadFits(u)'
    BY DEF UploadsInv
  <2>2. UploadFits(u) /\ job'[u] = job[u]
    BY <1>3 DEF FilesInv, UploadsInv
  <2>3. job[u].snap \in Picks => job'[job[u].snap] = job[job[u].snap]
    BY <1>2
  <2> QED BY <1>2, <2>2, <2>3 DEF UploadFits, UploadSteps
<1>8. SnapshotSentOnce'
  BY <1>3 DEF FilesInv, SnapshotSentOnce
<1>9. EndsInv'
  <2>1. \A e \in Downloads : DownloadEnds(job[e], e \in grants)'
    <3>1. SUFFICES ASSUME NEW e \in Downloads, e # d
                   PROVE  DownloadEnds(job'[e], e \in grants')
      BY <1>1
    <3>2. DownloadEnds(job[e], e \in grants) /\ job'[e] = job[e]
      BY <1>1, <3>1 DEF FilesInv, EndsInv
    <3> QED BY <3>1, <3>2 DEF DownloadEnds, DownloadSteps
  <2> QED BY <1>3, <2>1 DEF FilesInv, EndsInv
<1>10. PreviewsInv'
  BY <1>2 DEF FilesInv, PreviewsInv, PreviewFits, PreviewsServedToTheirSession
<1>11. ServerInv'
  <2>1. SUFFICES ASSUME NEW u \in Uploads
        PROVE  /\ job'[u].pc \in {"sign", "put", "sent", "close", "confirm"} =>
                     server[job'[u].att].state # None
               /\ job'[u].pc = "put" =>
                     server[job'[u].att].meta = job'[job'[u].snap].content
    BY <1>3 DEF FilesInv, ServerInv
  <2>2. UploadFits(u) /\ job'[u] = job[u]
    BY <1>3 DEF FilesInv, UploadsInv
  <2>3. job[u].pc = "put" => job'[job[u].snap] = job[job[u].snap]
    BY <1>2, <2>2 DEF UploadFits, UploadSteps
  <2> QED BY <2>2, <2>3 DEF FilesInv, ServerInv
<1> QED BY <1>4, <1>5, <1>6, <1>7, <1>8, <1>9, <1>10, <1>11 DEF FilesInv

\* A download ends: its record says no more than it did.
LEMMA DownloadDone ==
    ASSUME FilesInv, NEW d \in Downloads,
           NEW why \in {"completed", "refused", "failed"}, job' = Done(d, why),
           job[d].pc \in DownloadSteps, grants' = grants,
           files' \ {d} = files \ {d},
           UNCHANGED <<epoch, bytes, vault, cleanup, failed, server, target, shown>>
    PROVE  FilesInv'
<1>1. d \in Jobs /\ job \in [Jobs -> JobRecords]
  BY KindsApart DEF FilesInv, ShapesInv
<1>2. PICK x \in JobRecords : /\ Done(d, why) = [job EXCEPT ![d] = x]
           /\ x.pc = "done" /\ x.why = why /\ x.ok = job[d].ok
           /\ x.withdrawn = job[d].withdrawn
  BY DoneJob, <1>1
<1>3. DownloadEnds(job[d], d \in grants) /\ TargetFits'
  BY DEF FilesInv, EndsInv, TargetFits, TargetWhole
<1>4. DownloadEnds(x, d \in grants')
  BY <1>2, <1>3 DEF DownloadEnds, DownloadSteps
<1> QED BY <1>2, <1>3, <1>4, DownloadAlone

LEMMA DownloadBegins ==
    ASSUME FilesInv, NEW d \in Downloads, downloadAttachment(d)
    PROVE  FilesInv'
<1> DEFINE x == [NoJob EXCEPT !.pc = "dsign", !.epoch = epoch, !.lease = epoch]
<1>1. epoch \in Nat
  BY DEF FilesInv, ShapesInv
<1>2. TRUE \in BOOLEAN /\ FALSE \in BOOLEAN
  OBVIOUS
<1>3. x \in JobRecords
  BY <1>1, <1>2 DEF JobRecords, NoJob, None, Running, DownloadSteps
<1>4. x.pc = "dsign" /\ ~x.ok /\ ~x.withdrawn /\ x.why = None
  BY DEF NoJob
<1>5. job' = [job EXCEPT ![d] = x] /\ grants' = grants /\ files' = files
  BY DEF downloadAttachment
<1>6. UNCHANGED <<epoch, bytes, vault, cleanup, failed, server, target, shown>>
  BY DEF downloadAttachment
<1> HIDE DEF x
<1>7. DownloadEnds(x, d \in grants')
  BY <1>4 DEF DownloadEnds, DownloadSteps
<1>8. TargetFits'
  BY <1>6 DEF FilesInv, EndsInv, TargetFits, TargetWhole
<1> QED BY <1>3, <1>4, <1>5, <1>6, <1>7, <1>8, DownloadAlone

LEMMA DownloadSignedKeeps ==
    ASSUME FilesInv, NEW d \in Downloads, NEW out, NEW kind,
           DownloadSigned(d, out, kind)
    PROVE  FilesInv'
<1>1. /\ job[d].pc = "dsign" /\ files' = files
      /\ UNCHANGED <<epoch, bytes, vault, cleanup, failed, server, target, shown>>
  BY DEF DownloadSigned
<1>2. CASE job' = Done(d, "failed") /\ grants' = grants
  BY <1>1, <1>2, DownloadDone DEF DownloadSteps
<1>3. CASE job' = [job EXCEPT ![d].pc = "save"] /\ grants' = grants \cup {d}
  <2> DEFINE x == [job[d] EXCEPT !.pc = "save"]
  <2>1. job[d] \in JobRecords
    BY KindsApart DEF FilesInv, ShapesInv
  <2>2. x \in JobRecords
    BY <2>1 DEF JobRecords, Running, DownloadSteps
  <2>3. x.pc = "save" /\ x.ok = job[d].ok /\ x.withdrawn = job[d].withdrawn
           /\ x.why = job[d].why
    BY <2>1 DEF JobRecords
  <2>4. job' = [job EXCEPT ![d] = x]
    BY <1>3
  <2> HIDE DEF x
  <2>5. DownloadEnds(job[d], d \in grants) /\ TargetFits'
    BY <1>1 DEF FilesInv, EndsInv, TargetFits, TargetWhole
  <2>6. DownloadEnds(x, d \in grants')
    BY <1>1, <2>3, <2>5 DEF DownloadEnds, DownloadSteps
  <2>7. x.why = None
    BY <1>1, <2>3, KindsApart DEF FilesInv, ShapesInv
  <2> QED BY <1>1, <1>3, <2>2, <2>4, <2>5, <2>6, <2>7, DownloadAlone
<1> QED BY <1>2, <1>3 DEF DownloadSigned

LEMMA SavedKeeps ==
    ASSUME FilesInv, NEW d \in Downloads, Saved(d)
    PROVE  FilesInv'
<1>1. /\ job[d].pc = "save" /\ files' \ {d} = files \ {d}
      /\ UNCHANGED <<epoch, bytes, vault, cleanup, failed, server, target, shown>>
  BY DEF Saved
<1>2. CASE job' = Done(d, "failed") /\ grants' = grants
  BY <1>1, <1>2, DownloadDone DEF DownloadSteps
<1>3. CASE job' = Done(d, "refused") /\ grants' = grants
  BY <1>1, <1>3, DownloadDone DEF DownloadSteps
<1>4. CASE /\ grants' = grants \ {d}
           /\ job' = [job EXCEPT ![d] = [@ EXCEPT !.saw = target.id,
                        !.pc = IF d \in grants THEN "fetch" ELSE "cleanup"]]
  <2> DEFINE x == [job[d] EXCEPT !.saw = target.id,
                        !.pc = IF d \in grants THEN "fetch" ELSE "cleanup"]
  <2>1. job[d] \in JobRecords /\ target.id \in Nat
    BY KindsApart DEF FilesInv, ShapesInv, EndsInv, TargetFits, TargetWhole
  <2>2. x \in JobRecords
    BY <2>1 DEF JobRecords, Running, DownloadSteps
  <2>3. /\ x.pc = IF d \in grants THEN "fetch" ELSE "cleanup"
        /\ x.ok = job[d].ok /\ x.withdrawn = job[d].withdrawn
        /\ x.why = job[d].why
    BY <2>1 DEF JobRecords
  <2>4. job' = [job EXCEPT ![d] = x]
    BY <1>4
  <2> HIDE DEF x
  <2>5. DownloadEnds(job[d], d \in grants) /\ TargetFits'
    BY <1>1 DEF FilesInv, EndsInv, TargetFits, TargetWhole
  <2>6. DownloadEnds(x, d \in grants')
    BY <1>1, <2>3, <2>5 DEF DownloadEnds, DownloadSteps
  <2>7. x.why = None
    BY <1>1, <2>3, KindsApart DEF FilesInv, ShapesInv
  <2> QED BY <1>1, <1>4, <2>2, <2>4, <2>5, <2>6, <2>7, DownloadAlone
<1> QED BY <1>2, <1>3, <1>4 DEF Saved

LEMMA FetchedKeeps ==
    ASSUME FilesInv, NEW d \in Downloads, NEW out, Fetched(d, out)
    PROVE  FilesInv'
<1>0. PICK b \in BOOLEAN : b = (out = "whole")
  OBVIOUS
<1> DEFINE x == [job[d] EXCEPT !.ok = b,
                     !.pc = IF writeResponse(out) THEN "verify" ELSE "cleanup"]
<1>1. /\ job[d].pc = "fetch" /\ files' = files /\ grants' = grants
      /\ job[d].aborted => out = "error"
      /\ UNCHANGED <<epoch, bytes, vault, cleanup, failed, server, target, shown>>
      /\ job' = [job EXCEPT ![d] = x]
  BY <1>0 DEF Fetched
<1>2. job[d] \in JobRecords
  BY KindsApart DEF FilesInv, ShapesInv
<1>4. x \in JobRecords
  BY <1>2 DEF JobRecords, Running, DownloadSteps
<1>5. /\ x.pc \in {"verify", "cleanup"} /\ (x.pc = "verify" => out = "whole")
      /\ x.withdrawn = job[d].withdrawn /\ x.why = job[d].why
  BY <1>2 DEF JobRecords, writeResponse
<1>6. x.ok <=> out = "whole"
  BY <1>0, <1>2 DEF JobRecords
<1> HIDE DEF x
<1>7. DownloadEnds(job[d], d \in grants) /\ TargetFits'
  BY <1>1 DEF FilesInv, EndsInv, TargetFits, TargetWhole
<1>8. DownloadEnds(x, d \in grants')
  BY <1>1, <1>5, <1>6, <1>7 DEF DownloadEnds, DownloadSteps
<1>9. x.why = None
  BY <1>1, <1>5, KindsApart DEF FilesInv, ShapesInv
<1> QED BY <1>1, <1>4, <1>7, <1>8, <1>9, DownloadAlone

\* The temporary file is verified, renamed or removed: what has come stays.
LEMMA DownloadMoves ==
    ASSUME FilesInv, NEW d \in Downloads, NEW pc \in {"rename", "cleanup"},
           job[d].pc \in {"verify", "rename"}, job' = [job EXCEPT ![d].pc = pc],
           grants' = grants, files' \ {d} = files \ {d}, TargetFits',
           UNCHANGED <<epoch, bytes, vault, cleanup, failed, server, shown>>
    PROVE  FilesInv'
<1> DEFINE x == [job[d] EXCEPT !.pc = pc]
<1>1. job[d] \in JobRecords
  BY KindsApart DEF FilesInv, ShapesInv
<1>2. x \in JobRecords
  BY <1>1 DEF JobRecords, Running, DownloadSteps
<1>3. /\ x.pc = pc /\ x.ok = job[d].ok /\ x.withdrawn = job[d].withdrawn
      /\ x.why = job[d].why
  BY <1>1 DEF JobRecords
<1>4. job' = [job EXCEPT ![d] = x]
  OBVIOUS
<1> HIDE DEF x
<1>5. DownloadEnds(job[d], d \in grants)
  BY DEF FilesInv, EndsInv
<1>6. DownloadEnds(x, d \in grants')
  BY <1>3, <1>5 DEF DownloadEnds, DownloadSteps
<1>7. x.why = None
  BY <1>3, KindsApart DEF FilesInv, ShapesInv
<1> QED BY <1>2, <1>4, <1>6, <1>7, DownloadAlone

LEMMA VerifiedKeeps ==
    ASSUME FilesInv, NEW d \in Downloads, Verified(d)
    PROVE  FilesInv'
<1>1. TargetFits'
  BY DEF Verified, FilesInv, EndsInv, TargetFits, TargetWhole
<1>2. CASE target.id = job[d].saw
  <2>1. job' = [job EXCEPT ![d].pc = "rename"]
    BY <1>2 DEF Verified
  <2> QED BY <1>1, <2>1, DownloadMoves DEF Verified
<1>3. CASE target.id # job[d].saw
  <2>1. job' = [job EXCEPT ![d].pc = "cleanup"]
    BY <1>3 DEF Verified
  <2> QED BY <1>1, <2>1, DownloadMoves DEF Verified
<1> QED BY <1>2, <1>3

\* Only a body that has been read to its end is renamed.
LEMMA RenamedKeeps ==
    ASSUME FilesInv, NEW d \in Downloads, Renamed(d)
    PROVE  FilesInv'
<1>1. DownloadEnds(job[d], d \in grants) /\ job[d] \in JobRecords
  BY KindsApart DEF FilesInv, EndsInv, ShapesInv
<1>2. job[d].ok = TRUE
  BY <1>1 DEF DownloadEnds, Renamed, JobRecords
<1>3. TargetFits'
  BY <1>2 DEF Renamed, FilesInv, EndsInv, TargetFits, TargetWhole
<1> QED BY <1>3, DownloadMoves DEF Renamed

LEMMA CleanedUpKeeps ==
    ASSUME FilesInv, NEW d \in Downloads, NEW ok \in BOOLEAN, CleanedUp(d, ok)
    PROVE  FilesInv'
<1>1. /\ job[d].pc \in DownloadSteps /\ files' \ {d} = files \ {d}
      /\ UNCHANGED <<epoch, bytes, vault, cleanup, failed, server, target, shown>>
      /\ grants' = grants
  BY DEF CleanedUp, DownloadSteps
<1>2. \E why \in {"completed", "failed"} : job' = Done(d, why)
  BY DEF CleanedUp
<1> QED BY <1>1, <1>2, DownloadDone

LEMMA DownloadKeeps ==
    ASSUME FilesInv, NEW d \in Downloads, DownloadStep(d)
    PROVE  FilesInv'
BY DownloadSignedKeeps, FetchedKeeps, SavedKeeps, VerifiedKeeps, RenamedKeeps,
   CleanedUpKeeps DEF DownloadStep

-----------------------------------------------------------------------------
\* What withdraws every transfer.

Alike(x, y) ==
    /\ x.pc = y.pc /\ x.epoch = y.epoch /\ x.content = y.content
    /\ x.snap = y.snap /\ x.att = y.att /\ x.ok = y.ok /\ x.took = y.took
    /\ x.why = y.why

\* abortAll() only tells the registered transfers.
LEMMA Aborted ==
    ASSUME NEW f \in [Jobs -> JobRecords]
    PROVE  /\ abortAll(f) \in [Jobs -> JobRecords]
           /\ \A j \in Jobs :
                 /\ Alike(abortAll(f)[j], f[j]) /\ abortAll(f)[j].lease = f[j].lease
                 /\ abortAll(f)[j].aborted <=> f[j].aborted \/ f[j].pc \in Registered
                 /\ abortAll(f)[j].withdrawn <=>
                       f[j].withdrawn \/ f[j].pc \in {"put", "save", "fetch"}
<1>1. ASSUME NEW j \in Jobs
      PROVE  /\ abortAll(f)[j] \in JobRecords
             /\ Alike(abortAll(f)[j], f[j]) /\ abortAll(f)[j].lease = f[j].lease
             /\ abortAll(f)[j].aborted <=> f[j].aborted \/ f[j].pc \in Registered
             /\ abortAll(f)[j].withdrawn <=>
                   f[j].withdrawn \/ f[j].pc \in {"put", "save", "fetch"}
  <2>1. f[j] \in JobRecords
    BY <1>1
  <2>2. PICK a \in BOOLEAN : a = (f[j].aborted \/ f[j].pc \in Registered)
    OBVIOUS
  <2>3. PICK w \in BOOLEAN :
           w = (f[j].withdrawn \/ f[j].pc \in {"put", "save", "fetch"})
    OBVIOUS
  <2> DEFINE x == [f[j] EXCEPT !.aborted = a, !.withdrawn = w]
  <2>4. abortAll(f)[j] = x
    BY <2>2, <2>3, <1>1 DEF abortAll
  <2>5. x \in JobRecords
    BY <2>1 DEF JobRecords
  <2>6. /\ x.pc = f[j].pc /\ x.epoch = f[j].epoch /\ x.content = f[j].content
        /\ x.snap = f[j].snap /\ x.att = f[j].att /\ x.lease = f[j].lease
        /\ x.why = f[j].why
    BY <2>1 DEF JobRecords
  <2>7. x.ok = f[j].ok /\ x.took = f[j].took /\ x.aborted = a /\ x.withdrawn = w
    BY <2>1 DEF JobRecords
  <2> HIDE DEF x
  <2> QED BY <2>2, <2>3, <2>4, <2>5, <2>6, <2>7 DEF Alike
<1>2. abortAll(f) = [j \in Jobs |-> abortAll(f)[j]]
  BY DEF abortAll
<1> QED BY <1>1, <1>2

\* A withdrawal: registered transfers are aborted and grants dropped before
\* anything else runs; at most the lease of a request that waits moves on.
LEMMA Withdrawal ==
    ASSUME FilesInv, NEW f \in [Jobs -> JobRecords],
           \A j \in Jobs : /\ Alike(f[j], job[j])
                           /\ f[j].aborted = job[j].aborted
                           /\ f[j].withdrawn = job[j].withdrawn
                           /\ \/ f[j].lease = job[j].lease
                              \/ /\ job[j].pc \in {"sign", "dsign", "meta", "load"}
                                 /\ f[j].lease = epoch',
           job' = abortAll(f), grants' = {},
           epoch' \in Nat, epoch <= epoch',
           UNCHANGED <<files, bytes, vault, cleanup, failed, server, target, shown>>
    PROVE  FilesInv'
<1> USE KindsApart
<1>1. /\ job' \in [Jobs -> JobRecords]
      /\ \A j \in Jobs : /\ Alike(job'[j], job[j])
                         /\ job'[j].aborted <=> job[j].aborted \/ job[j].pc \in Registered
                         /\ job'[j].withdrawn <=>
                               job[j].withdrawn \/ job[j].pc \in {"put", "save", "fetch"}
                         /\ \/ job'[j].lease = job[j].lease
                            \/ /\ job[j].pc \in {"sign", "dsign", "meta", "load"}
                               /\ job'[j].lease = epoch'
  <2>1. job' \in [Jobs -> JobRecords]
    BY Aborted
  <2>2. SUFFICES ASSUME NEW j \in Jobs
                 PROVE  /\ Alike(job'[j], job[j])
                        /\ job'[j].aborted <=> job[j].aborted \/ job[j].pc \in Registered
                        /\ job'[j].withdrawn <=>
                              job[j].withdrawn \/ job[j].pc \in {"put", "save", "fetch"}
                        /\ \/ job'[j].lease = job[j].lease
                           \/ /\ job[j].pc \in {"sign", "dsign", "meta", "load"}
                              /\ job'[j].lease = epoch'
    BY <2>1
  <2>3. /\ Alike(job'[j], f[j]) /\ job'[j].lease = f[j].lease
        /\ job'[j].aborted <=> f[j].aborted \/ f[j].pc \in Registered
        /\ job'[j].withdrawn <=> f[j].withdrawn \/ f[j].pc \in {"put", "save", "fetch"}
    BY Aborted
  <2>4. Alike(f[j], job[j]) /\ f[j].aborted = job[j].aborted
           /\ f[j].withdrawn = job[j].withdrawn
    OBVIOUS
  <2>5. Alike(job'[j], job[j])
    BY <2>3, <2>4 DEF Alike
  <2>6. f[j].pc = job[j].pc
    BY <2>4 DEF Alike
  <2> QED BY <2>3, <2>4, <2>5, <2>6
<1>2. \A j \in Jobs : /\ job'[j].pc = job[j].pc /\ job'[j].epoch = job[j].epoch
                      /\ job'[j].content = job[j].content
                      /\ job'[j].snap = job[j].snap /\ job'[j].att = job[j].att
                      /\ job'[j].ok = job[j].ok /\ job'[j].took = job[j].took
                      /\ job'[j].why = job[j].why
  BY <1>1 DEF Alike
<1>3. epoch \in Nat \ {0}
  BY DEF FilesInv, ShapesInv
<1>4. ShapesInv'
  BY <1>1, <1>2, <1>3 DEF FilesInv, ShapesInv
<1>5. SpoolInv'
  <2>1. SpoolAccounted'
    BY SameCounts DEF FilesInv, SpoolInv
  <2> QED BY <1>2, <2>1 DEF FilesInv, SpoolInv
<1>6. SnapshotsOwned'
  BY <1>2 DEF FilesInv, SnapshotsOwned
<1>7. UploadsInv'
  <2>1. SUFFICES ASSUME NEW u \in Uploads PROVE UploadFits(u)'
    BY DEF UploadsInv
  <2>2. UploadFits(u)
    BY DEF FilesInv, UploadsInv
  <2>3. job[u].snap \in Picks => job'[job[u].snap].pc = job[job[u].snap].pc
    BY <1>2
  <2> QED BY <1>2, <2>2, <2>3 DEF UploadFits, UploadSteps
<1>8. SnapshotSentOnce'
  BY <1>2 DEF FilesInv, SnapshotSentOnce
<1>9. EndsInv'
  <2>1. ASSUME NEW u \in Uploads PROVE UploadEnds(job[u])'
    <3>1. UploadEnds(job[u]) /\ u \in Jobs
      BY DEF FilesInv, EndsInv
    <3>2. /\ job'[u].pc = job[u].pc /\ job'[u].ok = job[u].ok
          /\ job'[u].aborted <=> job[u].aborted \/ job[u].pc \in Registered
          /\ job'[u].withdrawn <=>
                job[u].withdrawn \/ job[u].pc \in {"put", "save", "fetch"}
      BY <1>1, <1>2, <3>1
    <3> QED BY <3>1, <3>2 DEF UploadEnds, UploadSteps, Registered
  <2>2. ASSUME NEW d \in Downloads PROVE DownloadEnds(job'[d], d \in grants')
    <3>1. DownloadEnds(job[d], d \in grants) /\ d \in Jobs
      BY DEF FilesInv, EndsInv
    <3>2. /\ job'[d].pc = job[d].pc /\ job'[d].ok = job[d].ok
          /\ job'[d].aborted <=> job[d].aborted \/ job[d].pc \in Registered
          /\ job'[d].withdrawn <=>
                job[d].withdrawn \/ job[d].pc \in {"put", "save", "fetch"}
      BY <1>1, <1>2, <3>1
    <3> QED BY <3>1, <3>2 DEF DownloadEnds, DownloadSteps, Registered
  <2> QED BY <2>1, <2>2 DEF FilesInv, EndsInv, TargetFits, TargetWhole
<1>10. PreviewsInv'
  <2>1. ASSUME NEW v \in Previews PROVE PreviewFits(v)'
    <3>1. PreviewFits(v) /\ (vault[v] # Unbound => job[v].pc = "done")
      BY DEF FilesInv, PreviewsInv, SpoolInv
    <3>2. vault[v] \in Nat /\ job[v].lease \in Nat /\ job[v].epoch \in Nat
      BY DEF FilesInv, ShapesInv, JobRecords, Bindings
    <3> QED BY <1>1, <1>2, <1>3, <3>1, <3>2 DEF PreviewFits
  <2> QED BY <2>1 DEF FilesInv, PreviewsInv, PreviewsServedToTheirSession
<1>11. ServerInv'
  <2>1. SUFFICES ASSUME NEW u \in Uploads
        PROVE  /\ job'[u].pc \in {"sign", "put", "sent", "close", "confirm"} =>
                     server[job'[u].att].state # None
               /\ job'[u].pc = "put" =>
                     server[job'[u].att].meta = job'[job'[u].snap].content
    BY <1>2 DEF FilesInv, ServerInv
  <2>2. UploadFits(u)
    BY DEF FilesInv, UploadsInv
  <2>3. job[u].pc = "put" => job'[job[u].snap].content = job[job[u].snap].content
    BY <1>2, <2>2 DEF UploadFits, UploadSteps
  <2> QED BY <1>2, <2>2, <2>3 DEF FilesInv, ServerInv
<1> QED BY <1>4, <1>5, <1>6, <1>7, <1>8, <1>9, <1>10, <1>11 DEF FilesInv

LEMMA PageLeft ==
    ASSUME FilesInv, LeavePage \/ SignOut \/ SignIn
    PROVE  FilesInv'
<1>1. job \in [Jobs -> JobRecords] /\ epoch \in Nat
  BY DEF FilesInv, ShapesInv
<1>2. \A j \in Jobs : Alike(job[j], job[j])
  BY DEF Alike
<1>3. job' = abortAll(job) /\ grants' = {}
  BY DEF LeavePage, SignOut, SignIn, invalidateAll
<1>4. UNCHANGED <<files, bytes, vault, cleanup, failed, server, target, shown>>
  BY DEF LeavePage, SignOut, SignIn
<1>5. epoch' \in Nat /\ epoch <= epoch'
  BY <1>1 DEF LeavePage, SignOut, SignIn
<1> QED BY <1>1, <1>2, <1>3, <1>4, <1>5, Withdrawal

\* A refresh moves the epoch, and the request that met it goes on under it.
LEMMA RefreshKeeps ==
    ASSUME FilesInv, NEW j \in Jobs, job[j].pc \in {"sign", "dsign", "meta", "load"},
           epoch' = epoch + 1, job' = abortAll(Refreshed(j)), grants' = {},
           UNCHANGED <<files, bytes, vault, cleanup, failed, server, target, shown>>
    PROVE  FilesInv'
<1>1. job \in [Jobs -> JobRecords] /\ epoch \in Nat
  BY DEF FilesInv, ShapesInv
<1> DEFINE x == [job[j] EXCEPT !.first = FALSE, !.lease = epoch + 1]
           f == Refreshed(j)
<1>2. epoch + 1 \in Nat /\ FALSE \in BOOLEAN /\ job[j] \in JobRecords
  BY <1>1
<1>3. x \in JobRecords
  BY <1>2 DEF JobRecords
<1>4. Alike(x, job[j]) /\ x.lease = epoch + 1
  BY <1>2 DEF JobRecords, Alike
<1>5. x.aborted = job[j].aborted /\ x.withdrawn = job[j].withdrawn
  BY <1>2 DEF JobRecords
<1>6. f = [job EXCEPT ![j] = x]
  BY DEF Refreshed
<1> HIDE DEF x, f
<1>7. /\ f \in [Jobs -> JobRecords] /\ f[j] = x
      /\ \A k \in Jobs : k # j => f[k] = job[k]
  BY <1>1, <1>3, <1>6
<1>8. \A k \in Jobs : /\ Alike(f[k], job[k]) /\ f[k].aborted = job[k].aborted
                      /\ f[k].withdrawn = job[k].withdrawn
                      /\ \/ f[k].lease = job[k].lease
                         \/ /\ job[k].pc \in {"sign", "dsign", "meta", "load"}
                            /\ f[k].lease = epoch'
  BY <1>4, <1>5, <1>7 DEF Alike
<1>9. job' = abortAll(f) /\ epoch' \in Nat /\ epoch <= epoch'
  BY <1>1 DEF f
<1> QED BY <1>7, <1>8, <1>9, Withdrawal

LEMMA RestExpiredKeeps ==
    ASSUME FilesInv, NEW j \in Jobs, RestExpired(j)
    PROVE  FilesInv'
BY RefreshKeeps DEF RestExpired, invalidateAll

-----------------------------------------------------------------------------
\* The vaults and the removals; no operation moves.

\* What hangs on the operations alone.
LEMMA SameJobs ==
    ASSUME FilesInv, job' = job, epoch' = epoch, server' = server
    PROVE  SnapshotSentOnce' /\ ServerInv'
           /\ ((shown' = shown /\ vault' = vault) => PreviewsInv')
           /\ ((target' = target /\ grants' = grants) => EndsInv')
BY DEF FilesInv, SnapshotSentOnce, ServerInv, PreviewsInv, EndsInv, PreviewFits,
       PreviewsServedToTheirSession, TargetFits, TargetWhole

\* Entries leave the vaults, and the removal of their files is scheduled.
LEMMA EntriesDropped ==
    ASSUME FilesInv, NEW S \in SUBSET Snaps,
           \A s \in S : vault[s] # Unbound,
           vault' = [s \in Snaps |-> IF s \in S THEN Unbound ELSE vault[s]],
           cleanup' = cleanup \cup S,
           UNCHANGED <<epoch, job, files, bytes, failed>>
    PROVE  /\ ShapesInv' /\ SpoolInv' /\ SnapshotsOwned' /\ UploadsInv'
           /\ \A v \in Previews : PreviewFits(v)'
<1> USE KindsApart
<1>0. vault \in [Snaps -> Nat] /\ Unbound \in Nat
  BY DEF FilesInv, ShapesInv, Bindings, Unbound
<1>1. \A s \in Snaps : vault'[s] = IF s \in S THEN Unbound ELSE vault[s]
  OBVIOUS
<1>2. vault' \in [Snaps -> Nat]
  BY <1>0
<1>3. ShapesInv'
  BY <1>2 DEF FilesInv, ShapesInv, Bindings
<1>4. SpoolInv'
  <2>1. SpoolAccounted'
    BY SameCounts DEF FilesInv, SpoolInv
  <2> QED BY <1>1, <2>1 DEF FilesInv, SpoolInv
<1>5. SnapshotsOwned'
  BY <1>1 DEF FilesInv, SnapshotsOwned
<1>6. UploadsInv'
  <2>1. SUFFICES ASSUME NEW u \in Uploads PROVE UploadFits(u)'
    BY DEF UploadsInv
  <2>2. UploadFits(u)
    BY DEF FilesInv, UploadsInv
  <2> QED BY <1>1, <2>2 DEF UploadFits, UploadSteps
<1>7. ASSUME NEW v \in Previews PROVE PreviewFits(v)'
  BY <1>1 DEF FilesInv, PreviewsInv, PreviewFits
<1> QED BY <1>3, <1>4, <1>5, <1>6, <1>7

LEMMA ChainKeeps ==
    ASSUME FilesInv, ChainRuns
    PROVE  FilesInv'
<1> DEFINE held == {s \in Snaps : vault[s] # Unbound}
<1>1. UNCHANGED <<epoch, job, files, bytes, failed, server, target, shown, grants>>
  BY DEF ChainRuns
<1>2. SnapshotSentOnce' /\ ServerInv' /\ EndsInv'
  BY <1>1, SameJobs
<1>3. PreviewsServedToTheirSession'
  BY <1>1 DEF FilesInv, PreviewsInv, PreviewsServedToTheirSession
<1>4. \E S \in SUBSET Snaps :
         /\ \A s \in S : vault[s] # Unbound
         /\ vault' = [s \in Snaps |-> IF s \in S THEN Unbound ELSE vault[s]]
         /\ cleanup' = cleanup \cup S
  <2>1. CASE chain.at = "rejected"
    <3>1. vault' = vault /\ cleanup' = cleanup
      BY <2>1 DEF ChainRuns
    <3>2. vault \in [Snaps -> Nat]
      BY DEF FilesInv, ShapesInv, Bindings
    <3>3. vault' = [s \in Snaps |-> IF s \in {} THEN Unbound ELSE vault[s]]
      BY <3>1, <3>2
    <3>4. cleanup' = cleanup \cup {} /\ {} \in SUBSET Snaps
             /\ \A s \in {} : vault[s] # Unbound
      BY <3>1
    <3> QED BY <3>3, <3>4, Zenon
  <2>2. CASE chain.at # "rejected"
    <3>1. vault' = [s \in Snaps |-> Unbound] /\ cleanup' = cleanup \cup held
      BY <2>2 DEF ChainRuns, Schedule
    <3>2. vault' = [s \in Snaps |-> IF s \in held THEN Unbound ELSE vault[s]]
      BY <3>1
    <3> QED BY <3>1, <3>2
  <2> QED BY <2>1, <2>2
<1>5. /\ ShapesInv' /\ SpoolInv' /\ SnapshotsOwned' /\ UploadsInv'
      /\ \A v \in Previews : PreviewFits(v)'
  BY <1>1, <1>4, EntriesDropped
<1> QED BY <1>2, <1>3, <1>5 DEF FilesInv, PreviewsInv

\* take() of one entry.
LEMMA TakeOne ==
    ASSUME FilesInv, NEW s \in Snaps, vault[s] # Unbound, vault' = take(s),
           cleanup' = cleanup \cup {s},
           UNCHANGED <<epoch, job, files, bytes, failed>>
    PROVE  /\ ShapesInv' /\ SpoolInv' /\ SnapshotsOwned' /\ UploadsInv'
           /\ \A v \in Previews : PreviewFits(v)'
<1>1. vault \in [Snaps -> Nat]
  BY DEF FilesInv, ShapesInv, Bindings
<1>2. vault' = [t \in Snaps |-> IF t \in {s} THEN Unbound ELSE vault[t]]
  BY <1>1 DEF take
<1> QED BY <1>2, EntriesDropped

LEMMA ReleaseKeeps ==
    ASSUME FilesInv, NEW v \in Previews, ReleasePreview(v)
    PROVE  FilesInv'
<1>1. /\ UNCHANGED <<epoch, job, files, bytes, failed, server, target, shown, grants>>
      /\ vault[v] # Unbound /\ vault' = take(v) /\ cleanup' = cleanup \cup {v}
  BY DEF ReleasePreview
<1>2. SnapshotSentOnce' /\ ServerInv' /\ EndsInv'
  BY <1>1, SameJobs
<1>3. PreviewsServedToTheirSession'
  BY <1>1 DEF FilesInv, PreviewsInv, PreviewsServedToTheirSession
<1>4. /\ ShapesInv' /\ SpoolInv' /\ SnapshotsOwned' /\ UploadsInv'
      /\ \A w \in Previews : PreviewFits(w)'
  BY <1>1, TakeOne, KindsApart
<1> QED BY <1>2, <1>3, <1>4 DEF FilesInv, PreviewsInv

\* The protocol handler serves an entry of today's epoch: its lease lies
\* between the entry's epoch and today's, so it is today's as well.
LEMMA ResolveKeeps ==
    ASSUME FilesInv, NEW v \in Previews, Resolve(v)
    PROVE  FilesInv'
<1>1. UNCHANGED <<epoch, job, files, bytes, failed, server, target, grants>>
  BY DEF Resolve
<1>2. SnapshotSentOnce' /\ ServerInv' /\ EndsInv'
  BY <1>1, SameJobs
<1>3. CASE Resolvable(v)
  <2>1. shown' = [of |-> job[v].lease, at |-> epoch] /\ vault' = vault
           /\ cleanup' = cleanup
    BY <1>3 DEF Resolve
  <2>2. vault[v] = epoch /\ PreviewFits(v) /\ vault[v] # Unbound
    BY <1>3 DEF Resolve, Resolvable, Valid, FilesInv, PreviewsInv
  <2>3. epoch \in Nat /\ job[v].lease \in Nat
    BY KindsApart DEF FilesInv, ShapesInv, JobRecords
  <2>4. PreviewsServedToTheirSession'
    BY <2>1, <2>2, <2>3 DEF PreviewFits, PreviewsServedToTheirSession
  <2>5. \A w \in Previews : PreviewFits(w)'
    BY <1>1, <2>1 DEF FilesInv, PreviewsInv, PreviewFits
  <2>6. ShapesInv'
    BY <1>1, <2>1 DEF FilesInv, ShapesInv
  <2>7. SpoolInv' /\ SnapshotsOwned'
    <3>1. SpoolAccounted'
      BY <1>1, SameCounts DEF FilesInv, SpoolInv
    <3> QED BY <1>1, <2>1, <3>1 DEF FilesInv, SpoolInv, SnapshotsOwned
  <2>8. UploadsInv'
    BY <1>1, <2>1 DEF FilesInv, UploadsInv, UploadFits
  <2> QED BY <1>2, <2>4, <2>5, <2>6, <2>7, <2>8 DEF FilesInv, PreviewsInv
<1>4. CASE ~Resolvable(v)
  <2>1. /\ vault[v] # Unbound /\ vault' = take(v) /\ cleanup' = cleanup \cup {v}
        /\ shown' = shown
    BY <1>4 DEF Resolve
  <2>2. PreviewsServedToTheirSession'
    BY <2>1 DEF FilesInv, PreviewsInv, PreviewsServedToTheirSession
  <2>3. /\ ShapesInv' /\ SpoolInv' /\ SnapshotsOwned' /\ UploadsInv'
        /\ \A w \in Previews : PreviewFits(w)'
    BY <1>1, <2>1, TakeOne, KindsApart
  <2> QED BY <1>2, <2>2, <2>3 DEF FilesInv, PreviewsInv
<1> QED BY <1>3, <1>4

\* Only files whose removal is scheduled or has failed go, and what stays of
\* them stays scheduled or remembered.
LEMMA FilesRemoved ==
    ASSUME FilesInv, NEW S, S \subseteq cleanup \cup failed, files' = files \ S,
           SpoolAccounted', bytes' \in [file : Int, preview : Int],
           cleanup' \subseteq cleanup \ S,
           failed' \subseteq ((cleanup \cup failed) \ S) \cap Picks,
           cleanup' \cap failed' = {},
           ((cleanup \cup failed) \ S) \cap Picks \subseteq cleanup' \cup failed',
           UNCHANGED <<epoch, job, vault, grants, server, target, shown>>
    PROVE  FilesInv'
<1> USE KindsApart
<1>1. cleanup \subseteq files \cap Snaps /\ failed \subseteq files \cap Picks
  BY DEF FilesInv, SpoolInv
<1>2. cleanup' \cup failed' \subseteq cleanup \cup failed
  OBVIOUS
<1>3. SnapshotSentOnce' /\ ServerInv' /\ PreviewsInv' /\ EndsInv'
  BY SameJobs
<1>4. ShapesInv'
  BY DEF FilesInv, ShapesInv
<1>5. SpoolInv'
  <2>1. cleanup' \subseteq files' \cap Snaps /\ failed' \subseteq files' \cap Picks
    BY <1>1
  <2>2. ASSUME NEW s \in Snaps, vault[s] # Unbound
        PROVE  job[s].pc = "done" /\ s \in files' /\ s \notin cleanup' \cup failed'
    <3>1. job[s].pc = "done" /\ s \in files /\ s \notin cleanup \cup failed
      BY <2>2 DEF FilesInv, SpoolInv
    <3> QED BY <1>2, <3>1
  <2>3. ASSUME NEW p \in Picks
        PROVE  /\ job[p].pc \in {"idle", "dialog"} => p \notin files'
               /\ job[p].pc \in {"dialog", "copy"} => job[p].epoch # 0
               /\ job[p].pc = "copy" => p \in files' /\ p \notin cleanup' \cup failed'
    BY <1>2 DEF FilesInv, SpoolInv
  <2>4. ASSUME NEW v \in Previews, job[v].pc # "done" PROVE v \notin files'
    BY <2>4 DEF FilesInv, SpoolInv
  <2> QED BY <2>1, <2>2, <2>3, <2>4 DEF SpoolInv
<1>6. SnapshotsOwned'
  <2>1. SUFFICES ASSUME NEW p \in files' \cap Picks
        PROVE  \/ job[p].pc = "copy" \/ vault[p] # Unbound \/ p \in cleanup' \cup failed'
               \/ job[p].why = "lost"
               \/ \E u \in Uploads : job[u].took /\ job[u].snap = p
                       /\ (job[u].pc # "done" \/ job[u].why = "failed")
    BY DEF SnapshotsOwned
  <2>2. p \in files \cap Picks /\ p \notin S
    OBVIOUS
  <2> QED BY <2>2 DEF FilesInv, SnapshotsOwned
<1>7. UploadsInv'
  <2>1. SUFFICES ASSUME NEW u \in Uploads PROVE UploadFits(u)'
    BY DEF UploadsInv
  <2>2. UploadFits(u)
    BY DEF FilesInv, UploadsInv
  <2> QED BY <1>2, <2>2 DEF UploadFits
<1> QED BY <1>3, <1>4, <1>5, <1>6, <1>7 DEF FilesInv

LEMMA RemovedKeeps ==
    ASSUME FilesInv, NEW s \in Snaps, NEW ok \in BOOLEAN, Removed(s, ok)
    PROVE  FilesInv'
<1>1. /\ UNCHANGED <<epoch, job, vault, grants, server, target, shown>>
      /\ s \in cleanup /\ cleanup' = cleanup \ {s}
  BY DEF Removed
<1>2. cleanup \subseteq files \cap Snaps /\ failed \subseteq files \cap Picks
         /\ cleanup \cap failed = {} /\ SpoolAccounted
         /\ bytes \in [file : Int, preview : Int]
  BY DEF FilesInv, SpoolInv, ShapesInv
<1>3. CASE ok
  <2>1. files' = files \ {s} /\ bytes' = Release({s}) /\ failed' = failed
    BY <1>3 DEF Removed
  <2>2. {s} \subseteq files
    BY <1>1, <1>2
  <2>3. SpoolAccounted' /\ bytes' \in [file : Int, preview : Int]
    BY <1>2, <2>1, <2>2, ReleaseCounts
  <2> QED BY <1>1, <1>2, <2>1, <2>3, FilesRemoved
<1>4. CASE ~ok
  <2>1. files' = files /\ bytes' = bytes /\ failed' = failed \cup ({s} \cap Picks)
    BY <1>4 DEF Removed
  <2>2. SpoolAccounted'
    BY <1>2, <2>1, SameCounts
  <2>3. files' = files \ {}
    BY <2>1
  <2> QED BY <1>1, <1>2, <2>1, <2>2, <2>3, FilesRemoved
<1> QED BY <1>3, <1>4

LEMMA DrainedKeeps ==
    ASSUME FilesInv, NEW again \in SUBSET failed, Drained(again)
    PROVE  FilesInv'
<1>1. /\ UNCHANGED <<epoch, job, vault, grants, cleanup, server, target, shown>>
      /\ files' = files \ (failed \ again) /\ bytes' = Release(failed \ again)
      /\ failed' = again
  BY DEF Drained
<1>2. /\ cleanup \subseteq files \cap Snaps /\ failed \subseteq files \cap Picks
      /\ cleanup \cap failed = {} /\ SpoolAccounted
  BY DEF FilesInv, SpoolInv
<1>3. failed \ again \subseteq files
  BY <1>2
<1>4. SpoolAccounted' /\ bytes' \in [file : Int, preview : Int]
  BY <1>1, <1>2, <1>3, ReleaseCounts
<1> QED BY <1>1, <1>2, <1>4, FilesRemoved

\* Nothing is said about what only these steps change.
LEMMA FilesAlone ==
    ASSUME FilesInv,
           UNCHANGED <<epoch, job, files, bytes, vault, cleanup, failed, server,
                       shown>>,
           grants' \subseteq grants, TargetFits'
    PROVE  FilesInv'
<1>1. SnapshotSentOnce' /\ ServerInv' /\ PreviewsInv'
  BY SameJobs
<1>2. ShapesInv'
  BY DEF FilesInv, ShapesInv
<1>3. SpoolInv'
  <2>1. SpoolAccounted'
    BY SameCounts DEF FilesInv, SpoolInv
  <2> QED BY <2>1 DEF FilesInv, SpoolInv
<1>4. SnapshotsOwned' /\ UploadsInv'
  BY DEF FilesInv, SnapshotsOwned, UploadsInv, UploadFits
<1>5. EndsInv'
  BY DEF FilesInv, EndsInv, DownloadEnds
<1> QED BY <1>1, <1>2, <1>3, <1>4, <1>5 DEF FilesInv

LEMMA AloneKeeps ==
    ASSUME FilesInv,
           \/ UNCHANGED vars
           \/ ForeignFile \/ \E s \in Snaps : Expire(s)
           \/ \E d \in Downloads : GrantExpires(d)
    PROVE  FilesInv'
<1>1. /\ UNCHANGED <<epoch, job, files, bytes, vault, cleanup, failed, server, shown>>
      /\ grants' \subseteq grants
  BY DEF vars, state, ForeignFile, Expire, GrantExpires
<1>2. target' = target \/ target' = [id |-> target.id + 1, whole |-> TRUE]
  BY DEF vars, state, ForeignFile, Expire, GrantExpires
<1>3. TargetFits'
  BY <1>2 DEF FilesInv, EndsInv, TargetFits, TargetWhole
<1> QED BY <1>1, <1>3, FilesAlone

\* The next process finds empty spools and ended operations.
LEMMA RestartKeeps ==
    ASSUME FilesInv, Restart
    PROVE  FilesInv'
<1> USE KindsApart
<1> DEFINE x == [NoJob EXCEPT !.pc = "done"]
<1>1. job \in [Jobs -> JobRecords] /\ TRUE \in BOOLEAN /\ FALSE \in BOOLEAN
  BY DEF FilesInv, ShapesInv
<1>2. x \in JobRecords
  BY <1>1 DEF JobRecords, NoJob, None
<1>3. /\ x.pc = "done" /\ x.why = None /\ x.snap = None /\ ~x.took /\ ~x.ok
      /\ ~x.withdrawn
  BY DEF NoJob
<1>4. \A j \in Jobs : job'[j] = IF job[j].pc = "idle" THEN job[j] ELSE x
  BY DEF Restart
<1>5. job' = [j \in Jobs |-> job'[j]]
  BY DEF Restart
<1>6. /\ UNCHANGED <<epoch, server, target, shown>> /\ files' = files \ Snaps
      /\ bytes' = [file |-> 0, preview |-> 0] /\ grants' = {}
      /\ vault' = [s \in Snaps |-> Unbound] /\ cleanup' = {} /\ failed' = {}
  BY DEF Restart
<1> HIDE DEF x
<1>7. job' \in [Jobs -> JobRecords]
  BY <1>1, <1>2, <1>4, <1>5
<1>8. ShapesInv'
  <2>1. vault' \in [Snaps -> Nat]
    BY <1>6 DEF Unbound
  <2>2. \A j \in Jobs : job'[j].why # None => job'[j].pc = "done"
    BY <1>3, <1>4 DEF FilesInv, ShapesInv
  <2> QED BY <1>6, <1>7, <2>1, <2>2 DEF FilesInv, ShapesInv, Bindings
<1>9. SpoolInv'
  <2>1. files' \cap Picks = {} /\ files' \cap Previews = {}
    BY <1>6
  <2>2. Cardinality({}) = 0
    BY FS_EmptySet
  <2>3. SpoolAccounted'
    BY <1>6, <2>1, <2>2 DEF SpoolAccounted
  <2>4. \A s \in Snaps : s \notin files' /\ vault'[s] = Unbound
    BY <1>6
  <2>5. \A s \in Snaps : job'[s].pc \in {"idle", "done"}
    BY <1>3, <1>4
  <2> QED BY <1>6, <2>3, <2>4, <2>5 DEF SpoolInv
<1>10. SnapshotsOwned'
  BY <1>6 DEF SnapshotsOwned
<1>11. ASSUME NEW u \in Uploads
       PROVE  /\ UploadFits(u)' /\ UploadEnds(job'[u]) /\ ~job'[u].took
              /\ job'[u].pc \in {"idle", "done"}
              /\ (job'[u].pc = "idle" => job[u].pc = "idle")
  <2>1. u \in Jobs /\ UploadFits(u) /\ UploadEnds(job[u])
    BY DEF FilesInv, UploadsInv, EndsInv
  <2>2. CASE job[u].pc = "idle"
    BY <2>1, <2>2, <1>4 DEF UploadFits, UploadSteps
  <2>3. CASE job[u].pc # "idle"
    <3>1. job'[u] = x
      BY <1>4, <2>1, <2>3
    <3> QED BY <1>3, <2>3, <3>1 DEF UploadFits, UploadSteps, UploadEnds
  <2> QED BY <2>2, <2>3
<1>12. UploadsInv' /\ SnapshotSentOnce'
  BY <1>11 DEF UploadsInv, SnapshotSentOnce
<1>13. EndsInv'
  <2>1. ASSUME NEW d \in Downloads PROVE DownloadEnds(job'[d], d \in grants')
    <3>1. d \in Jobs /\ DownloadEnds(job[d], d \in grants)
      BY DEF FilesInv, EndsInv
    <3>2. job'[d] = IF job[d].pc = "idle" THEN job[d] ELSE x
      BY <1>4, <3>1
    <3> QED BY <1>3, <3>1, <3>2 DEF DownloadEnds, DownloadSteps
  <2>2. TargetFits'
    BY <1>6 DEF FilesInv, EndsInv, TargetFits, TargetWhole
  <2> QED BY <1>11, <2>1, <2>2 DEF EndsInv
<1>14. PreviewsInv'
  <2>1. ASSUME NEW v \in Previews PROVE PreviewFits(v)'
    <3>1. vault'[v] = Unbound /\ job'[v].pc \in {"idle", "done"}
      BY <1>3, <1>4, <1>6
    <3> QED BY <3>1 DEF PreviewFits
  <2> QED BY <1>6, <2>1 DEF FilesInv, PreviewsInv, PreviewsServedToTheirSession
<1>15. ServerInv'
  BY <1>6, <1>11 DEF FilesInv, ServerInv
<1> QED BY <1>8, <1>9, <1>10, <1>12, <1>13, <1>14, <1>15 DEF FilesInv

-----------------------------------------------------------------------------
\* Picks and previews: the steps that make a snapshot.

\* What a snapshot's operation must be like after its own step.
SnapFits(s, x) ==
    /\ vault'[s] # Unbound => x.pc = "done" /\ s \in files'
    /\ s \in Picks => /\ x.pc \in {"idle", "dialog"} => s \notin files'
                      /\ x.pc \in {"dialog", "copy"} => x.epoch # 0
                      /\ x.pc = "copy" => s \in files'
                      /\ s \in files' => x.pc = "copy" \/ vault'[s] # Unbound
                                         \/ x.why = "lost"
    /\ s \in Previews =>
          /\ x.pc # "done" => s \notin files'
          /\ x.pc \in {"meta", "load", "capture"} =>
                x.epoch # 0 /\ x.epoch <= x.lease /\ x.lease <= epoch
          /\ vault'[s] # Unbound => vault'[s] <= x.lease /\ x.lease <= epoch

\* No upload knows a snapshot whose operation has not ended; expired entries S
\* of its vault may be pruned in the same step.
LEMMA SnapAlone ==
    ASSUME FilesInv, NEW s \in Snaps, NEW x \in JobRecords,
           job' = [job EXCEPT ![s] = x], x.why # None => x.pc = "done",
           job[s].pc # "done", s \notin cleanup \cup failed, SnapFits(s, x),
           NEW S \in SUBSET (Snaps \ {s}), \A t \in S : vault[t] # Unbound,
           vault' \in [Snaps -> Nat],
           \A t \in Snaps : t # s =>
              vault'[t] = IF t \in S THEN Unbound ELSE vault[t],
           cleanup' = cleanup \cup S, failed' = failed,
           files' \ {s} = files \ {s}, SpoolAccounted',
           bytes' \in [file : Int, preview : Int],
           UNCHANGED <<epoch, grants, server, target, shown>>
    PROVE  FilesInv'
<1> USE KindsApart
<1>1. /\ job' \in [Jobs -> JobRecords] /\ job'[s] = x
      /\ \A k \in Jobs : k # s => job'[k] = job[k]
  BY OneJob DEF FilesInv, ShapesInv
<1>2. \A j \in Uploads \cup Downloads : job'[j] = job[j]
  BY <1>1
<1>3. \A t \in Jobs : t # s => (t \in files' <=> t \in files)
  OBVIOUS
<1>4. ShapesInv'
  <2>1. \A j \in Jobs : job'[j].why # None => job'[j].pc = "done"
    BY <1>1 DEF FilesInv, ShapesInv
  <2>2. files' \subseteq Jobs
    BY DEF FilesInv, ShapesInv
  <2> QED BY <1>1, <2>1, <2>2 DEF FilesInv, ShapesInv, Bindings
<1>5. ASSUME NEW t \in Snaps, t # s
      PROVE  /\ vault'[t] # Unbound => /\ vault'[t] = vault[t] /\ t \in files'
                                       /\ job'[t].pc = "done"
                                       /\ t \notin cleanup' \cup failed'
             /\ (t \in files' <=> t \in files) /\ job'[t] = job[t]
             /\ (t \in cleanup' <=> t \in cleanup \/ t \in S)
  <2>1. vault'[t] # Unbound => vault'[t] = vault[t] /\ t \notin S
    BY <1>5
  <2>2. vault[t] # Unbound => t \in files /\ job[t].pc = "done"
           /\ t \notin cleanup \cup failed
    BY DEF FilesInv, SpoolInv
  <2>3. job'[t] = job[t]
    BY <1>1, <1>5
  <2>4. t \in files' <=> t \in files
    BY <1>5
  <2> QED BY <2>1, <2>2, <2>3, <2>4
<1>6. SpoolInv'
  <2>1. cleanup' \subseteq files' \cap Snaps /\ failed' \subseteq files' \cap Picks
           /\ cleanup' \cap failed' = {}
    <3>1. \A t \in S : t \in files' /\ t \notin failed
      BY DEF FilesInv, SpoolInv
    <3> QED BY <3>1 DEF FilesInv, SpoolInv
  <2>2. ASSUME NEW t \in Snaps, vault'[t] # Unbound
        PROVE  job'[t].pc = "done" /\ t \in files' /\ t \notin cleanup' \cup failed'
    BY <1>1, <1>5, <2>2 DEF SnapFits
  <2>3. ASSUME NEW p \in Picks
        PROVE  /\ job'[p].pc \in {"idle", "dialog"} => p \notin files'
               /\ job'[p].pc \in {"dialog", "copy"} => job'[p].epoch # 0
               /\ job'[p].pc = "copy" => p \in files' /\ p \notin cleanup' \cup failed'
    <3>1. CASE p = s
      BY <1>1, <3>1 DEF SnapFits
    <3>2. CASE p # s
      <4>1. p \in S => job[p].pc = "done"
        BY DEF FilesInv, SpoolInv
      <4>2. job'[p] = job[p] /\ (p \in files' <=> p \in files)
               /\ (p \in cleanup' <=> p \in cleanup \/ p \in S)
        BY <1>5, <3>2
      <4> QED BY <4>1, <4>2 DEF FilesInv, SpoolInv
    <3> QED BY <3>1, <3>2
  <2>4. ASSUME NEW v \in Previews, job'[v].pc # "done" PROVE v \notin files'
    <3>1. CASE v = s
      BY <1>1, <2>4, <3>1 DEF SnapFits
    <3>2. CASE v # s
      BY <1>5, <2>4, <3>2 DEF FilesInv, SpoolInv
    <3> QED BY <3>1, <3>2
  <2> QED BY <2>1, <2>2, <2>3, <2>4 DEF SpoolInv
<1>7. SnapshotsOwned'
  <2>1. SUFFICES ASSUME NEW p \in files' \cap Picks
        PROVE  \/ job'[p].pc = "copy" \/ vault'[p] # Unbound
               \/ p \in cleanup' \cup failed' \/ job'[p].why = "lost"
               \/ \E u \in Uploads : job'[u].took /\ job'[u].snap = p
                       /\ (job'[u].pc # "done" \/ job'[u].why = "failed")
    BY DEF SnapshotsOwned
  <2>2. CASE p = s
    BY <1>1, <2>2 DEF SnapFits
  <2>3. CASE p # s
    <3>1. p \in files \cap Picks /\ job'[p] = job[p]
      BY <1>5, <2>3
    <3>2. \/ job[p].pc = "copy" \/ vault[p] # Unbound \/ p \in cleanup \cup failed
          \/ job[p].why = "lost"
          \/ \E u \in Uploads : job[u].took /\ job[u].snap = p
                  /\ (job[u].pc # "done" \/ job[u].why = "failed")
      BY <3>1 DEF FilesInv, SnapshotsOwned
    <3>3. vault[p] # Unbound => vault'[p] # Unbound \/ p \in cleanup'
      BY <2>3
    <3> QED BY <1>2, <3>1, <3>2, <3>3
  <2> QED BY <2>2, <2>3
<1>8. ASSUME NEW u \in Uploads
      PROVE  /\ UploadFits(u) /\ job'[u] = job[u]
             /\ job[u].pc \in {"create", "sign", "put", "sent", "close"} =>
                   job'[job[u].snap] = job[job[u].snap]
             /\ job[u].took => /\ job'[job[u].snap] = job[job[u].snap]
                               /\ vault'[job[u].snap] = Unbound
                               /\ job[u].snap \notin S /\ job[u].snap # s
  <2>1. UploadFits(u) /\ job'[u] = job[u]
    BY <1>2 DEF FilesInv, UploadsInv
  <2>2. job[u].took => job[u].snap \in Snaps /\ job[u].snap # s
           /\ vault[job[u].snap] = Unbound
    BY <2>1 DEF UploadFits
  <2>3. job[u].pc \in {"create", "sign", "put", "sent", "close"} =>
           job[u].snap \in Snaps /\ job[u].snap # s
    BY <2>1 DEF UploadFits, UploadSteps
  <2> QED BY <1>5, <2>1, <2>2, <2>3
<1>9. UploadsInv'
  <2>1. SUFFICES ASSUME NEW u \in Uploads PROVE UploadFits(u)'
    BY DEF UploadsInv
  <2>2. /\ UploadFits(u) /\ job'[u] = job[u]
        /\ job[u].pc \in {"create", "sign", "put", "sent", "close"} =>
                   job'[job[u].snap] = job[job[u].snap]
        /\ job[u].took => /\ job'[job[u].snap] = job[job[u].snap]
                          /\ vault'[job[u].snap] = Unbound
                          /\ job[u].snap \notin S /\ job[u].snap # s
    BY <1>8
  <2> QED BY <2>2 DEF UploadFits
<1>10. SnapshotSentOnce'
  BY <1>2 DEF FilesInv, SnapshotSentOnce
<1>11. EndsInv'
  BY <1>2 DEF FilesInv, EndsInv, TargetFits, TargetWhole
<1>12. PreviewsInv'
  <2>1. ASSUME NEW v \in Previews PROVE PreviewFits(v)'
    <3>1. CASE v = s
      BY <1>1, <3>1 DEF SnapFits, PreviewFits
    <3>2. CASE v # s
      <4>1. PreviewFits(v)
        BY DEF FilesInv, PreviewsInv
      <4> QED BY <1>5, <3>2, <4>1 DEF PreviewFits
    <3> QED BY <3>1, <3>2
  <2> QED BY <2>1 DEF FilesInv, PreviewsInv, PreviewsServedToTheirSession
<1>13. ServerInv'
  <2>1. SUFFICES ASSUME NEW u \in Uploads
        PROVE  /\ job'[u].pc \in {"sign", "put", "sent", "close", "confirm"} =>
                     server[job'[u].att].state # None
               /\ job'[u].pc = "put" =>
                     server[job'[u].att].meta = job'[job'[u].snap].content
    BY <1>2 DEF FilesInv, ServerInv
  <2> QED BY <1>8 DEF FilesInv, ServerInv
<1> QED BY <1>4, <1>6, <1>7, <1>9, <1>10, <1>11, <1>12, <1>13 DEF FilesInv

\* A snapshot's operation moves on, and its spool and vault do not.
LEMMA SnapMoves ==
    ASSUME FilesInv, NEW s \in Snaps, NEW x \in JobRecords,
           job' = [job EXCEPT ![s] = x], x.why # None => x.pc = "done",
           job[s].pc # "done", s \notin files, s \notin cleanup \cup failed,
           x.pc # "copy",
           s \in Picks /\ x.pc = "dialog" => x.epoch # 0,
           s \in Previews /\ x.pc \in {"meta", "load", "capture"} =>
              x.epoch # 0 /\ x.epoch <= x.lease /\ x.lease <= epoch,
           UNCHANGED <<epoch, files, bytes, vault, cleanup, failed, grants, server,
                       target, shown>>
    PROVE  FilesInv'
<1>1. vault' \in [Snaps -> Nat] /\ bytes' \in [file : Int, preview : Int]
  BY DEF FilesInv, ShapesInv, Bindings
<1>2. SpoolAccounted'
  BY SameCounts DEF FilesInv, SpoolInv
<1>3. vault'[s] = Unbound
  BY DEF FilesInv, SpoolInv
<1>4. SnapFits(s, x)
  BY <1>3, KindsApart DEF SnapFits
<1> DEFINE S == {}
<1>5. /\ S \in SUBSET (Snaps \ {s}) /\ \A t \in S : vault[t] # Unbound
      /\ \A t \in Snaps : t # s => vault'[t] = IF t \in S THEN Unbound ELSE vault[t]
      /\ cleanup' = cleanup \cup S
  OBVIOUS
<1> HIDE DEF S
<1> QED BY <1>1, <1>2, <1>4, <1>5, SnapAlone

\* Begin() takes an operation that has not been used.
LEMMA BeginIdle ==
    ASSUME NEW j, NEW S, Begin(j, S)
    PROVE  j \in S /\ job[j].pc = "idle"
BY DEF Begin

LEMMA ChooseKeeps ==
    ASSUME FilesInv, NEW p \in Picks, choose(p)
    PROVE  FilesInv'
<1> DEFINE x == [NoJob EXCEPT !.pc = "dialog", !.epoch = epoch]
<1>1. epoch \in Nat \ {0} /\ TRUE \in BOOLEAN /\ FALSE \in BOOLEAN
  BY DEF FilesInv, ShapesInv
<1>2. x \in JobRecords
  BY <1>1 DEF JobRecords, NoJob, None, Running, PickSteps
<1>3. x.pc = "dialog" /\ x.epoch = epoch /\ x.why = None
  BY DEF NoJob
<1>4. job' = [job EXCEPT ![p] = x] /\ Begin(p, Picks)
  BY DEF choose
<1>5. UNCHANGED <<epoch, files, bytes, vault, cleanup, failed, grants, server,
                  target, shown>>
  BY DEF choose
<1> HIDE DEF x
<1>6. p \in Snaps /\ p \notin Previews /\ job[p].pc = "idle"
  BY <1>4, BeginIdle, KindsApart
<1>7. p \notin files /\ p \notin cleanup \cup failed
  BY <1>6 DEF FilesInv, SpoolInv
<1> QED BY <1>1, <1>2, <1>3, <1>4, <1>5, <1>6, <1>7, SnapMoves

LEMMA CaptureKeeps ==
    ASSUME FilesInv, NEW p \in Picks, Capture(p)
    PROVE  FilesInv'
<1>1. p \in Snaps /\ p \in Jobs /\ p \notin Previews /\ job[p].pc = "dialog"
         /\ job \in [Jobs -> JobRecords]
  BY KindsApart DEF FilesInv, ShapesInv, Capture
<1>2. p \notin files /\ p \notin cleanup \cup failed
  BY <1>1 DEF FilesInv, SpoolInv
<1>3. UNCHANGED <<epoch, vault, cleanup, failed, grants, server, target, shown>>
  BY DEF Capture
<1>4. CASE /\ job' = Done(p, "refused") \/ job' = Done(p, "failed")
           /\ UNCHANGED <<files, bytes>>
  <2>1. PICK x \in JobRecords : job' = [job EXCEPT ![p] = x] /\ x.pc = "done"
    BY <1>1, <1>4, DoneJob
  <2> QED BY <1>1, <1>2, <1>3, <1>4, <2>1, SnapMoves
<1>5. CASE /\ \E c \in Contents :
                 job' = [job EXCEPT ![p] = [@ EXCEPT !.pc = "copy", !.content = c]]
           /\ files' = files \cup {p} /\ bytes' = [bytes EXCEPT !.file = @ + 1]
  <2>1. PICK c \in Contents :
           job' = [job EXCEPT ![p] = [@ EXCEPT !.pc = "copy", !.content = c]]
    BY <1>5
  <2> DEFINE x == [job[p] EXCEPT !.pc = "copy", !.content = c]
  <2>2. job[p] \in JobRecords
    BY <1>1
  <2>3. x \in JobRecords
    BY <2>2 DEF JobRecords, Running, PickSteps
  <2>4. x.pc = "copy" /\ x.epoch = job[p].epoch /\ x.why = job[p].why
    BY <2>2 DEF JobRecords
  <2>5. job' = [job EXCEPT ![p] = x]
    BY <2>1
  <2> HIDE DEF x
  <2>6. job[p].epoch # 0 /\ job[p].why = None
    BY <1>1 DEF FilesInv, SpoolInv, ShapesInv
  <2>7. SpoolAccounted' /\ bytes' \in [file : Int, preview : Int]
    BY <1>2, <1>5, PickCounts DEF FilesInv, SpoolInv, ShapesInv
  <2>8. vault' \in [Snaps -> Nat] /\ vault'[p] = Unbound
    BY <1>1, <1>2, <1>3 DEF FilesInv, ShapesInv, Bindings, SpoolInv
  <2>9. SnapFits(p, x)
    BY <1>1, <1>5, <2>4, <2>6, <2>8 DEF SnapFits
  <2> DEFINE S == {}
  <2>10. /\ S \in SUBSET (Snaps \ {p}) /\ \A t \in S : vault[t] # Unbound
         /\ \A t \in Snaps : t # p => vault'[t] = IF t \in S THEN Unbound ELSE vault[t]
         /\ cleanup' = cleanup \cup S
    BY <1>3
  <2>11. files' \ {p} = files \ {p}
    BY <1>5
  <2> HIDE DEF S
  <2> QED BY <1>1, <1>2, <1>3, <2>3, <2>4, <2>5, <2>6, <2>7, <2>8, <2>9, <2>10,
             <2>11, SnapAlone
<1> QED BY <1>4, <1>5 DEF Capture

\* issue(): a fresh entry, and the expired ones go.
LEMMA Issued ==
    ASSUME FilesInv, NEW s \in Snaps, vault[s] = Unbound, NEW K \in SUBSET Snaps,
           NEW e \in Nat, issue(s, K, e)
    PROVE  /\ Pruned(K) \in SUBSET (Snaps \ {s})
           /\ \A t \in Pruned(K) : vault[t] # Unbound
           /\ vault' \in [Snaps -> Nat] /\ vault'[s] = e
           /\ \A t \in Snaps : t # s =>
                 vault'[t] = IF t \in Pruned(K) THEN Unbound ELSE vault[t]
           /\ cleanup' = cleanup \cup Pruned(K)
<1>1. vault \in [Snaps -> Nat] /\ Unbound \in Nat
  BY DEF FilesInv, ShapesInv, Bindings, Unbound
<1>2. Pruned(K) \in SUBSET (Snaps \ {s}) /\ \A t \in Pruned(K) : vault[t] # Unbound
  BY DEF Pruned
<1>3. vault' = [t \in Snaps |-> IF t = s THEN e
                                ELSE IF t \in Pruned(K) THEN Unbound ELSE vault[t]]
      /\ cleanup' = cleanup \cup Pruned(K)
  BY DEF issue, Schedule
<1> QED BY <1>1, <1>2, <1>3

\* A full vault has pruned what has expired.
LEMMA PrunedAlone ==
    ASSUME FilesInv, NEW s \in Snaps, vault[s] = Unbound, NEW K \in SUBSET Snaps,
           pruneExpired(K)
    PROVE  /\ Pruned(K) \in SUBSET (Snaps \ {s})
           /\ \A t \in Pruned(K) : vault[t] # Unbound
           /\ vault' \in [Snaps -> Nat] /\ vault'[s] = Unbound
           /\ \A t \in Snaps : t # s =>
                 vault'[t] = IF t \in Pruned(K) THEN Unbound ELSE vault[t]
           /\ cleanup' = cleanup \cup Pruned(K)
<1>1. vault \in [Snaps -> Nat] /\ Unbound \in Nat
  BY DEF FilesInv, ShapesInv, Bindings, Unbound
<1>2. Pruned(K) \in SUBSET (Snaps \ {s}) /\ \A t \in Pruned(K) : vault[t] # Unbound
  BY DEF Pruned
<1>3. vault' = [t \in Snaps |-> IF t \in Pruned(K) THEN Unbound ELSE vault[t]]
      /\ cleanup' = cleanup \cup Pruned(K)
  BY DEF pruneExpired, Schedule
<1> QED BY <1>1, <1>2, <1>3

LEMMA CapturedKeeps ==
    ASSUME FilesInv, NEW p \in Picks,
           NEW out \in {"ok", "failed", "left", "source", "kept"}, Captured(p, out)
    PROVE  FilesInv'
<1>1. p \in Snaps /\ p \in Jobs /\ p \notin Previews /\ job[p].pc = "copy"
         /\ job \in [Jobs -> JobRecords] /\ Picks \in SUBSET Snaps
  BY KindsApart DEF FilesInv, ShapesInv, Captured
<1>2. p \in files /\ p \notin cleanup \cup failed /\ vault[p] = Unbound
         /\ job[p].epoch \in Nat \ {0}
  BY <1>1 DEF FilesInv, SpoolInv, ShapesInv, JobRecords
<1>3. UNCHANGED <<epoch, failed, grants, server, target, shown>>
  BY DEF Captured
<1>4. SpoolAccounted /\ bytes \in [file : Int, preview : Int]
         /\ vault \in [Snaps -> Nat]
  BY DEF FilesInv, SpoolInv, ShapesInv, Bindings
<1>5. PICK S \in SUBSET (Snaps \ {p}) :
         /\ \A t \in S : vault[t] # Unbound
         /\ \A t \in Snaps : t # p =>
               vault'[t] = IF t \in S THEN Unbound ELSE vault[t]
         /\ vault' \in [Snaps -> Nat] /\ cleanup' = cleanup \cup S
  <2>1. CASE issue(p, Picks, job[p].epoch)
    BY <1>1, <1>2, <2>1, Issued
  <2>2. CASE pruneExpired(Picks)
    BY <1>1, <1>2, <2>2, PrunedAlone
  <2>3. CASE UNCHANGED <<vault, cleanup>>
    <3> DEFINE S == {}
    <3>1. S \in SUBSET (Snaps \ {p}) /\ \A t \in S : vault[t] # Unbound
      OBVIOUS
    <3>2. /\ \A t \in Snaps : t # p =>
           vault'[t] = IF t \in S THEN Unbound ELSE vault[t]
         /\ vault' \in [Snaps -> Nat] /\ cleanup' = cleanup \cup S
      BY <1>4, <2>3
    <3> HIDE DEF S
    <3> QED BY <3>1, <3>2
  <2> QED BY <2>1, <2>2, <2>3 DEF Captured
<1> DEFINE room == Room(Picks, VaultLimit)
<1>6. CASE out \in {"failed", "left"} \/ (out = "ok" /\ ~room)
  <2>1. /\ files' = files \ {p} /\ bytes' = Release({p}) /\ {p} \subseteq files
        /\ job' = Done(p, "failed")
        /\ pruneExpired(Picks) \/ UNCHANGED <<vault, cleanup>>
    BY <1>2, <1>6 DEF Captured, Uncaptured
  <2>2. vault'[p] = Unbound
    BY <1>1, <1>2, <2>1, PrunedAlone
  <2>3. PICK x \in JobRecords : job' = [job EXCEPT ![p] = x] /\ x.pc = "done"
    BY <1>1, <2>1, DoneJob
  <2>4. SpoolAccounted' /\ bytes' \in [file : Int, preview : Int]
    BY <1>4, <2>1, ReleaseCounts
  <2>5. SnapFits(p, x)
    BY <1>1, <2>1, <2>2, <2>3 DEF SnapFits
  <2>6. files' \ {p} = files \ {p}
    BY <2>1
  <2> QED BY <1>1, <1>2, <1>3, <1>5, <2>3, <2>4, <2>5, <2>6, SnapAlone
<1>7. CASE out \in {"source", "kept"} \/ (out = "ok" /\ room)
  <2>1. /\ files' = files /\ bytes' = bytes
        /\ \/ job' = Done(p, "issued") /\ issue(p, Picks, job[p].epoch)
           \/ job' = Done(p, "lost")
    BY <1>7 DEF Captured
  <2>2. PICK x \in JobRecords : /\ job' = [job EXCEPT ![p] = x] /\ x.pc = "done"
                                /\ vault'[p] # Unbound \/ x.why = "lost"
    <3>1. CASE job' = Done(p, "issued") /\ issue(p, Picks, job[p].epoch)
      <4>1. vault'[p] # Unbound
        BY <1>1, <1>2, <3>1, Issued DEF Unbound
      <4> QED BY <1>1, <3>1, <4>1, DoneJob
    <3>2. CASE job' = Done(p, "lost")
      BY <1>1, <3>2, DoneJob
    <3> QED BY <2>1, <3>1, <3>2
  <2>3. SnapFits(p, x)
    BY <1>1, <1>2, <2>1, <2>2 DEF SnapFits
  <2>4. SpoolAccounted'
    BY <1>4, <2>1, SameCounts
  <2> QED BY <1>1, <1>2, <1>3, <1>4, <1>5, <2>1, <2>2, <2>3, <2>4, SnapAlone
<1> QED BY <1>6, <1>7

LEMMA PickKeeps ==
    ASSUME FilesInv, NEW p \in Picks, PickStep(p)
    PROVE  FilesInv'
BY CaptureKeeps, CapturedKeeps DEF PickStep

LEMMA PreviewBegins ==
    ASSUME FilesInv, NEW v \in Previews, openPreview(v)
    PROVE  FilesInv'
<1> DEFINE x == [NoJob EXCEPT !.pc = "meta", !.epoch = epoch, !.lease = epoch]
<1>1. epoch \in Nat \ {0} /\ TRUE \in BOOLEAN /\ FALSE \in BOOLEAN
  BY DEF FilesInv, ShapesInv
<1>2. x \in JobRecords
  BY <1>1 DEF JobRecords, NoJob, None, Running, PreviewSteps
<1>3. x.pc = "meta" /\ x.epoch = epoch /\ x.lease = epoch /\ x.why = None
  BY DEF NoJob
<1>4. job' = [job EXCEPT ![v] = x] /\ Begin(v, Previews)
  BY DEF openPreview
<1>5. UNCHANGED <<epoch, files, bytes, vault, cleanup, failed, grants, server,
                  target, shown>>
  BY DEF openPreview
<1> HIDE DEF x
<1>6. v \in Snaps /\ v \notin Picks /\ job[v].pc = "idle"
  BY <1>4, BeginIdle, KindsApart
<1>7. v \notin files /\ v \notin cleanup \cup failed
  BY <1>6 DEF FilesInv, SpoolInv
<1>8. x.epoch # 0 /\ x.epoch <= x.lease /\ x.lease <= epoch
  BY <1>1, <1>3
<1>9. job[v].pc # "done" /\ x.pc # "copy" /\ x.why = None
  BY <1>3, <1>6
<1> QED BY <1>2, <1>4, <1>5, <1>6, <1>7, <1>8, <1>9, SnapMoves

\* A preview that has not ended has no file and no entry.
LEMMA PreviewPending ==
    ASSUME FilesInv, NEW v \in Previews, job[v].pc \in {"meta", "load", "capture"}
    PROVE  /\ v \in Snaps /\ v \in Jobs /\ v \notin Picks
           /\ job \in [Jobs -> JobRecords] /\ job[v] \in JobRecords
           /\ v \notin files /\ v \notin cleanup \cup failed /\ vault[v] = Unbound
           /\ job[v].epoch \in Nat \ {0} /\ job[v].lease \in Nat /\ epoch \in Nat
           /\ job[v].epoch <= job[v].lease /\ job[v].lease <= epoch
           /\ job[v].why = None
<1>1. /\ v \in Snaps /\ v \in Jobs /\ v \notin Picks
      /\ job \in [Jobs -> JobRecords] /\ job[v] \in JobRecords /\ epoch \in Nat
  BY KindsApart DEF FilesInv, ShapesInv
<1>2. job[v].epoch \in Nat /\ job[v].lease \in Nat /\ job[v].why = None
  BY <1>1 DEF FilesInv, ShapesInv, JobRecords
<1>3. v \notin files /\ v \notin cleanup \cup failed /\ vault[v] = Unbound
  BY <1>1 DEF FilesInv, SpoolInv
<1>4. PreviewFits(v)
  BY DEF FilesInv, PreviewsInv
<1> QED BY <1>1, <1>2, <1>3, <1>4 DEF PreviewFits

\* ... and fails, or goes on with the same epoch and lease.
LEMMA PreviewMoves ==
    ASSUME FilesInv, NEW v \in Previews, job[v].pc \in {"meta", "load", "capture"},
           \/ job' = Done(v, "failed")
           \/ job' = [job EXCEPT ![v] = [@ EXCEPT !.pc = "load", !.first = TRUE]]
           \/ job' = [job EXCEPT ![v].pc = "capture"],
           UNCHANGED <<epoch, files, bytes, vault, cleanup, failed, grants, server,
                       target, shown>>
    PROVE  FilesInv'
<1>1. /\ v \in Snaps /\ v \in Jobs /\ v \notin Picks
      /\ job \in [Jobs -> JobRecords] /\ job[v] \in JobRecords
      /\ v \notin files /\ v \notin cleanup \cup failed
      /\ job[v].epoch \in Nat \ {0} /\ job[v].lease \in Nat /\ epoch \in Nat
      /\ job[v].epoch <= job[v].lease /\ job[v].lease <= epoch /\ job[v].why = None
  BY PreviewPending
<1>2. \E x \in JobRecords :
         /\ job' = [job EXCEPT ![v] = x] /\ (x.why # None => x.pc = "done")
         /\ x.pc # "copy" /\ (x.pc = "done" \/ (x.epoch = job[v].epoch
                                                /\ x.lease = job[v].lease))
  <2>1. CASE job' = Done(v, "failed")
    BY <1>1, <2>1, DoneJob
  <2>2. CASE job' = [job EXCEPT ![v] = [@ EXCEPT !.pc = "load", !.first = TRUE]]
    <3> DEFINE x == [job[v] EXCEPT !.pc = "load", !.first = TRUE]
    <3>1. TRUE \in BOOLEAN
      OBVIOUS
    <3>2. x \in JobRecords
      BY <1>1, <3>1 DEF JobRecords, Running, PreviewSteps
    <3>3. x.pc = "load" /\ x.epoch = job[v].epoch /\ x.lease = job[v].lease
             /\ x.why = job[v].why
      BY <1>1 DEF JobRecords
    <3>4. job' = [job EXCEPT ![v] = x]
      BY <2>2
    <3> HIDE DEF x
    <3> QED BY <1>1, <3>2, <3>3, <3>4
  <2>3. CASE job' = [job EXCEPT ![v].pc = "capture"]
    <3> DEFINE x == [job[v] EXCEPT !.pc = "capture"]
    <3>1. x \in JobRecords
      BY <1>1 DEF JobRecords, Running, PreviewSteps
    <3>2. x.pc = "capture" /\ x.epoch = job[v].epoch /\ x.lease = job[v].lease
             /\ x.why = job[v].why
      BY <1>1 DEF JobRecords
    <3>3. job' = [job EXCEPT ![v] = x]
      BY <2>3
    <3> HIDE DEF x
    <3> QED BY <1>1, <3>1, <3>2, <3>3
  <2> QED BY <2>1, <2>2, <2>3
<1> QED BY <1>1, <1>2, SnapMoves

LEMMA MetaKeeps ==
    ASSUME FilesInv, NEW v \in Previews, NEW out, MetaAnswered(v, out)
    PROVE  FilesInv'
<1>1. /\ job[v].pc = "meta"
      /\ UNCHANGED <<epoch, files, bytes, vault, cleanup, failed, grants, server,
                     target, shown>>
      /\ \/ job' = Done(v, "failed")
         \/ job' = [job EXCEPT ![v] = [@ EXCEPT !.pc = "load", !.first = TRUE]]
  BY DEF MetaAnswered
<1> QED BY <1>1, PreviewMoves

LEMMA LoadedKeeps ==
    ASSUME FilesInv, NEW v \in Previews, NEW out, Loaded(v, out)
    PROVE  FilesInv'
<1>1. /\ job[v].pc = "load"
      /\ UNCHANGED <<files, bytes, vault, cleanup, failed, server, target, shown>>
  BY DEF Loaded
<1>2. CASE out = "expired" /\ job[v].first /\ job[v].lease = epoch
  <2>1. epoch' = epoch + 1 /\ job' = abortAll(Refreshed(v)) /\ grants' = {}
    BY <1>2 DEF Loaded, invalidateAll
  <2> QED BY <1>1, <2>1, RefreshKeeps, KindsApart
<1>3. CASE ~(out = "expired" /\ job[v].first /\ job[v].lease = epoch)
  <2>1. /\ epoch' = epoch /\ grants' = grants
        /\ \/ job' = Done(v, "failed") \/ job' = [job EXCEPT ![v].pc = "capture"]
    BY <1>3 DEF Loaded
  <2> QED BY <1>1, <2>1, PreviewMoves
<1> QED BY <1>2, <1>3

\* A preview is issued only under a lease that is still today's.
LEMMA PreviewCapturedKeeps ==
    ASSUME FilesInv, NEW v \in Previews, NEW out, PreviewCaptured(v, out)
    PROVE  FilesInv'
<1>0. job[v].pc = "capture"
  BY DEF PreviewCaptured
<1>1. /\ v \in Snaps /\ v \in Jobs /\ v \notin Picks
      /\ job \in [Jobs -> JobRecords] /\ job[v] \in JobRecords
      /\ v \notin files /\ v \notin cleanup \cup failed /\ vault[v] = Unbound
      /\ job[v].epoch \in Nat \ {0} /\ job[v].lease \in Nat /\ epoch \in Nat
      /\ job[v].epoch <= job[v].lease /\ job[v].lease <= epoch /\ job[v].why = None
  BY <1>0, PreviewPending
<1>2. UNCHANGED <<epoch, failed, grants, server, target, shown>>
  BY DEF PreviewCaptured
<1>3. /\ SpoolAccounted /\ bytes \in [file : Int, preview : Int]
      /\ vault \in [Snaps -> Nat]
  BY DEF FilesInv, SpoolInv, ShapesInv, Bindings
<1>4. /\ \/ files' = files /\ bytes' = bytes
         \/ files' = files \cup {v} /\ bytes' = [bytes EXCEPT !.preview = @ + 1]
  BY DEF PreviewCaptured
<1>5. SpoolAccounted' /\ bytes' \in [file : Int, preview : Int]
         /\ files' \ {v} = files \ {v}
  <2>1. CASE files' = files /\ bytes' = bytes
    BY <1>3, <2>1, SameCounts
  <2>2. CASE files' = files \cup {v} /\ bytes' = [bytes EXCEPT !.preview = @ + 1]
    BY <1>1, <1>3, <2>2, PreviewCounts
  <2> QED BY <1>4, <2>1, <2>2
<1>6. CASE /\ job' = Done(v, "failed")
           /\ pruneExpired(Previews) \/ UNCHANGED <<vault, cleanup>>
  <2>1. PICK x \in JobRecords : job' = [job EXCEPT ![v] = x] /\ x.pc = "done"
    BY <1>1, <1>6, DoneJob
  <2>2. PICK S \in SUBSET (Snaps \ {v}) :
           /\ \A t \in S : vault[t] # Unbound
           /\ \A t \in Snaps : t # v =>
                 vault'[t] = IF t \in S THEN Unbound ELSE vault[t]
           /\ vault' \in [Snaps -> Nat] /\ cleanup' = cleanup \cup S
           /\ vault'[v] = Unbound
    <3>1. CASE pruneExpired(Previews)
      BY <1>1, <3>1, PrunedAlone, KindsApart
    <3>2. CASE UNCHANGED <<vault, cleanup>>
      <4> DEFINE S == {}
      <4>1. S \in SUBSET (Snaps \ {v}) /\ \A t \in S : vault[t] # Unbound
        OBVIOUS
      <4>2. /\ \A t \in Snaps : t # v =>
             vault'[t] = IF t \in S THEN Unbound ELSE vault[t]
           /\ vault' \in [Snaps -> Nat] /\ cleanup' = cleanup \cup S
           /\ vault'[v] = Unbound
        BY <1>1, <1>3, <3>2
      <4> HIDE DEF S
      <4> QED BY <4>1, <4>2
    <3> QED BY <1>6, <3>1, <3>2
  <2>3. SnapFits(v, x)
    BY <1>1, <2>1, <2>2 DEF SnapFits
  <2>4. v \in Snaps /\ job[v].pc # "done" /\ v \notin cleanup \cup failed
    BY <1>0, <1>1
  <2> QED BY <1>2, <1>5, <2>1, <2>2, <2>3, <2>4, SnapAlone
<1>7. CASE /\ issue(v, Previews, job[v].epoch) /\ job' = Done(v, "issued")
           /\ files' = files \cup {v}
  <2>1. PICK x \in JobRecords : /\ job' = [job EXCEPT ![v] = x] /\ x.pc = "done"
                                /\ x.lease = job[v].lease
    BY <1>1, <1>7, DoneJob
  <2>2. Previews \in SUBSET Snaps
    BY KindsApart
  <2> DEFINE S == Pruned(Previews)
  <2>3. /\ S \in SUBSET (Snaps \ {v}) /\ \A t \in S : vault[t] # Unbound
        /\ vault' \in [Snaps -> Nat] /\ vault'[v] = job[v].epoch
        /\ \A t \in Snaps : t # v => vault'[t] = IF t \in S THEN Unbound ELSE vault[t]
        /\ cleanup' = cleanup \cup S
    BY <1>1, <1>7, <2>2, Issued
  <2>4. SnapFits(v, x)
    BY <1>1, <1>7, <2>1, <2>3 DEF SnapFits
  <2> HIDE DEF S
  <2>5. v \in Snaps /\ job[v].pc # "done" /\ v \notin cleanup \cup failed
    BY <1>0, <1>1
  <2>6. /\ S \in SUBSET (Snaps \ {v}) /\ \A t \in S : vault[t] # Unbound
        /\ vault' \in [Snaps -> Nat] /\ cleanup' = cleanup \cup S
        /\ \A t \in Snaps : t # v => vault'[t] = IF t \in S THEN Unbound ELSE vault[t]
    BY <2>3
  <2> QED BY <1>2, <1>5, <2>1, <2>4, <2>5, <2>6, SnapAlone
<1> QED BY <1>6, <1>7 DEF PreviewCaptured

LEMMA PreviewKeeps ==
    ASSUME FilesInv, NEW v \in Previews, PreviewStep(v)
    PROVE  FilesInv'
BY MetaKeeps, LoadedKeeps, PreviewCapturedKeeps DEF PreviewStep

-----------------------------------------------------------------------------
\* Uploads.

\* What an upload must be like after its own step.
FitsAfter(x) ==
    /\ x.pc \in UploadSteps => x.snap \in Picks /\ x.att \in Uploads /\ x.epoch # 0
    /\ x.pc \in {"create", "sign", "put", "sent", "close"} => job[x.snap].pc = "done"
    /\ x.pc \in {"idle", "create", "sign"} => ~x.took
    /\ x.took => /\ x.snap \in Picks /\ vault'[x.snap] = Unbound
                 /\ job[x.snap].pc = "done"
    /\ x.pc \in {"put", "sent", "close"} =>
          x.took /\ x.snap \in files' /\ x.snap \notin cleanup' \cup failed'
    /\ x.pc = "confirm" => x.took /\ x.snap \notin files'

\* The entries S are dropped, and the entries T are taken by the upload.
LEMMA UploadAlone ==
    ASSUME FilesInv, NEW u \in Uploads, NEW x \in JobRecords,
           job' = [job EXCEPT ![u] = x], x.why # None => x.pc = "done",
           job[u].pc # "done", UploadEnds(x), FitsAfter(x), ServerInv',
           NEW S \in SUBSET Snaps, \A t \in S : vault[t] # Unbound,
           NEW T \in SUBSET Picks,
           \A t \in T : vault[t] # Unbound /\ x.took /\ x.snap = t /\ x.pc # "done",
           \A t \in Snaps :
              vault'[t] = IF t \in S \cup T THEN Unbound ELSE vault[t],
           vault' \in [Snaps -> Nat], cleanup' = cleanup \cup S,
           x.took => \/ job[u].took /\ x.snap = job[u].snap
                     \/ vault[x.snap] # Unbound,
           job[u].took /\ job[u].snap \in files =>
              /\ x.took /\ x.snap = job[u].snap
              /\ x.pc # "done" \/ x.why = "failed",
           UNCHANGED <<epoch, files, bytes, failed, grants, target, shown>>
    PROVE  FilesInv'
<1> USE KindsApart
<1>1. /\ job' \in [Jobs -> JobRecords] /\ job'[u] = x
      /\ \A k \in Jobs : k # u => job'[k] = job[k]
  BY OneJob DEF FilesInv, ShapesInv
<1>2. \A s \in Snaps : job'[s] = job[s]
  BY <1>1
<1>3. ShapesInv'
  <2>1. \A j \in Jobs : job'[j].why # None => job'[j].pc = "done"
    BY <1>1 DEF FilesInv, ShapesInv
  <2> QED BY <1>1, <2>1 DEF FilesInv, ShapesInv, Bindings
<1>4. SpoolInv'
  <2>1. SpoolAccounted'
    BY SameCounts DEF FilesInv, SpoolInv
  <2>2. ASSUME NEW s \in Snaps
        PROVE  /\ vault'[s] # Unbound => vault[s] # Unbound /\ s \notin S
               /\ s \in S => s \in files /\ s \notin failed /\ job[s].pc = "done"
    BY DEF FilesInv, SpoolInv
  <2> QED BY <1>2, <2>1, <2>2 DEF FilesInv, SpoolInv
<1>5. SnapshotsOwned'
  <2>1. SUFFICES ASSUME NEW p \in files \cap Picks
        PROVE  \/ job[p].pc = "copy" \/ vault'[p] # Unbound
               \/ p \in cleanup' \cup failed \/ job[p].why = "lost"
               \/ \E w \in Uploads : job'[w].took /\ job'[w].snap = p
                       /\ (job'[w].pc # "done" \/ job'[w].why = "failed")
    BY <1>2 DEF SnapshotsOwned
  <2>2. \/ job[p].pc = "copy" \/ vault[p] # Unbound \/ p \in cleanup \cup failed
        \/ job[p].why = "lost"
        \/ \E w \in Uploads : job[w].took /\ job[w].snap = p
                /\ (job[w].pc # "done" \/ job[w].why = "failed")
    BY DEF FilesInv, SnapshotsOwned
  <2>3. CASE vault[p] # Unbound
    <3>1. CASE p \in T
      BY <1>1, <3>1
    <3>2. CASE p \notin T
      BY <2>3, <3>2
    <3> QED BY <3>1, <3>2
  <2>4. ASSUME NEW w \in Uploads, job[w].took, job[w].snap = p,
               job[w].pc # "done" \/ job[w].why = "failed"
        PROVE  job'[w].took /\ job'[w].snap = p
                  /\ (job'[w].pc # "done" \/ job'[w].why = "failed")
    BY <1>1, <2>4
  <2> QED BY <2>2, <2>3, <2>4
<1>6. ASSUME NEW w \in Uploads, w # u
      PROVE  /\ job'[w] = job[w] /\ UploadFits(w) /\ UploadEnds(job[w])
             /\ job[w].took => /\ vault[job[w].snap] = Unbound
                               /\ job[w].snap \in Picks
             /\ job[w].pc \in {"create", "sign", "put", "sent", "close"} =>
                   job'[job[w].snap] = job[job[w].snap]
             /\ job[w].took => job'[job[w].snap] = job[job[w].snap]
  <2>1. job'[w] = job[w] /\ UploadFits(w) /\ UploadEnds(job[w])
    BY <1>1, <1>6 DEF FilesInv, UploadsInv, EndsInv
  <2>2. job[w].took => vault[job[w].snap] = Unbound /\ job[w].snap \in Picks
    BY <2>1 DEF UploadFits
  <2>3. job[w].pc \in {"create", "sign", "put", "sent", "close"} => job[w].snap \in Picks
    BY <2>1 DEF UploadFits, UploadSteps
  <2> QED BY <1>2, <2>1, <2>2, <2>3
<1>7. UploadsInv'
  <2>1. SUFFICES ASSUME NEW w \in Uploads PROVE UploadFits(w)'
    BY DEF UploadsInv
  <2>2. CASE w = u
    <3>1. x.snap \in Picks => job'[x.snap] = job[x.snap]
      BY <1>2
    <3> QED BY <1>1, <2>2, <3>1 DEF UploadFits, FitsAfter, UploadSteps
  <2>3. CASE w # u
    <3>1. /\ job'[w] = job[w] /\ UploadFits(w)
          /\ job[w].pc \in {"create", "sign", "put", "sent", "close"} =>
                   job'[job[w].snap] = job[job[w].snap]
          /\ job[w].took => /\ job'[job[w].snap] = job[job[w].snap]
                            /\ vault'[job[w].snap] = Unbound
                            /\ job[w].snap \notin S
      BY <1>6, <2>3
    <3> QED BY <3>1 DEF UploadFits
  <2> QED BY <2>2, <2>3
<1>8. SnapshotSentOnce'
  <2>1. ASSUME NEW w \in Uploads, w # u, x.took, job[w].took
        PROVE  x.snap # job[w].snap
    BY <1>6, <2>1 DEF FilesInv, SnapshotSentOnce
  <2>2. \A v, w \in Uploads : v # w /\ v # u /\ w # u /\ job'[v].took /\ job'[w].took
                                 => job'[v].snap # job'[w].snap
    BY <1>6 DEF FilesInv, SnapshotSentOnce
  <2> QED BY <1>1, <1>6, <2>1, <2>2 DEF SnapshotSentOnce
<1>9. EndsInv'
  <2>1. \A w \in Uploads : UploadEnds(job'[w])
    BY <1>1, <1>6
  <2>2. \A d \in Downloads : job'[d] = job[d]
    BY <1>1
  <2> QED BY <2>1, <2>2 DEF FilesInv, EndsInv, TargetFits, TargetWhole
<1>10. PreviewsInv'
  <2>1. ASSUME NEW v \in Previews PROVE PreviewFits(v)'
    <3>1. PreviewFits(v) /\ job'[v] = job[v]
      BY <1>2 DEF FilesInv, PreviewsInv
    <3>2. vault'[v] # Unbound => vault'[v] = vault[v]
      OBVIOUS
    <3> QED BY <3>1, <3>2 DEF PreviewFits
  <2> QED BY <2>1 DEF FilesInv, PreviewsInv, PreviewsServedToTheirSession
<1> QED BY <1>3, <1>4, <1>5, <1>7, <1>8, <1>9, <1>10 DEF FilesInv

\* A step of an upload that leaves the vaults alone.
LEMMA UploadMoves ==
    ASSUME FilesInv, NEW u \in Uploads, NEW x \in JobRecords,
           job' = [job EXCEPT ![u] = x], x.why # None => x.pc = "done",
           job[u].pc # "done", UploadEnds(x), FitsAfter(x), ServerInv',
           x.took => job[u].took /\ x.snap = job[u].snap,
           job[u].took /\ job[u].snap \in files =>
              /\ x.took /\ x.snap = job[u].snap
              /\ x.pc # "done" \/ x.why = "failed",
           UNCHANGED <<epoch, files, bytes, vault, cleanup, failed, grants, target,
                       shown>>
    PROVE  FilesInv'
<1> DEFINE S == {}
           T == {}
<1>1. /\ S \in SUBSET Snaps /\ \A t \in S : vault[t] # Unbound
      /\ T \in SUBSET Picks /\ cleanup' = cleanup \cup S
      /\ \A t \in T : vault[t] # Unbound /\ x.took /\ x.snap = t /\ x.pc # "done"
      /\ \A t \in Snaps : vault'[t] = IF t \in S \cup T THEN Unbound ELSE vault[t]
  OBVIOUS
<1>2. vault' \in [Snaps -> Nat]
  BY DEF FilesInv, ShapesInv, Bindings
<1> HIDE DEF S, T
<1> QED BY <1>1, <1>2, UploadAlone

Attachments == [state : {None, "pending", "uploaded"}, meta : Contents \cup {None},
                object : Contents \cup {None}, kind : Targets \cup {None}]

\* The server's record of an attachment changes with the step of an upload: it
\* is registered once, and keeps what it was registered for.
LEMMA ServerMoves ==
    ASSUME FilesInv, NEW u \in Uploads, NEW x \in JobRecords,
           job' = [job EXCEPT ![u] = x],
           NEW a \in Uploads, NEW y \in Attachments,
           server' = [server EXCEPT ![a] = y],
           y.object \in {None, y.meta},
           y.state = "uploaded" => y.object = y.meta,
           \/ y.state = None /\ y.object = None
           \/ (IF a = u THEN x.pc ELSE job[a].pc) \notin {"idle", "create"},
           server[a].state # None => y.state # None /\ y.meta = server[a].meta,
           x.pc \in {"idle", "create"} => job[u].pc \in {"idle", "create"},
           x.pc = "create" => x.att = u,
           x.pc \in {"sign", "put", "sent", "close", "confirm"} =>
              x.att \in Uploads /\ server'[x.att].state # None,
           x.pc = "put" => /\ x.snap \in Picks
                           /\ server'[x.att].meta = job[x.snap].content
    PROVE  ServerInv'
<1> USE KindsApart
<1>1. /\ job' \in [Jobs -> JobRecords] /\ job'[u] = x
      /\ \A k \in Jobs : k # u => job'[k] = job[k]
  BY OneJob DEF FilesInv, ShapesInv
<1>2. server \in [Uploads -> Attachments]
  BY DEF FilesInv, ServerInv, Attachments
<1>3. /\ server' \in [Uploads -> Attachments] /\ server'[a] = y
      /\ \A b \in Uploads : b # a => server'[b] = server[b]
  BY <1>2
<1>4. ASSUME NEW b \in Uploads
      PROVE  /\ server'[b].object \in {None, server'[b].meta}
             /\ server'[b].state = "uploaded" => server'[b].object = server'[b].meta
             /\ job'[b].pc \in {"idle", "create"} =>
                   server'[b].state = None /\ server'[b].object = None
  <2>1. CASE b = a
    BY <1>1, <1>3, <2>1
  <2>2. CASE b # a
    <3>1. server'[b] = server[b]
      BY <1>3, <2>2
    <3>2. job'[b].pc \in {"idle", "create"} => job[b].pc \in {"idle", "create"}
      BY <1>1
    <3> QED BY <3>1, <3>2 DEF FilesInv, ServerInv
  <2> QED BY <2>1, <2>2
<1>5. \A b \in Uploads : server[b].state # None =>
         server'[b].state # None /\ server'[b].meta = server[b].meta
  BY <1>3
<1>6. ASSUME NEW w \in Uploads
      PROVE  /\ job'[w].pc = "create" => job'[w].att = w
             /\ job'[w].pc \in {"sign", "put", "sent", "close", "confirm"} =>
                   server'[job'[w].att].state # None
             /\ job'[w].pc = "put" =>
                   server'[job'[w].att].meta = job'[job'[w].snap].content
  <2>1. CASE w = u
    BY <1>1, <2>1
  <2>2. CASE w # u
    <3>1. job'[w] = job[w] /\ UploadFits(w)
      BY <1>1, <2>2 DEF FilesInv, UploadsInv
    <3>2. /\ job[w].pc = "create" => job[w].att = w
          /\ job[w].pc \in {"sign", "put", "sent", "close", "confirm"} =>
                job[w].att \in Uploads /\ server[job[w].att].state # None
          /\ job[w].pc = "put" => /\ job[w].snap \in Picks
                                  /\ server[job[w].att].meta = job[job[w].snap].content
      BY <3>1 DEF FilesInv, ServerInv, UploadFits, UploadSteps
    <3>3. job[w].snap \in Picks => job'[job[w].snap] = job[job[w].snap]
      BY <1>1
    <3> QED BY <1>5, <3>1, <3>2, <3>3
  <2> QED BY <2>1, <2>2
<1> QED BY <1>3, <1>4, <1>6 DEF ServerInv, Attachments

LEMMA ServerStays ==
    ASSUME FilesInv, NEW u \in Uploads, NEW x \in JobRecords,
           job' = [job EXCEPT ![u] = x], server' = server,
           x.pc \notin {"idle", "create"},
           x.pc \in {"sign", "put", "sent", "close", "confirm"} =>
              /\ x.att = job[u].att /\ job[u].pc \in {"sign", "put", "sent", "close"},
           x.pc = "put" => /\ x.snap \in Picks
                           /\ server[x.att].meta = job[x.snap].content
    PROVE  ServerInv'
<1> USE KindsApart
<1>1. /\ job' \in [Jobs -> JobRecords] /\ job'[u] = x
      /\ \A k \in Jobs : k # u => job'[k] = job[k]
  BY OneJob DEF FilesInv, ShapesInv
<1>2. \A b \in Uploads : job'[b].pc \in {"idle", "create"} =>
                            job[b].pc \in {"idle", "create"}
  BY <1>1
<1>3. ASSUME NEW w \in Uploads
      PROVE  /\ job'[w].pc = "create" => job'[w].att = w
             /\ job'[w].pc \in {"sign", "put", "sent", "close", "confirm"} =>
                   server[job'[w].att].state # None
             /\ job'[w].pc = "put" =>
                   server[job'[w].att].meta = job'[job'[w].snap].content
  <2>1. CASE w = u
    <3>1. x.pc \in {"sign", "put", "sent", "close", "confirm"} => server[x.att].state # None
      BY DEF FilesInv, ServerInv
    <3>2. x.snap \in Picks => job'[x.snap] = job[x.snap]
      BY <1>1
    <3> QED BY <1>1, <2>1, <3>1, <3>2
  <2>2. CASE w # u
    <3>1. job'[w] = job[w] /\ UploadFits(w)
      BY <1>1, <2>2 DEF FilesInv, UploadsInv
    <3>2. job[w].pc = "put" => job'[job[w].snap] = job[job[w].snap]
      BY <1>1, <3>1 DEF UploadFits, UploadSteps
    <3> QED BY <3>1, <3>2 DEF FilesInv, ServerInv
  <2> QED BY <2>1, <2>2
<1> QED BY <1>2, <1>3 DEF FilesInv, ServerInv

\* An upload that ends without completing.
LEMMA UploadFails ==
    ASSUME FilesInv, NEW u \in Uploads, job[u].pc \in UploadSteps \cup {"idle"},
           NEW why \in {"refused", "failed"}, job' = Done(u, why),
           why = "refused" => ~job[u].took,
           UNCHANGED <<epoch, files, bytes, vault, cleanup, failed, grants, target,
                       shown>>,
           ServerInv'
    PROVE  FilesInv'
<1>1. u \in Jobs /\ job \in [Jobs -> JobRecords]
  BY KindsApart DEF FilesInv, ShapesInv
<1>2. PICK x \in JobRecords : /\ Done(u, why) = [job EXCEPT ![u] = x]
           /\ x.pc = "done" /\ x.why = why /\ x.ok = job[u].ok /\ x.took = job[u].took
           /\ x.withdrawn = job[u].withdrawn /\ x.snap = job[u].snap
  BY DoneJob, <1>1
<1>3. UploadEnds(job[u]) /\ UploadFits(u)
  BY DEF FilesInv, EndsInv, UploadsInv
<1>4. UploadEnds(x)
  BY <1>2, <1>3 DEF UploadEnds
<1>5. FitsAfter(x)
  BY <1>2, <1>3 DEF FitsAfter, UploadFits, UploadSteps
<1>6. job[u].pc # "done"
  BY DEF UploadSteps
<1> QED BY <1>2, <1>4, <1>5, <1>6, UploadMoves

\* The capability turned out to be invalid: it is dropped with its snapshot.
LEMMA UploadDrops ==
    ASSUME FilesInv, NEW u \in Uploads, NEW p \in Picks,
           job[u].pc \in {"idle", "sign"}, job' = Done(u, "failed"), vault' = take(p),
           cleanup' = cleanup \cup (IF vault[p] = Unbound THEN {} ELSE {p}),
           UNCHANGED <<epoch, files, bytes, failed, grants, server, target, shown>>
    PROVE  FilesInv'
<1>1. u \in Jobs /\ p \in Snaps /\ job \in [Jobs -> JobRecords]
         /\ vault \in [Snaps -> Nat] /\ Unbound \in Nat
  BY KindsApart DEF FilesInv, ShapesInv, Bindings, Unbound
<1>2. PICK x \in JobRecords : /\ job' = [job EXCEPT ![u] = x]
           /\ x.pc = "done" /\ x.why = "failed" /\ x.ok = job[u].ok
           /\ x.took = job[u].took /\ x.withdrawn = job[u].withdrawn
  BY DoneJob, <1>1
<1>3. UploadEnds(job[u]) /\ UploadFits(u)
  BY DEF FilesInv, EndsInv, UploadsInv
<1>4. UploadEnds(x) /\ ~x.took /\ ~job[u].took /\ job[u].pc # "done"
  BY <1>2, <1>3 DEF UploadEnds, UploadFits
<1>5. FitsAfter(x)
  BY <1>2, <1>4 DEF FitsAfter, UploadSteps
<1>6. ServerInv'
  BY <1>2, ServerStays
<1> DEFINE S == IF vault[p] = Unbound THEN {} ELSE {p}
           T == {}
<1>7. /\ S \in SUBSET Snaps /\ \A t \in S : vault[t] # Unbound
      /\ T \in SUBSET Picks /\ cleanup' = cleanup \cup S
      /\ \A t \in T : vault[t] # Unbound /\ x.took /\ x.snap = t /\ x.pc # "done"
  BY <1>1
<1>8. /\ \A t \in Snaps : vault'[t] = IF t \in S \cup T THEN Unbound ELSE vault[t]
      /\ vault' \in [Snaps -> Nat]
  BY <1>1 DEF take
<1> HIDE DEF S, T
<1> QED BY <1>2, <1>4, <1>5, <1>6, <1>7, <1>8, UploadAlone

LEMMA UploadBegins ==
    ASSUME FilesInv, NEW u \in Uploads, NEW p \in Picks, NEW a \in Uploads,
           NEW kind \in Targets, uploadAttachment(u, p, a, kind)
    PROVE  FilesInv'
<1>1. /\ UNCHANGED <<epoch, files, bytes, failed, grants, target, shown>>
      /\ Begin(u, Uploads) /\ job[p].why = "issued"
      /\ a = u \/ server[a].state = "pending"
  BY DEF uploadAttachment
<1>2. job[u].pc = "idle" /\ job[p].pc = "done"
  BY <1>1, BeginIdle, KindsApart DEF FilesInv, ShapesInv, None
<1>3. CASE ~Valid(p, epoch)
  <2>1. /\ job' = Done(u, "failed") /\ vault' = take(p) /\ server' = server
        /\ cleanup' = cleanup \cup (IF vault[p] = Unbound THEN {} ELSE {p})
    BY <1>3 DEF uploadAttachment
  <2> QED BY <1>1, <1>2, <2>1, UploadDrops
<1>4. CASE Valid(p, epoch)
  <2> DEFINE x == [NoJob EXCEPT !.pc = IF a = u THEN "create" ELSE "sign",
                      !.epoch = epoch, !.lease = epoch, !.snap = p, !.att = a]
             y == [server[a] EXCEPT !.kind = kind]
  <2>1. epoch \in Nat \ {0} /\ TRUE \in BOOLEAN /\ FALSE \in BOOLEAN
           /\ server \in [Uploads -> Attachments]
    BY DEF FilesInv, ShapesInv, ServerInv, Attachments
  <2>2. x \in JobRecords
    BY <2>1 DEF JobRecords, NoJob, None, Running, UploadSteps
  <2>3. /\ x.pc = (IF a = u THEN "create" ELSE "sign") /\ x.epoch = epoch
        /\ x.snap = p /\ x.att = a /\ x.why = None
    BY DEF NoJob
  <2>4. ~x.took /\ ~x.ok /\ ~x.withdrawn
    BY DEF NoJob
  <2>5. /\ job' = [job EXCEPT ![u] = x] /\ server' = [server EXCEPT ![a] = y]
        /\ vault' = vault /\ cleanup' = cleanup
    BY <1>4 DEF uploadAttachment
  <2>6. y \in Attachments
    BY <2>1 DEF Attachments
  <2>7. y.state = server[a].state /\ y.meta = server[a].meta
           /\ y.object = server[a].object
    BY <2>1 DEF Attachments
  <2> HIDE DEF x, y
  <2>8. /\ server[a].object \in {None, server[a].meta}
        /\ server[a].state = "uploaded" => server[a].object = server[a].meta
        /\ job[a].pc \in {"idle", "create"} =>
              server[a].state = None /\ server[a].object = None
    BY DEF FilesInv, ServerInv
  <2>9. server'[a] = y
    BY <2>1, <2>5
  <2>10. ServerInv'
    <3>1. CASE a = u
      <4>1. x.pc = "create" /\ y.state = None /\ y.object = None /\ x.att = u
        BY <1>2, <2>3, <2>7, <2>8, <3>1
      <4> QED BY <1>2, <2>2, <2>5, <2>6, <2>7, <2>8, <4>1, ServerMoves
    <3>2. CASE a # u
      <4>1. x.pc = "sign" /\ job[a].pc \notin {"idle", "create"} /\ x.att = a
               /\ server[a].state = "pending"
        BY <1>1, <2>3, <2>8, <3>2 DEF None
      <4>2. server'[x.att].state # None /\ x.att \in Uploads
        BY <2>7, <2>9, <4>1 DEF None
      <4> QED BY <1>2, <2>2, <2>5, <2>6, <2>7, <2>8, <3>2, <4>1, <4>2, ServerMoves
    <3> QED BY <3>1, <3>2
  <2>11. UploadEnds(x)
    BY <2>3, <2>4 DEF UploadEnds, UploadSteps
  <2>12. FitsAfter(x)
    BY <1>2, <2>1, <2>3, <2>4 DEF FitsAfter, UploadSteps
  <2>13. ~job[u].took
    BY <1>2 DEF FilesInv, UploadsInv, UploadFits
  <2>14. x.why = None /\ ~x.took /\ job[u].pc # "done"
    BY <1>2, <2>3, <2>4
  <2> QED BY <1>1, <2>2, <2>5, <2>10, <2>11, <2>12, <2>13, <2>14, UploadMoves
<1> QED BY <1>3, <1>4

LEMMA CreatedKeeps ==
    ASSUME FilesInv, NEW u \in Uploads, NEW out, Created(u, out)
    PROVE  FilesInv'
<1> DEFINE p == job[u].snap
           y == [server[u] EXCEPT !.state = "pending", !.meta = job[p].content]
<1>1. /\ UNCHANGED <<epoch, files, bytes, vault, cleanup, failed, grants, target,
                     shown>>
      /\ job[u].pc = "create"
      /\ server' = IF out = "rest" THEN server ELSE [server EXCEPT ![u] = y]
      /\ job' = IF Answered(u, out) THEN [job EXCEPT ![u].pc = "sign"]
                ELSE Done(u, "failed")
  BY DEF Created
<1>2. /\ u \in Jobs /\ job \in [Jobs -> JobRecords] /\ job[u] \in JobRecords
      /\ UploadFits(u) /\ UploadEnds(job[u]) /\ server \in [Uploads -> Attachments]
  BY KindsApart DEF FilesInv, ShapesInv, UploadsInv, EndsInv, ServerInv, Attachments
<1>3. p \in Picks /\ p \in Jobs /\ job[u].att = u /\ server[u].state = None
         /\ server[u].object = None /\ job[u].epoch # 0 /\ job[p].pc = "done"
         /\ ~job[u].took
  BY <1>1, <1>2, KindsApart DEF FilesInv, ServerInv, UploadFits, UploadSteps
<1>4. job[p].content \in Contents \cup {None}
  BY <1>2, <1>3 DEF JobRecords
<1>5. y \in Attachments /\ server[u] \in Attachments
  BY <1>2, <1>4 DEF Attachments
<1>6. y.state = "pending" /\ y.object = None
  BY <1>2, <1>3 DEF Attachments
<1> HIDE DEF y
<1>7. ASSUME NEW x \in JobRecords, job' = [job EXCEPT ![u] = x],
             x.pc = "done" \/ (out # "rest" /\ x.pc = "sign" /\ x.att = u)
      PROVE  ServerInv'
  <2>1. CASE out = "rest"
    <3>1. server' = server /\ x.pc = "done"
      BY <1>1, <1>7, <2>1
    <3> QED BY <1>7, <3>1, ServerStays
  <2>2. CASE out # "rest"
    <3>1. server' = [server EXCEPT ![u] = y]
      BY <1>1, <2>2
    <3>2. server'[u] = y /\ y.state # None
      BY <1>2, <1>6, <3>1 DEF None
    <3>3. /\ y.object \in {None, y.meta} /\ (y.state = "uploaded" => y.object = y.meta)
          /\ x.pc \notin {"idle", "create", "put"}
          /\ x.pc \in {"sign", "put", "sent", "close", "confirm"} =>
                x.att \in Uploads /\ server'[x.att].state # None
      BY <1>6, <1>7, <3>2
    <3> QED BY <1>3, <1>5, <1>7, <3>1, <3>3, ServerMoves
  <2> QED BY <2>1, <2>2
<1>8. CASE Answered(u, out)
  <2> DEFINE x == [job[u] EXCEPT !.pc = "sign"]
  <2>1. x \in JobRecords
    BY <1>2 DEF JobRecords, Running, UploadSteps
  <2>2. x.pc = "sign" /\ x.att = job[u].att /\ x.snap = job[u].snap
           /\ x.why = job[u].why /\ x.epoch = job[u].epoch
    BY <1>2 DEF JobRecords
  <2>3. x.took = job[u].took /\ x.ok = job[u].ok /\ x.withdrawn = job[u].withdrawn
    BY <1>2 DEF JobRecords
  <2>4. job' = [job EXCEPT ![u] = x] /\ out = "ok"
    BY <1>1, <1>8 DEF Answered
  <2> HIDE DEF x
  <2>5. ServerInv'
    BY <1>3, <1>7, <2>1, <2>2, <2>4
  <2>6. UploadEnds(x)
    BY <1>1, <1>2, <2>2, <2>3 DEF UploadEnds, UploadSteps
  <2>7. FitsAfter(x)
    BY <1>3, <2>2, <2>3 DEF FitsAfter, UploadSteps
  <2>8. x.why = None /\ job[u].pc # "done"
    BY <1>1, <1>2, <2>2 DEF FilesInv, ShapesInv
  <2> QED BY <1>1, <1>3, <2>1, <2>3, <2>4, <2>5, <2>6, <2>7, <2>8, UploadMoves
<1>9. CASE ~Answered(u, out)
  <2>1. job' = Done(u, "failed")
    BY <1>1, <1>9
  <2>2. PICK x \in JobRecords : job' = [job EXCEPT ![u] = x] /\ x.pc = "done"
    BY <1>2, <2>1, DoneJob
  <2>3. x.pc = "done" \/ (out # "rest" /\ x.pc = "sign" /\ x.att = u)
    BY <2>2
  <2>4. ServerInv'
    BY <1>7, <2>2, <2>3, Zenon
  <2> QED BY <1>1, <2>1, <2>4, UploadFails DEF UploadSteps
<1> QED BY <1>8, <1>9

\* A step of an upload that takes an entry.
LEMMA UploadTakes ==
    ASSUME FilesInv, NEW u \in Uploads, NEW x \in JobRecords, NEW p \in Picks,
           job' = [job EXCEPT ![u] = x], x.why = None, x.pc = "put",
           job[u].pc # "done", UploadEnds(x), FitsAfter(x), ServerInv',
           vault[p] # Unbound, x.took, x.snap = p, ~job[u].took,
           \A t \in Snaps : vault'[t] = IF t = p THEN Unbound ELSE vault[t],
           vault' \in [Snaps -> Nat], cleanup' = cleanup,
           UNCHANGED <<epoch, files, bytes, failed, grants, target, shown>>
    PROVE  FilesInv'
<1> DEFINE S == {}
           T == {p}
<1>2. \A t \in Snaps : vault'[t] = IF t \in S \cup T THEN Unbound ELSE vault[t]
  OBVIOUS
<1>3. /\ S \in SUBSET Snaps /\ \A t \in S : vault[t] # Unbound
      /\ T \in SUBSET Picks /\ cleanup' = cleanup \cup S
      /\ \A t \in T : vault[t] # Unbound /\ x.took /\ x.snap = t /\ x.pc # "done"
  OBVIOUS
<1> HIDE DEF S, T
<1> QED BY <1>2, <1>3, UploadAlone

\* consume() by a valid upload: the snapshot has no other owner, and no other
\* upload has ever taken it.
LEMMA SignedKeeps ==
    ASSUME FilesInv, NEW u \in Uploads, NEW out, Signed(u, out)
    PROVE  FilesInv'
<1> DEFINE p == job[u].snap
<1>1. /\ UNCHANGED <<epoch, files, bytes, failed, grants, server, target, shown>>
      /\ job[u].pc = "sign"
  BY DEF Signed
<1>2. /\ u \in Jobs /\ job \in [Jobs -> JobRecords] /\ job[u] \in JobRecords
      /\ UploadFits(u) /\ UploadEnds(job[u]) /\ vault \in [Snaps -> Nat]
      /\ Unbound \in Nat
  BY KindsApart DEF FilesInv, ShapesInv, UploadsInv, EndsInv, Bindings, Unbound
<1>3. p \in Picks /\ p \in Snaps /\ job[u].att \in Uploads /\ job[u].epoch # 0
         /\ job[p].pc = "done" /\ ~job[u].took
  BY <1>1, <1>2, KindsApart DEF UploadFits, UploadSteps
<1>4. \/ /\ job' = Done(u, "refused") \/ job' = Done(u, "failed")
         /\ UNCHANGED <<vault, cleanup>>
      \/ /\ vault' = take(p) /\ job' = Done(u, "failed")
         /\ cleanup' = cleanup \cup (IF vault[p] = Unbound THEN {} ELSE {p})
      \/ /\ vault' = take(p) /\ Valid(p, job[u].epoch) /\ cleanup' = cleanup
         /\ validateUploadPair(job[u].att, p)
         /\ job' = [job EXCEPT ![u] = [@ EXCEPT !.pc = "put", !.took = TRUE]]
  <2> DEFINE checked == Answered(u, out) /\ validateUploadPair(job[u].att, p)
             granted == Grantable(server[job[u].att].kind)
  <2>1. CASE ~checked \/ ~granted
    BY <2>1 DEF Signed
  <2>2. CASE checked /\ granted /\ Cardinality(Active) >= MaxActive
    BY <2>2 DEF Signed
  <2>3. CASE checked /\ granted /\ ~(Cardinality(Active) >= MaxActive)
    <3>1. /\ vault' = consume(p)
          /\ IF Valid(p, job[u].epoch)
             THEN /\ job' = [job EXCEPT ![u] = [@ EXCEPT !.pc = "put", !.took = TRUE]]
                  /\ UNCHANGED cleanup
             ELSE /\ job' = Done(u, "failed")
                  /\ cleanup' = cleanup \cup (IF vault[p] = Unbound THEN {} ELSE {p})
      BY <2>3 DEF Signed
    <3> QED BY <2>3, <3>1 DEF consume
  <2> QED BY <2>1, <2>2, <2>3
<1>5. CASE /\ job' = Done(u, "refused") \/ job' = Done(u, "failed")
           /\ UNCHANGED <<vault, cleanup>>
  <2>1. PICK why \in {"refused", "failed"} : job' = Done(u, why)
    BY <1>5
  <2>2. PICK x \in JobRecords : job' = [job EXCEPT ![u] = x] /\ x.pc = "done"
    BY <1>2, <2>1, DoneJob
  <2>3. ServerInv'
    BY <1>1, <2>2, ServerStays
  <2>4. job[u].pc \in UploadSteps \cup {"idle"}
    BY <1>1 DEF UploadSteps
  <2> QED BY <1>1, <1>3, <1>5, <2>1, <2>3, <2>4, UploadFails
<1>6. CASE /\ vault' = take(p) /\ job' = Done(u, "failed")
           /\ cleanup' = cleanup \cup (IF vault[p] = Unbound THEN {} ELSE {p})
  BY <1>1, <1>3, <1>6, UploadDrops
<1>7. CASE /\ vault' = take(p) /\ Valid(p, job[u].epoch) /\ cleanup' = cleanup
           /\ validateUploadPair(job[u].att, p)
           /\ job' = [job EXCEPT ![u] = [@ EXCEPT !.pc = "put", !.took = TRUE]]
  <2> DEFINE x == [job[u] EXCEPT !.pc = "put", !.took = TRUE]
  <2>1. TRUE \in BOOLEAN
    OBVIOUS
  <2>2. x \in JobRecords
    BY <1>2, <2>1 DEF JobRecords, Running, UploadSteps
  <2>3. x.pc = "put" /\ x.att = job[u].att /\ x.snap = job[u].snap
           /\ x.why = job[u].why /\ x.epoch = job[u].epoch
    BY <1>2 DEF JobRecords
  <2>4. x.took /\ x.ok = job[u].ok /\ x.withdrawn = job[u].withdrawn
    BY <1>2 DEF JobRecords
  <2>5. job' = [job EXCEPT ![u] = x]
    BY <1>7
  <2>6. vault[p] # Unbound
    BY <1>3, <1>7 DEF Valid, Unbound
  <2> HIDE DEF x
  <2>7. p \in files /\ p \notin cleanup \cup failed
    BY <1>3, <2>6 DEF FilesInv, SpoolInv
  <2>8. server[x.att].meta = job[x.snap].content
    BY <1>7, <2>3 DEF validateUploadPair
  <2>9. ServerInv'
    BY <1>1, <1>3, <2>2, <2>3, <2>5, <2>8, ServerStays
  <2>10. UploadEnds(x)
    BY <1>1, <1>2, <2>3, <2>4 DEF UploadEnds, UploadSteps
  <2>11. vault'[p] = Unbound
    BY <1>2, <1>3, <1>7 DEF take
  <2>12. FitsAfter(x)
    BY <1>1, <1>3, <1>7, <2>3, <2>4, <2>7, <2>11 DEF FitsAfter, UploadSteps
  <2>13. x.why = None /\ job[u].pc # "done"
    BY <1>1, <1>2, <2>3 DEF FilesInv, ShapesInv
  <2>14. x.snap = p /\ x.pc = "put" /\ p \in Picks /\ ~job[u].took
    BY <1>3, <2>3
  <2>15. /\ \A t \in Snaps : vault'[t] = IF t = p THEN Unbound ELSE vault[t]
         /\ vault' \in [Snaps -> Nat] /\ cleanup' = cleanup
    BY <1>2, <1>7 DEF take
  <2> HIDE DEF p
  <2> QED BY <1>1, <2>2, <2>4, <2>5, <2>6, <2>9, <2>10, <2>12, <2>13, <2>14, <2>15,
             UploadTakes
<1> QED BY <1>4, <1>5, <1>6, <1>7

LEMMA PutKeeps ==
    ASSUME FilesInv, NEW u \in Uploads, NEW out, Put(u, out)
    PROVE  FilesInv'
<1> DEFINE p == job[u].snap
           a == job[u].att
           x == [job[u] EXCEPT !.ok = out = "ok",
                     !.pc = IF out = "error" THEN "close" ELSE "sent"]
           y == [server[a] EXCEPT !.object = job[p].content]
<1>1. /\ UNCHANGED <<epoch, files, bytes, vault, cleanup, failed, grants, target,
                     shown>>
      /\ job[u].pc = "put" /\ (job[u].aborted => out = "error")
      /\ job' = [job EXCEPT ![u] = x]
  BY DEF Put
<1>2. /\ u \in Jobs /\ job \in [Jobs -> JobRecords] /\ job[u] \in JobRecords
      /\ UploadFits(u) /\ UploadEnds(job[u]) /\ server \in [Uploads -> Attachments]
  BY KindsApart DEF FilesInv, ShapesInv, UploadsInv, EndsInv, ServerInv, Attachments
<1>3. /\ p \in Picks /\ p \in Jobs /\ a \in Uploads /\ job[u].epoch # 0
      /\ job[p].pc = "done" /\ job[u].took /\ vault[p] = Unbound
      /\ p \in files /\ p \notin cleanup \cup failed
  BY <1>1, <1>2, KindsApart DEF UploadFits, UploadSteps
<1>4. /\ server[a].state # None /\ server[a].meta = job[p].content
      /\ server[a].object \in {None, server[a].meta}
      /\ job[a].pc \notin {"idle", "create"}
  BY <1>1, <1>3 DEF FilesInv, ServerInv
<1>5. server' = server \/ server' = [server EXCEPT ![a] = y]
  BY DEF Put
<1>6. x \in JobRecords
  <2>1. (out = "ok") \in BOOLEAN
    OBVIOUS
  <2>2. (IF out = "error" THEN "close" ELSE "sent") \in Running
    BY DEF Running, UploadSteps
  <2> QED BY <1>2, <2>1, <2>2 DEF JobRecords
<1>7. x.pc = (IF out = "error" THEN "close" ELSE "sent") /\ x.att = a /\ x.snap = p /\ x.epoch = job[u].epoch
         /\ x.why = job[u].why
  BY <1>2 DEF JobRecords
<1>8. x.ok = (out = "ok") /\ x.took = job[u].took /\ x.withdrawn = job[u].withdrawn
  BY <1>2 DEF JobRecords
<1>9. job[p].content \in Contents \cup {None}
  BY <1>2, <1>3 DEF JobRecords
<1>10. y \in Attachments
  BY <1>2, <1>3, <1>9 DEF Attachments
<1>11. y.state = server[a].state /\ y.meta = server[a].meta /\ y.object = y.meta
  BY <1>2, <1>3, <1>4 DEF Attachments
<1> HIDE DEF x, y, p, a
<1>12. ServerInv'
  <2>1. CASE server' = server
    BY <1>1, <1>6, <1>7, <2>1, ServerStays DEF a
  <2>2. CASE server' = [server EXCEPT ![a] = y]
    <3>1. server'[a] = y /\ y.state # None
      BY <1>2, <1>3, <1>4, <1>11, <2>2
    <3>2. (IF a = u THEN x.pc ELSE job[a].pc) \notin {"idle", "create"}
      BY <1>4, <1>7
    <3>3. x.att \in Uploads /\ server'[x.att].state # None /\ x.pc # "put"
      BY <1>3, <1>7, <3>1
    <3>4. y.object \in {None, y.meta} /\ y.object = y.meta /\ y.meta = server[a].meta
      BY <1>11
    <3>5. x.pc \notin {"idle", "create", "put"}
      BY <1>7
    <3> QED BY <1>3, <1>6, <1>10, <1>1, <2>2, <3>1, <3>2, <3>3, <3>4, <3>5,
               ServerMoves
  <2> QED BY <1>5, <2>1, <2>2
<1>13. UploadEnds(x)
  BY <1>1, <1>2, <1>7, <1>8 DEF UploadEnds, UploadSteps
<1>14. FitsAfter(x)
  BY <1>1, <1>3, <1>7, <1>8 DEF FitsAfter, UploadSteps
<1>15. /\ x.why = None /\ job[u].pc # "done" /\ x.took /\ job[u].took
       /\ x.snap = job[u].snap /\ x.pc # "done"
  BY <1>1, <1>2, <1>3, <1>7, <1>8 DEF FilesInv, ShapesInv, p
<1> QED BY <1>1, <1>6, <1>12, <1>13, <1>14, <1>15, UploadMoves

LEMMA SentKeeps ==
    ASSUME FilesInv, NEW u \in Uploads, NEW same \in BOOLEAN, Sent(u, same)
    PROVE  FilesInv'
<1> DEFINE k == job[u].ok /\ same
           x == [job[u] EXCEPT !.pc = "close", !.ok = k]
<1>1. /\ UNCHANGED <<epoch, files, bytes, vault, cleanup, failed, grants, server,
                     target, shown>>
      /\ job[u].pc = "sent" /\ job' = [job EXCEPT ![u] = x]
  BY DEF Sent
<1>2. /\ u \in Jobs /\ job \in [Jobs -> JobRecords] /\ job[u] \in JobRecords
      /\ UploadFits(u) /\ UploadEnds(job[u])
  BY KindsApart DEF FilesInv, ShapesInv, UploadsInv, EndsInv
<1>3. /\ job[u].snap \in Picks /\ job[u].att \in Uploads /\ job[u].epoch # 0
      /\ job[job[u].snap].pc = "done" /\ job[u].took /\ vault[job[u].snap] = Unbound
      /\ job[u].snap \in files /\ job[u].snap \notin cleanup \cup failed
  BY <1>1, <1>2 DEF UploadFits, UploadSteps
<1>4. k \in BOOLEAN /\ (k => job[u].ok)
  BY <1>2 DEF JobRecords
<1> HIDE DEF k
<1>5. x \in JobRecords
  BY <1>2, <1>4 DEF JobRecords, Running, UploadSteps
<1>6. x.pc = "close" /\ x.att = job[u].att /\ x.snap = job[u].snap
         /\ x.epoch = job[u].epoch /\ x.why = job[u].why
  BY <1>2 DEF JobRecords
<1>7. (x.ok => job[u].ok) /\ x.took = job[u].took /\ x.withdrawn = job[u].withdrawn
  BY <1>2, <1>4 DEF JobRecords
<1> HIDE DEF x
<1>8. ServerInv'
  BY <1>1, <1>5, <1>6, ServerStays
<1>9. UploadEnds(x)
  BY <1>1, <1>2, <1>6, <1>7 DEF UploadEnds, UploadSteps
<1>10. FitsAfter(x)
  BY <1>1, <1>3, <1>6, <1>7 DEF FitsAfter, UploadSteps
<1>11. /\ x.why = None /\ job[u].pc # "done" /\ x.took /\ job[u].took
       /\ x.snap = job[u].snap /\ x.pc # "done"
  BY <1>1, <1>2, <1>3, <1>6, <1>7 DEF FilesInv, ShapesInv
<1> QED BY <1>1, <1>5, <1>8, <1>9, <1>10, <1>11, UploadMoves

\* The snapshot an upload has taken is removed; nobody else knows of it.
LEMMA UploadRemoves ==
    ASSUME FilesInv, NEW u \in Uploads, NEW x \in JobRecords, NEW p \in Picks,
           job' = [job EXCEPT ![u] = x], x.why # None => x.pc = "done",
           x.pc \in {"confirm", "done"}, x.took, x.snap = p,
           x.pc = "confirm" => x.att \in Uploads /\ x.epoch # 0,
           job[u].pc = "close", job[u].snap = p, UploadEnds(x), ServerInv',
           files' = files \ {p}, bytes' = Release({p}),
           UNCHANGED <<epoch, vault, cleanup, failed, grants, target, shown>>
    PROVE  FilesInv'
<1> USE KindsApart
<1>1. /\ job' \in [Jobs -> JobRecords] /\ job'[u] = x
      /\ \A k \in Jobs : k # u => job'[k] = job[k]
  BY OneJob DEF FilesInv, ShapesInv
<1>2. \A s \in Snaps : job'[s] = job[s]
  BY <1>1
<1>3. UploadFits(u)
  BY DEF FilesInv, UploadsInv
<1>4. /\ p \in files /\ p \notin cleanup \cup failed /\ job[u].took
      /\ vault[p] = Unbound /\ job[p].pc = "done"
  BY <1>3 DEF UploadFits
<1>5. SpoolAccounted' /\ bytes' \in [file : Int, preview : Int]
  <2>1. {p} \subseteq files /\ SpoolAccounted
    BY <1>4 DEF FilesInv, SpoolInv
  <2> QED BY <2>1, ReleaseCounts
<1>6. ShapesInv'
  <2>1. \A j \in Jobs : job'[j].why # None => job'[j].pc = "done"
    BY <1>1 DEF FilesInv, ShapesInv
  <2>2. files' \subseteq Jobs
    BY DEF FilesInv, ShapesInv
  <2> QED BY <1>1, <1>5, <2>1, <2>2 DEF FilesInv, ShapesInv
<1>7. SpoolInv'
  <2>1. ASSUME NEW s \in Snaps, vault[s] # Unbound
        PROVE  job'[s].pc = "done" /\ s \in files' /\ s \notin cleanup \cup failed
    BY <1>2, <1>4, <2>1 DEF FilesInv, SpoolInv
  <2>2. ASSUME NEW q \in Picks
        PROVE  /\ job'[q].pc \in {"idle", "dialog"} => q \notin files'
               /\ job'[q].pc \in {"dialog", "copy"} => job'[q].epoch # 0
               /\ job'[q].pc = "copy" => q \in files' /\ q \notin cleanup \cup failed
    BY <1>2, <1>4 DEF FilesInv, SpoolInv
  <2>3. ASSUME NEW v \in Previews, job'[v].pc # "done" PROVE v \notin files'
    BY <1>2, <2>3 DEF FilesInv, SpoolInv
  <2>4. cleanup \subseteq files' \cap Snaps /\ failed \subseteq files' \cap Picks
           /\ cleanup \cap failed = {}
    BY <1>4 DEF FilesInv, SpoolInv
  <2> QED BY <1>5, <2>1, <2>2, <2>3, <2>4 DEF SpoolInv
<1>8. ASSUME NEW w \in Uploads, w # u
      PROVE  /\ job'[w] = job[w] /\ UploadFits(w) /\ UploadEnds(job[w])
             /\ job[w].took => job[w].snap # p
             /\ job[w].snap \in Picks => job'[job[w].snap] = job[job[w].snap]
  <2>1. job'[w] = job[w] /\ UploadFits(w) /\ UploadEnds(job[w])
    BY <1>1, <1>8 DEF FilesInv, UploadsInv, EndsInv
  <2>2. job[w].took => job[w].snap # p
    BY <1>4, <1>8 DEF FilesInv, SnapshotSentOnce
  <2> QED BY <1>2, <2>1, <2>2
<1>9. SnapshotsOwned'
  <2>1. SUFFICES ASSUME NEW q \in files' \cap Picks
        PROVE  \/ job[q].pc = "copy" \/ vault[q] # Unbound
               \/ q \in cleanup \cup failed \/ job[q].why = "lost"
               \/ \E w \in Uploads : job'[w].took /\ job'[w].snap = q
                       /\ (job'[w].pc # "done" \/ job'[w].why = "failed")
    BY <1>2 DEF SnapshotsOwned
  <2>2. q \in files \cap Picks /\ q # p
    OBVIOUS
  <2>3. \/ job[q].pc = "copy" \/ vault[q] # Unbound \/ q \in cleanup \cup failed
        \/ job[q].why = "lost"
        \/ \E w \in Uploads : job[w].took /\ job[w].snap = q
                /\ (job[w].pc # "done" \/ job[w].why = "failed")
    BY <2>2 DEF FilesInv, SnapshotsOwned
  <2> QED BY <1>8, <2>2, <2>3
<1>10. UploadsInv'
  <2>1. SUFFICES ASSUME NEW w \in Uploads PROVE UploadFits(w)'
    BY DEF UploadsInv
  <2>2. CASE w = u
    <3>1. job'[p] = job[p] /\ p \notin files'
      BY <1>2
    <3> QED BY <1>1, <1>4, <2>2, <3>1 DEF UploadFits, UploadSteps
  <2>3. CASE w # u
    <3>1. /\ job'[w] = job[w] /\ UploadFits(w)
          /\ job[w].took => job[w].snap # p
          /\ job[w].snap \in Picks => job'[job[w].snap] = job[job[w].snap]
      BY <1>8, <2>3
    <3>2. job[w].pc \in {"create", "sign", "put", "sent", "close"} =>
             job'[job[w].snap] = job[job[w].snap]
      BY <3>1 DEF UploadFits, UploadSteps
    <3> QED BY <3>1, <3>2 DEF UploadFits
  <2> QED BY <2>2, <2>3
<1>11. SnapshotSentOnce'
  <2>1. \A w \in Uploads : job'[w].took => job[w].took /\ job'[w].snap = job[w].snap
    BY <1>1, <1>4, <1>8
  <2> QED BY <2>1 DEF FilesInv, SnapshotSentOnce
<1>12. EndsInv'
  <2>1. \A w \in Uploads : UploadEnds(job'[w])
    BY <1>1, <1>8
  <2>2. \A d \in Downloads : job'[d] = job[d]
    BY <1>1
  <2> QED BY <2>1, <2>2 DEF FilesInv, EndsInv, TargetFits, TargetWhole
<1>13. PreviewsInv'
  BY <1>2 DEF FilesInv, PreviewsInv, PreviewFits, PreviewsServedToTheirSession
<1> QED BY <1>6, <1>7, <1>9, <1>10, <1>11, <1>12, <1>13 DEF FilesInv

LEMMA ClosedKeeps ==
    ASSUME FilesInv, NEW u \in Uploads, NEW ok \in BOOLEAN, Closed(u, ok)
    PROVE  FilesInv'
<1> DEFINE p == job[u].snap
<1>1. /\ UNCHANGED <<epoch, vault, cleanup, failed, grants, server, target, shown>>
      /\ job[u].pc = "close"
  BY DEF Closed
<1>2. /\ u \in Jobs /\ job \in [Jobs -> JobRecords] /\ job[u] \in JobRecords
      /\ UploadFits(u) /\ UploadEnds(job[u]) /\ epoch \in Nat
  BY KindsApart DEF FilesInv, ShapesInv, UploadsInv, EndsInv
<1>3. p \in Picks /\ job[u].att \in Uploads /\ job[u].epoch # 0 /\ job[u].took
  BY <1>1, <1>2 DEF UploadFits, UploadSteps
<1>4. CASE job' = Done(u, "failed")
  <2>1. PICK x \in JobRecords : /\ Done(u, "failed") = [job EXCEPT ![u] = x]
             /\ x.pc = "done" /\ x.ok = job[u].ok /\ x.took = job[u].took
             /\ x.withdrawn = job[u].withdrawn /\ x.snap = p
    BY DoneJob, <1>2
  <2>2. ServerInv'
    BY <1>1, <1>4, <2>1, ServerStays
  <2>3. CASE ~ok
    <3>1. files' = files /\ bytes' = bytes
      BY <2>3 DEF Closed
    <3> QED BY <1>1, <1>4, <2>2, <3>1, UploadFails DEF UploadSteps
  <2>4. CASE ok
    <3>1. files' = files \ {p} /\ bytes' = Release({p})
      BY <2>4 DEF Closed
    <3>2. UploadEnds(x)
      BY <1>2, <2>1 DEF UploadEnds
    <3> QED BY <1>1, <1>3, <1>4, <2>1, <2>2, <3>1, <3>2, UploadRemoves
  <2> QED BY <2>3, <2>4
<1>5. CASE ok /\ job[u].ok
           /\ job' = [job EXCEPT ![u] = [@ EXCEPT !.pc = "confirm", !.lease = epoch]]
  <2> DEFINE x == [job[u] EXCEPT !.pc = "confirm", !.lease = epoch]
  <2>1. x \in JobRecords
    BY <1>2 DEF JobRecords, Running, UploadSteps
  <2>2. x.pc = "confirm" /\ x.att = job[u].att /\ x.snap = p
           /\ x.epoch = job[u].epoch /\ x.why = job[u].why
    BY <1>2 DEF JobRecords
  <2>3. x.ok = job[u].ok /\ x.took = job[u].took /\ x.withdrawn = job[u].withdrawn
    BY <1>2 DEF JobRecords
  <2>4. job' = [job EXCEPT ![u] = x] /\ files' = files \ {p} /\ bytes' = Release({p})
    BY <1>5 DEF Closed
  <2> HIDE DEF x
  <2>5. ServerInv'
    BY <1>1, <2>1, <2>2, <2>4, ServerStays
  <2>6. UploadEnds(x)
    BY <1>2, <1>5, <2>2, <2>3 DEF UploadEnds, UploadSteps
  <2>7. x.why = None
    BY <1>1, <1>2, <2>2 DEF FilesInv, ShapesInv
  <2>8. x.took
    BY <1>3, <2>3
  <2> QED BY <1>1, <1>3, <2>1, <2>2, <2>4, <2>5, <2>6, <2>7, <2>8, UploadRemoves
<1> QED BY <1>4, <1>5 DEF Closed

\* The server calls an attachment uploaded only if it holds an object, and what
\* it holds is what was registered.
LEMMA ConfirmedKeeps ==
    ASSUME FilesInv, NEW u \in Uploads, NEW out, Confirmed(u, out)
    PROVE  FilesInv'
<1> DEFINE a == job[u].att
           y == [server[a] EXCEPT !.state = "uploaded"]
<1>1. /\ UNCHANGED <<epoch, files, bytes, vault, cleanup, failed, grants, target,
                     shown>>
      /\ job[u].pc = "confirm"
  BY DEF Confirmed
<1>2. /\ u \in Jobs /\ job \in [Jobs -> JobRecords] /\ job[u] \in JobRecords
      /\ UploadFits(u) /\ UploadEnds(job[u]) /\ server \in [Uploads -> Attachments]
  BY KindsApart DEF FilesInv, ShapesInv, UploadsInv, EndsInv, ServerInv, Attachments
<1>3. a \in Uploads /\ job[u].took /\ job[u].snap \notin files
  BY <1>1, <1>2 DEF UploadFits, UploadSteps
<1>4. PICK why \in {"completed", "failed"} : job' = Done(u, why)
  BY DEF Confirmed
<1>5. PICK x \in JobRecords : /\ job' = [job EXCEPT ![u] = x]
             /\ x.pc = "done" /\ x.ok = job[u].ok /\ x.took = job[u].took
             /\ x.withdrawn = job[u].withdrawn /\ x.snap = job[u].snap
  BY DoneJob, <1>2, <1>4
<1>6. \/ server' = server
      \/ server[a].object # None /\ server' = [server EXCEPT ![a] = y]
  BY DEF Confirmed
<1>7. y \in Attachments
  BY <1>2, <1>3 DEF Attachments
<1>8. y.state = "uploaded" /\ y.meta = server[a].meta /\ y.object = server[a].object
  BY <1>2, <1>3 DEF Attachments
<1> HIDE DEF y
<1>9. /\ server[a].state # None /\ server[a].object \in {None, server[a].meta}
      /\ job[a].pc \notin {"idle", "create"}
  BY <1>1, <1>3 DEF FilesInv, ServerInv
<1>10. ServerInv'
  <2>1. CASE server' = server
    BY <1>5, <2>1, ServerStays
  <2>2. CASE server[a].object # None /\ server' = [server EXCEPT ![a] = y]
    <3>1. y.object = y.meta /\ y.object \in {None, y.meta} /\ y.state # None
             /\ y.meta = server[a].meta
      BY <1>8, <1>9, <2>2 DEF None
    <3>2. (IF a = u THEN x.pc ELSE job[a].pc) \notin {"idle", "create"}
      BY <1>5, <1>9
    <3> HIDE DEF a
    <3> QED BY <1>3, <1>5, <1>7, <2>2, <3>1, <3>2, ServerMoves
  <2> QED BY <1>6, <2>1, <2>2
<1>11. UploadEnds(x)
  BY <1>2, <1>5 DEF UploadEnds
<1>12. FitsAfter(x)
  BY <1>1, <1>2, <1>5 DEF FitsAfter, UploadFits, UploadSteps
<1>13. job[u].pc # "done" /\ ~(job[u].took /\ job[u].snap \in files)
  BY <1>1, <1>3
<1> QED BY <1>1, <1>5, <1>10, <1>11, <1>12, <1>13, UploadMoves

LEMMA UploadKeeps ==
    ASSUME FilesInv, NEW u \in Uploads, UploadStep(u)
    PROVE  FilesInv'
BY CreatedKeeps, ConfirmedKeeps, SignedKeeps, PutKeeps, SentKeeps,
   ClosedKeeps DEF UploadStep

-----------------------------------------------------------------------------
\* The theorems.

LEMMA FilesBegin ==
    ASSUME Init
    PROVE  FilesInv
<1> USE KindsApart
<1>1. NoJob \in JobRecords
  <2>1. TRUE \in BOOLEAN /\ FALSE \in BOOLEAN
    OBVIOUS
  <2> QED BY <2>1 DEF NoJob, JobRecords, None
<1>2. /\ NoJob.pc = "idle" /\ NoJob.why = None /\ NoJob.snap = None /\ ~NoJob.took
      /\ ~NoJob.ok /\ ~NoJob.withdrawn
  BY DEF NoJob
<1>3. job = [j \in Jobs |-> NoJob]
  BY DEF Init
<1>4. \A j \in Jobs : job[j] = NoJob
  BY <1>3
<1>5. NoAttachment \in Attachments
  BY DEF NoAttachment, Attachments, None
<1>6. NoAttachment.state = None /\ NoAttachment.object = None
  BY DEF NoAttachment
<1>7. /\ server = [u \in Uploads |-> NoAttachment] /\ epoch = 1 /\ files = {}
      /\ bytes = [file |-> 0, preview |-> 0] /\ cleanup = {} /\ failed = {}
      /\ vault = [s \in Snaps |-> Unbound] /\ shown = [of |-> 0, at |-> 0]
  BY DEF Init
<1>8. target.id = 0 /\ target.whole
  BY DEF Init
<1> HIDE DEF NoJob, NoAttachment
<1>9. ShapesInv
  BY <1>1, <1>2, <1>3, <1>4, <1>7 DEF ShapesInv, Bindings, Unbound
<1>10. SpoolInv
  <2>1. Cardinality({}) = 0 /\ files \cap Picks = {} /\ files \cap Previews = {}
    BY <1>7, FS_EmptySet
  <2>2. SpoolAccounted
    BY <1>7, <2>1 DEF SpoolAccounted
  <2> QED BY <1>2, <1>4, <1>7, <2>2 DEF SpoolInv
<1>11. SnapshotsOwned /\ SnapshotSentOnce
  BY <1>2, <1>4, <1>7 DEF SnapshotsOwned, SnapshotSentOnce
<1>12. UploadsInv
  BY <1>2, <1>4 DEF UploadsInv, UploadFits, UploadSteps
<1>13. EndsInv
  BY <1>2, <1>4, <1>8 DEF EndsInv, UploadEnds, DownloadEnds, TargetFits, TargetWhole
<1>14. PreviewsInv
  BY <1>2, <1>4, <1>7 DEF PreviewsInv, PreviewFits, PreviewsServedToTheirSession
<1>15. ServerInv
  <2>1. server \in [Uploads -> Attachments] /\ \A a \in Uploads : server[a] = NoAttachment
    BY <1>5, <1>7
  <2>2. \A a \in Uploads : server[a].state = None /\ server[a].object = None
           /\ server[a].state # "uploaded"
    BY <1>6, <2>1 DEF None
  <2>3. \A u \in Uploads : job[u].pc = "idle"
    BY <1>2, <1>4
  <2> QED BY <2>1, <2>2, <2>3 DEF ServerInv, Attachments
<1> QED BY <1>9, <1>10, <1>11, <1>12, <1>13, <1>14, <1>15 DEF FilesInv

LEMMA FilesStep ==
    ASSUME FilesInv, [Next]_vars
    PROVE  FilesInv'
<1>1. CASE Proceed
  BY <1>1, ChainKeeps, DrainedKeeps, RemovedKeeps, PickKeeps, UploadKeeps,
     DownloadKeeps, PreviewKeeps DEF Proceed
<1>2. CASE \/ UNCHANGED vars \/ ForeignFile \/ \E s \in Snaps : Expire(s)
           \/ \E d \in Downloads : GrantExpires(d)
  BY <1>2, AloneKeeps
<1>3. CASE \/ \E p \in Picks : choose(p)
           \/ \E u, a \in Uploads, p \in Picks, kind \in Targets :
                 uploadAttachment(u, p, a, kind)
           \/ \E d \in Downloads : downloadAttachment(d)
           \/ \E v \in Previews : openPreview(v)
  BY <1>3, ChooseKeeps, UploadBegins, DownloadBegins, PreviewBegins
<1>4. CASE \E v \in Previews : Resolve(v) \/ ReleasePreview(v)
  BY <1>4, ResolveKeeps, ReleaseKeeps
<1>5. CASE \E j \in Jobs : RestExpired(j)
  BY <1>5, RestExpiredKeeps
<1>6. CASE LeavePage \/ SignOut \/ SignIn
  BY <1>6, PageLeft
<1>7. CASE Restart
  BY <1>7, RestartKeeps
<1> QED BY <1>1, <1>2, <1>3, <1>4, <1>5, <1>6, <1>7 DEF Next

\* The inductive invariant: who owns a snapshot at every step, what a
\* withdrawal has reached, which epochs a preview has seen, and what the server
\* was told an attachment is.
THEOREM FilesInvariance == Spec => []FilesInv
<1>1. Init => FilesInv
  BY FilesBegin
<1>2. FilesInv /\ [Next]_vars => FilesInv'
  BY FilesStep
<1> QED BY <1>1, <1>2, PTL DEF Spec

\* The spools count what lies in them, and every copy of a user's file has one
\* owner that sends it once or removes it, for any number of operations, files
\* and faults.
THEOREM SpoolsKept == Spec => []SpoolKept
<1>1. FilesInv => SpoolKept
  BY DEF FilesInv, SpoolInv, SpoolKept
<1> QED BY <1>1, FilesInvariance, PTL

\* No transfer whose bytes were moving, or whose save dialog was open, when its
\* page or session ended is confirmed or saved, and no preview is served to
\* another session's page.
THEOREM TransfersEnd == Spec => []TransfersEndWithTheirPage
<1>1. ASSUME FilesInv PROVE WithdrawnTransfersStop
  <2>1. SUFFICES ASSUME NEW j \in Uploads \cup Downloads, job[j].withdrawn
                 PROVE  /\ ~job[j].ok
                        /\ job[j].pc \notin {"sent", "confirm", "verify", "rename"}
    BY DEF WithdrawnTransfersStop
  <2>2. CASE j \in Uploads
    <3>1. UploadEnds(job[j])
      BY <1>1, <2>2 DEF FilesInv, EndsInv
    <3> QED BY <2>1, <3>1 DEF UploadEnds, UploadSteps
  <2>3. CASE j \in Downloads
    <3>1. DownloadEnds(job[j], j \in grants)
      BY <1>1, <2>3 DEF FilesInv, EndsInv
    <3> QED BY <2>1, <3>1 DEF DownloadEnds, DownloadSteps
  <2> QED BY <2>2, <2>3
<1>2. FilesInv => TransfersEndWithTheirPage
  BY <1>1 DEF FilesInv, PreviewsInv, TransfersEndWithTheirPage
<1> QED BY <1>2, FilesInvariance, PTL

\* An attachment that the server calls uploaded holds the file it was
\* registered for, and what replaces a user's file is complete.
THEOREM ArriveWhole == Spec => []FilesArriveWhole
<1>1. FilesInv => FilesArriveWhole
  BY DEF FilesInv, ServerInv, EndsInv, TargetFits, FilesArriveWhole, ConfirmedMatches
<1> QED BY <1>1, FilesInvariance, PTL

=============================================================================
