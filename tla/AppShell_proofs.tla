--------------------------- MODULE AppShell_proofs ---------------------------
(***************************************************************************)
(* Proofs about AppShell: flags and previews have one holder each, what a  *)
(* page shows is of its address, and no slow load puts an older version    *)
(* over a change that was shown.                                           *)
(*                                                                         *)
(* The handlers enter the proofs through a few facts about their table     *)
(* (HandlerFits), which are looked up once; the rest speaks of any handler *)
(* with these facts.                                                       *)
(***************************************************************************)
EXTENDS AppShell, FiniteSetTheorems, TLAPS

Preview == "openAttachmentPreview"
Streamed == "refreshWorkItemRealtimeState"
Unlocker == "submitProjectResourceUnlock"

\* The flags no run is robbed of and no page load clears.
Steady == Flags \ ({"none", "unlock"} \cup Contested)

-----------------------------------------------------------------------------
\* The table of handlers.

\* The parts that pages with a key in their path show, but for the post and the
\* schedule.
Keyed == {"item", "comments", "attachments", "link", "reveal", "project",
          "cycles", "resources", "resource", "files", "cycle"}
OtherParts == {"post", "schedule", "projects", "list", "time", "profile",
               "tokens", "messages", "users", "roles", "storage", "openapi",
               "releases", "stats", "candidates"}

\* The item and its comments, whose versions are followed.
Tracked == {"item", "comments"}

\* A handler that shows the item or the comments it wrote gives up the loads
\* under way; one that shows what is keyed looks at the route; no resource is
\* shown without its files; the file is chosen before anything else.
StepFits(r, s) ==
    /\ s.parts \subseteq Keyed \cup OtherParts
    /\ s.shows \subseteq Keyed \cup OtherParts
    /\ s.do = "write" /\ s.shows \cap Tracked # {} => s.bumps
    /\ s.shows \cap Keyed # {} =>
          r.check \in {"route", "action", "request"} /\ ~r.now
    /\ "resource" \in s.shows => "files" \in s.shows
    /\ r.now => s.parts \cap Tracked = {}
    /\ s.do = "pick" => Len(r.script) >= 2

\* A handler needs the flag it takes to be free; a flag that is cleared by the
\* holder of an action id goes with that counter; only previews use theirs.
HandlerFits(h, r) ==
    /\ r.takes \in Flags /\ r.group \in Groups /\ r.needs \subseteq Flags
    /\ r.late \in BOOLEAN /\ r.now \in BOOLEAN
    /\ r.takes # "none" /\ ~r.late => r.takes \in r.needs
    /\ r.late => r.takes = "releases" /\ r.group = "asset"
    /\ r.takes # "unlock" => r.frees \in {"always", "owner", "live"}
    /\ r.frees = "live" =>
          \/ r.group \in {"attach", "resourceFile"}
          \/ r.group = "asset" /\ r.takes = "releases"
    /\ r.group \in {"attach", "resourceFile"} => r.takes = r.group /\ ~r.late
    /\ r.group = "asset" => r.late
    /\ r.late \/ r.lax => h \in Robbers
    /\ r.frees = "live" => h \in Robbers \/ r.takes = "attach"
    /\ r.frees = "always" /\ r.takes # "none" => h \in Robbers \/ r.takes \in Steady
    /\ r.takes = "attach" => r.frees = "live" /\ r.group = "attach"
    /\ r.takes = "unlock" <=> h = Unlocker
    /\ h = Unlocker =>
          r.group = "resource" /\ r.check = "action" /\ ~r.now /\ ~r.late
          /\ ~r.lax /\ r.frees = "current" /\ r.ends = None
    /\ r.salvages => r.check = "action" /\ ~r.now
    /\ Len(r.script) \in Nat \ {0}
    /\ \A i \in 1 .. Len(r.script) : StepFits(r, r.script[i])
    /\ r.group = "preview" => h = Preview
    /\ h = Preview => /\ Len(r.script) = 1 /\ r.script[1].do = "host"
                      /\ r.takes = "none" /\ r.ends = None
                      /\ r.group = "preview" /\ r.check = "action" /\ ~r.late
    /\ h = Streamed => r.takes = "none" /\ r.ends = None /\ ~r.late
    /\ r.ends \in {None, "uploadSelectedWorkItemAttachment"} \cup (Pages \ {"resource"})
    /\ r.ends = "uploadSelectedWorkItemAttachment" => r.takes = "none"
    /\ h = "submitWorkItemEdit" =>
          r.on = {"item"} /\ Len(r.script) = 3 /\ ~r.now /\ ~r.late

-----------------------------------------------------------------------------
\* The inductive invariant.

TaskRecords ==
    [h : HandlerNames \cup {None, "done"}, at : Routes \cup {Nowhere}, pc : Nat,
     served : BOOLEAN, took : BOOLEAN, holds : BOOLEAN, fresh : BOOLEAN,
     id : Tasks \cup {None}, got : [Parts -> Nat]]
LoadRecords ==
    [stage : {"idle", "cancel", "sent", "read"}, to : Routes \cup {Nowhere},
     mode : {"load", "refresh"}, live : BOOLEAN, id : Tasks \cup {None},
     by : Tasks \cup {None}, got : [Parts -> Nat]]
PartRecords ==
    [of : Keys \cup {None}, ver : Nat, by : {None, "load", "event", "run"},
     own : Nat]
LeftRecords ==
    [pages : SUBSET Pages, handlers : SUBSET HandlerNames,
     tasks : 0 .. Len(TaskSeq), loads : Nat, faults : Nat, others : Nat,
     events : Nat]

\* A run that was started has a place and is at a step of its script.
RunFits(x) ==
    x.h \in HandlerNames =>
        x.at \in Routes /\ x.pc \in 1 .. Len(Handlers[x.h].script)

\* What the variables are made of.
ShapesInv ==
    /\ route \in Routes
    /\ server \in [Keys -> [Parts -> Nat]]
    /\ shown \in [Parts -> PartRecords]
    /\ load \in [Loads -> LoadRecords]
    /\ \A l \in Loads : load[l].stage # "idle" => load[l].to \in Routes
    /\ task \in [Tasks -> TaskRecords]
    /\ \A t \in Tasks : RunFits(task[t])
    /\ busy \in [Flags -> Tasks \cup {None}]
    /\ cur \in [Groups -> Tasks \cup {None}]
    /\ draft \in [key : Keys \cup {None}, id : Tasks \cup {None}]
    /\ event \in [due : BOOLEAN, by : Realtime \cup {None}, again : BOOLEAN]

\* The runs to come have not begun, and only the event stream uses its runs.
RunsInv ==
    /\ left \in LeftRecords
    /\ \A i \in 1 .. Len(TaskSeq) :
          i > Len(TaskSeq) - left.tasks =>
             task[TaskSeq[i]].h = None /\ TaskSeq[i] \notin caps
    /\ \A t \in Realtime : Running(t) => task[t].h = Streamed

\* The parts of the invariant that follow are of tasks T, flags B, counters C,
\* robberies R, loads L, versions V at the server and parts S on the page, so
\* that they can be said of what an action makes of them.

\* A flag that is set belongs to a run that will clear it when it ends.
Owned(T, B, C, f) ==
    B[f] # None =>
        LET x == T[B[f]]
            h == Handlers[x.h]
        IN  /\ x.h \in HandlerNames /\ h.takes = f /\ x.took
            /\ h.frees = "live" => C[h.group] = B[f]

\* A run that holds a flag is the one that set it last, unless it was robbed.
HoldsIt(T, B, R, t) ==
    LET f == Handlers[T[t].h].takes
    IN  T[t].h \in HandlerNames /\ T[t].holds /\ f # "none" =>
            B[f] = t \/ (f \in Contested /\ \E r \in R : r[1] = t)

\* A run with a steady flag holds it as long as it lasts.
StillHolds(x) ==
    x.h \in HandlerNames /\ Handlers[x.h].takes \in Steady => x.holds

\* Whoever may still clear the flag of the unlock button is the one that set it.
UnlockOwned(T, B, C) ==
    \A t \in Tasks : T[t].h = Unlocker /\ C["resource"] = t => B["unlock"] = t

FlagsFit(T, B, C, R) ==
    /\ \A f \in Flags \ {"none", "unlock"} : Owned(T, B, C, f)
    /\ \A t \in Tasks : HoldsIt(T, B, R, t)
    /\ \A t \in Tasks : StillHolds(T[t])
    /\ UnlockOwned(T, B, C)
    /\ \A r \in R : r[2] \in Robbers

\* A capability is in use, or will be when its run is answered; and whoever may
\* still bring it into use finds no other in use.
CapsFit(T, C, c, K) ==
    /\ K \subseteq Tasks
    /\ \A t \in K : t = c \/ (T[t].h = Preview /\ T[t].served)
    /\ \A t \in Tasks : T[t].h = Preview /\ C["preview"] = t => c = None

\* The versions of the item and of its comments.
ShownFits(S, V, p) ==
    /\ S[p].of # None => S[p].ver <= V[S[p].of][p] /\ S[p].own <= V[S[p].of][p]
    /\ S[p].by = "load" => S[p].ver >= S[p].own
LoadFits(S, V, x, p) ==
    x.stage = "read" =>
        /\ x.got[p] <= V[x.to.key][p]
        /\ /\ x.live /\ x.to.key = S[p].of /\ p \in Range(PartsOf[x.to.page])
           => x.got[p] >= S[p].own
RunReads(V, x, p) ==
    x.h \in HandlerNames =>
        /\ x.got[p] <= V[x.at.key][p]
        /\ Handlers[x.h].now => x.got[p] = 0

VersionsFit(S, V, L, T) ==
    \A p \in Tracked :
        /\ ShownFits(S, V, p)
        /\ \A l \in Loads : LoadFits(S, V, L[l], p)
        /\ \A t \in Tasks : RunReads(V, T[t], p)

\* What is shown of page r is of its key.  The files of a resource are not
\* reset with it, but no resource is shown without its files.
Clean(S, r) ==
    IF r.page = "resource"
    THEN /\ S["resource"].of \in {r.key, None}
         /\ S["project"].of \in {r.key, None}
         /\ S["resource"].of = r.key => S["files"].of \in {r.key, None}
    ELSE \A p \in OnPage(r.page) \ Unchecked : S[p].of \in {r.key, None}

\* The page is clean, or a load that will reset it waits for the cancellation
\* of a draft; and a load that is still wanted is of the open page.
PageFits(r, S, L) ==
    /\ r.page \in PathKeyed =>
          \/ Clean(S, r)
          \/ \E l \in Loads : L[l].stage = "cancel" /\ L[l].to = r
    /\ \A l \in Loads : L[l].live => L[l].to = r

\* The unlock button was disabled by a run that is under way, or by one that is
\* over.  The latter on the page r of a resource, with no other action on
\* resources begun since: then a load has yet to clear it.
UnlockFits(r, T, B, C, L) ==
    LET t == B["unlock"] IN
    t # None =>
        /\ T[t].h \in {Unlocker, "done"} /\ (T[t].h = Unlocker => T[t].took)
        /\ /\ C["resource"] = t /\ r.page = "resource"
           /\ ~(T[t].h = Unlocker /\ T[t].at = r)
           => \E l \in Loads : L[l].stage = "cancel" /\ L[l].to.page = "resource"

FlagsInv == FlagsFit(task, busy, cur, robbed)
UnlockInv == UnlockFits(route, task, busy, cur, load)
CapsInv == CapsFit(task, cur, cap, caps)
VersionsInv == VersionsFit(shown, server, load, task)
PageInv == PageFits(route, shown, load)

ShellInv ==
    ShapesInv /\ RunsInv /\ FlagsInv /\ CapsInv /\ VersionsInv /\ PageInv

-----------------------------------------------------------------------------
\* The table.

LEMMA PageNames ==
    Pages = {"item", "project", "library", "resource", "cycle", "projects",
             "list", "time", "profile", "messages", "users", "roles",
             "storage", "openapi", "releases", "stats"}
  BY DEF Pages, PartsOf

\* What the pages show, as sets.
LEMMA Ranges ==
    /\ \A a : Range(<<a>>) = {a}
    /\ \A a, b : Range(<<a, b>>) = {a, b}
    /\ \A a, b, c : Range(<<a, b, c>>) = {a, b, c}
    /\ \A a, b, c, d, e : Range(<<a, b, c, d, e>>) = {a, b, c, d, e}
  BY DEF Range

LEMMA PageParts ==
    /\ Range(PartsOf["item"]) = {"item", "post", "comments", "attachments", "link"}
    /\ Range(PartsOf["project"]) = {"project", "cycles", "schedule"}
    /\ Range(PartsOf["library"]) = {"project", "resources"}
    /\ Range(PartsOf["resource"]) = {"resource", "project", "files"}
    /\ Range(PartsOf["cycle"]) = {"cycle", "project"}
    /\ Range(PartsOf["profile"]) = {"profile", "tokens"}
    /\ \A q \in Pages \ (PathKeyed \cup {"profile"}) : Range(PartsOf[q]) = {q}
  BY Ranges, PageNames DEF PartsOf, PathKeyed

LEMMA PartNames == Parts = Keyed \cup OtherParts
  <1>1. \A q \in Pages : Range(PartsOf[q]) \subseteq Keyed \cup OtherParts
    BY PageParts, PageNames DEF PathKeyed, Keyed, OtherParts
  <1>2. \A p \in Keyed \cup OtherParts :
           p \in {"reveal", "candidates"} \/ \E q \in Pages : p \in Range(PartsOf[q])
    BY PageParts, PageNames DEF PathKeyed, Keyed, OtherParts
  <1>3. {"reveal", "candidates"} \subseteq Keyed \cup OtherParts
    BY DEF Keyed, OtherParts
  <1> QED
    BY <1>1, <1>2, <1>3 DEF Parts

LEMMA HandlersListed ==
    /\ Handlers["submitWorkItemEdit"] = submitWorkItemEdit
    /\ Handlers["submitWorkItemHandoff"] = submitWorkItemHandoff
    /\ Handlers["confirmWorkItemLifecycleAction"] = confirmWorkItemLifecycleAction
    /\ Handlers["requestWorkItemResourceLibraryLink"] = requestWorkItemResourceLibraryLink
    /\ Handlers["submitWorkItemComment"] = submitWorkItemComment
    /\ Handlers["submitWorkItemCommentAssign"] = submitWorkItemCommentAssign
    /\ Handlers["submitWorkItemCommentReply"] = submitWorkItemCommentReply
    /\ Handlers["submitWorkItemCommentReplyAssign"] = submitWorkItemCommentReplyAssign
    /\ Handlers["submitWorkItemCommentEdit"] = submitWorkItemCommentEdit
    /\ Handlers["cancelWorkItemCommentDraft"] = cancelWorkItemCommentDraft
    /\ Handlers["confirmWorkItemCommentAttachmentDelete"] = confirmWorkItemCommentAttachmentDelete
    /\ Handlers["uploadSelectedWorkItemAttachment"] = uploadSelectedWorkItemAttachment
    /\ Handlers["uploadSelectedWorkItemCommentAttachment"] = uploadSelectedWorkItemCommentAttachment
    /\ Handlers["pasteWorkItemPrimaryPostFile"] = pasteWorkItemPrimaryPostFile
    /\ Handlers["downloadWorkItemAttachment"] = downloadWorkItemAttachment
    /\ Handlers["refreshWorkItemRealtimeState"] = refreshWorkItemRealtimeState
    /\ Handlers["openAttachmentPreview"] = openAttachmentPreview
    /\ Handlers["runProjectMutation"] = runProjectMutation
    /\ Handlers["submitProjectCycle"] = runCycleMutation("project", "cycles")
    /\ Handlers["confirmProjectCycleClose"] = runCycleMutation("cycle", "cycle")
    /\ Handlers["openProjectMemberDialog"] = openProjectMemberDialog
    /\ Handlers["submitProjectCreate"] = submitProjectCreate
    /\ Handlers["persistTime"] = persistTime
    /\ Handlers["persistTimeSave"] = persistTimeSave
    /\ Handlers["confirmTimeChangeRestore"] = confirmTimeChangeRestore
    /\ Handlers["persistProjectTime"] = persistProjectTime
    /\ Handlers["submitWorkItemCreate"] = submitWorkItemCreate
    /\ Handlers["pasteWorkItemCreateFile"] = pasteWorkItemCreateFile
    /\ Handlers["confirmWorkItemBatchUpdate"] = confirmWorkItemBatchUpdate
    /\ Handlers["handleSetCurrentProject"] = handleSetCurrentProject
    /\ Handlers["handleMarkAllRead"] = handleMarkAllRead
    /\ Handlers["loadFilteredProjectResources"] = loadFilteredProjectResources
    /\ Handlers["submitProjectResourceUnlock"] = submitProjectResourceUnlock
    /\ Handlers["submitProjectResourceEdit"] = submitProjectResourceEdit
    /\ Handlers["submitProjectResourceCreate"] = submitProjectResourceCreate
    /\ Handlers["confirmProjectResourceArchive"] = confirmProjectResourceArchive
    /\ Handlers["submitProjectResourcePasswordReset"] = submitProjectResourcePasswordReset
    /\ Handlers["uploadSelectedProjectResourceAttachment"] = uploadSelectedProjectResourceAttachment
    /\ Handlers["pasteProjectResourceFile"] = pasteProjectResourceFile
    /\ Handlers["submitProfile"] = submitProfile
    /\ Handlers["runAccountSecurity"] = runAccountSecurity
    /\ Handlers["runSystemUserMutation"] = runSystemUserMutation
    /\ Handlers["runSystemRoleMutation"] = runSystemRoleMutation
    /\ Handlers["runSystemStorageMutation"] = runSystemStorageMutation
    /\ Handlers["runSystemApiTokenMutation"] = runSystemApiTokenMutation
    /\ Handlers["runSystemReleaseMutation"] = runSystemReleaseMutation
    /\ Handlers["uploadSelectedSystemReleaseAsset"] = uploadSelectedSystemReleaseAsset
    /\ Handlers["refreshSystemDatabaseStats"] = refreshSystemDatabaseStats
  BY DEF Handlers

\* The flags of which a run can be robbed.
LEMMA ContestedFlags ==
    Contested = {"item", "resourceFile", "members", "attach", "releases"}
  <1>1. /\ Handlers["cancelWorkItemCommentDraft"].takes = "item"
        /\ Handlers["pasteProjectResourceFile"].takes = "resourceFile"
        /\ Handlers["openProjectMemberDialog"].takes = "members"
        /\ Handlers["uploadSelectedWorkItemAttachment"].takes = "attach"
        /\ Handlers["uploadSelectedWorkItemCommentAttachment"].takes = "attach"
        /\ Handlers["uploadSelectedProjectResourceAttachment"].takes = "resourceFile"
        /\ Handlers["uploadSelectedSystemReleaseAsset"].takes = "releases"
        /\ Handlers["runSystemReleaseMutation"].takes = "releases"
    BY HandlersListed DEF cancelWorkItemCommentDraft, pasteProjectResourceFile,
       openProjectMemberDialog, uploadSelectedWorkItemAttachment,
       uploadSelectedWorkItemCommentAttachment, AttachmentMutation,
       uploadSelectedProjectResourceAttachment, runSystemReleaseMutation,
       uploadSelectedSystemReleaseAsset, SystemMutation, Handler
  <1> QED
    BY <1>1 DEF Contested, Robbers

\* Every handler of the table has these facts.
LEMMA HandlerTable ==
  ASSUME NEW h \in HandlerNames
  PROVE  HandlerFits(h, Handlers[h])
  <1> USE PageNames, ContestedFlags DEF HandlerFits, StepFits, Robbers, Steady, Unlocker, Keyed, OtherParts, Tracked, Flags,
        Groups, None, Preview, Streamed, Handler, Await, Pick, Host, Write,
        WriteBumping, Read
  <1>1. HandlerFits("submitWorkItemEdit", submitWorkItemEdit)
    BY DEF submitWorkItemEdit, ItemMutation, Companion
  <1>2. HandlerFits("submitWorkItemHandoff", submitWorkItemHandoff)
    BY DEF submitWorkItemHandoff, ItemMutation, Companion
  <1>3. HandlerFits("confirmWorkItemLifecycleAction",
                   confirmWorkItemLifecycleAction)
    BY DEF confirmWorkItemLifecycleAction, ItemMutation, Companion
  <1>4. HandlerFits("requestWorkItemResourceLibraryLink",
                   requestWorkItemResourceLibraryLink)
    BY DEF requestWorkItemResourceLibraryLink, ItemMutation
  <1>5. HandlerFits("submitWorkItemComment", submitWorkItemComment)
    BY DEF submitWorkItemComment, ItemMutation, Companion
  <1>6. HandlerFits("submitWorkItemCommentAssign",
                   submitWorkItemCommentAssign)
    BY DEF submitWorkItemCommentAssign, ItemMutation, Companion
  <1>7. HandlerFits("submitWorkItemCommentReply", submitWorkItemCommentReply)
    BY DEF submitWorkItemCommentReply, ItemMutation, Companion
  <1>8. HandlerFits("submitWorkItemCommentEdit", submitWorkItemCommentEdit)
    BY DEF submitWorkItemCommentEdit, ItemMutation, Companion
  <1>9. HandlerFits("cancelWorkItemCommentDraft", cancelWorkItemCommentDraft)
    BY DEF cancelWorkItemCommentDraft
  <1>10. HandlerFits("confirmWorkItemCommentAttachmentDelete",
                   confirmWorkItemCommentAttachmentDelete)
    BY DEF confirmWorkItemCommentAttachmentDelete, AttachmentMutation
  <1>11. HandlerFits("uploadSelectedWorkItemAttachment",
                   uploadSelectedWorkItemAttachment)
    BY DEF uploadSelectedWorkItemAttachment, AttachmentMutation
  <1>12. HandlerFits("uploadSelectedWorkItemCommentAttachment",
                   uploadSelectedWorkItemCommentAttachment)
    BY DEF uploadSelectedWorkItemCommentAttachment, AttachmentMutation,
      EnsureDraft
  <1>13. HandlerFits("pasteWorkItemPrimaryPostFile",
                   pasteWorkItemPrimaryPostFile)
    BY DEF pasteWorkItemPrimaryPostFile
  <1>14. HandlerFits("downloadWorkItemAttachment", downloadWorkItemAttachment)
    BY DEF downloadWorkItemAttachment
  <1>15. HandlerFits("refreshWorkItemRealtimeState",
                   refreshWorkItemRealtimeState)
    BY PageParts DEF refreshWorkItemRealtimeState
  <1>16. HandlerFits("openAttachmentPreview", openAttachmentPreview)
    BY DEF openAttachmentPreview
  <1>17. HandlerFits("runProjectMutation", runProjectMutation)
    BY DEF runProjectMutation
  <1>18. HandlerFits("submitProjectCycle",
                   runCycleMutation("project", "cycles"))
    BY DEF runCycleMutation
  <1>19. HandlerFits("confirmProjectCycleClose",
                   runCycleMutation("cycle", "cycle"))
    BY DEF runCycleMutation
  <1>20. HandlerFits("openProjectMemberDialog", openProjectMemberDialog)
    BY DEF openProjectMemberDialog
  <1>21. HandlerFits("submitProjectCreate", submitProjectCreate)
    BY DEF submitProjectCreate
  <1>22. HandlerFits("persistTime", persistTime)
    BY DEF persistTime
  <1>23. HandlerFits("persistTimeSave", persistTimeSave)
    BY DEF persistTimeSave
  <1>24. HandlerFits("confirmTimeChangeRestore", confirmTimeChangeRestore)
    BY DEF confirmTimeChangeRestore
  <1>25. HandlerFits("persistProjectTime", persistProjectTime)
    BY DEF persistProjectTime
  <1>26. HandlerFits("submitWorkItemCreate", submitWorkItemCreate)
    BY DEF submitWorkItemCreate
  <1>27. HandlerFits("pasteWorkItemCreateFile", pasteWorkItemCreateFile)
    BY DEF pasteWorkItemCreateFile
  <1>28. HandlerFits("confirmWorkItemBatchUpdate", confirmWorkItemBatchUpdate)
    BY DEF confirmWorkItemBatchUpdate, Refresh
  <1>29. HandlerFits("handleSetCurrentProject", handleSetCurrentProject)
    BY DEF handleSetCurrentProject
  <1>30. HandlerFits("handleMarkAllRead", handleMarkAllRead)
    BY DEF handleMarkAllRead, Refresh
  <1>31. HandlerFits("loadFilteredProjectResources",
                   loadFilteredProjectResources)
    BY DEF loadFilteredProjectResources
  <1>32. HandlerFits("submitProjectResourceUnlock",
                   submitProjectResourceUnlock)
    BY DEF submitProjectResourceUnlock
  <1>33. HandlerFits("submitProjectResourceEdit", submitProjectResourceEdit)
    BY DEF submitProjectResourceEdit, ResourceMutation
  <1>34. HandlerFits("submitProjectResourceCreate",
                   submitProjectResourceCreate)
    BY DEF submitProjectResourceCreate, ResourceMutation
  <1>35. HandlerFits("confirmProjectResourceArchive",
                   confirmProjectResourceArchive)
    BY DEF confirmProjectResourceArchive, ResourceMutation
  <1>36. HandlerFits("submitProjectResourcePasswordReset",
                   submitProjectResourcePasswordReset)
    BY DEF submitProjectResourcePasswordReset, ResourceMutation
  <1>37. HandlerFits("uploadSelectedProjectResourceAttachment",
                   uploadSelectedProjectResourceAttachment)
    BY DEF uploadSelectedProjectResourceAttachment
  <1>38. HandlerFits("pasteProjectResourceFile", pasteProjectResourceFile)
    BY DEF pasteProjectResourceFile
  <1>39. HandlerFits("submitProfile", submitProfile)
    BY DEF submitProfile
  <1>40. HandlerFits("runAccountSecurity", runAccountSecurity)
    BY DEF runAccountSecurity
  <1>41. HandlerFits("runSystemUserMutation", runSystemUserMutation)
    BY DEF runSystemUserMutation, SystemMutation
  <1>42. HandlerFits("runSystemRoleMutation", runSystemRoleMutation)
    BY DEF runSystemRoleMutation, SystemMutation
  <1>43. HandlerFits("runSystemStorageMutation", runSystemStorageMutation)
    BY DEF runSystemStorageMutation, SystemMutation
  <1>44. HandlerFits("runSystemApiTokenMutation", runSystemApiTokenMutation)
    BY DEF runSystemApiTokenMutation, SystemMutation
  <1>45. HandlerFits("runSystemReleaseMutation", runSystemReleaseMutation)
    BY DEF runSystemReleaseMutation, SystemMutation
  <1>46. HandlerFits("uploadSelectedSystemReleaseAsset",
                   uploadSelectedSystemReleaseAsset)
    BY DEF uploadSelectedSystemReleaseAsset, SystemMutation
  <1>47. HandlerFits("refreshSystemDatabaseStats", refreshSystemDatabaseStats)
    BY DEF refreshSystemDatabaseStats
  <1>48. HandlerFits("submitWorkItemCommentReplyAssign",
                   submitWorkItemCommentReplyAssign)
    BY DEF submitWorkItemCommentReplyAssign, submitWorkItemCommentAssign,
      ItemMutation, Companion
  <1> HIDE DEF HandlerFits
  <1> QED
    BY <1>1, <1>2, <1>3, <1>4, <1>5, <1>6, <1>7, <1>8, <1>9, <1>10, <1>11,
       <1>12, <1>13, <1>14, <1>15, <1>16, <1>17, <1>18, <1>19, <1>20, <1>21,
       <1>22, <1>23, <1>24, <1>25, <1>26, <1>27, <1>28, <1>29, <1>30, <1>31,
       <1>32, <1>33, <1>34, <1>35, <1>36, <1>37, <1>38, <1>39, <1>40, <1>41,
       <1>42, <1>43, <1>44, <1>45, <1>46, <1>47, <1>48,
       HandlersListed DEF HandlerNames, Handlers

\* What the proofs about flags and previews use of the table.
LEMMA FlagTable ==
  ASSUME NEW h \in HandlerNames
  PROVE  LET r == Handlers[h] IN
         /\ r.takes \in Flags /\ r.group \in Groups /\ r.needs \subseteq Flags
         /\ r.late \in BOOLEAN
         /\ r.takes # "none" /\ ~r.late => r.takes \in r.needs
         /\ r.late => r.takes = "releases" /\ r.group = "asset"
         /\ r.takes # "unlock" => r.frees \in {"always", "owner", "live"}
         /\ r.frees = "live" =>
               \/ r.group \in {"attach", "resourceFile"}
               \/ r.group = "asset" /\ r.takes = "releases"
         /\ r.group \in {"attach", "resourceFile"} => r.takes = r.group /\ ~r.late
         /\ r.group = "asset" => r.late
         /\ r.late \/ r.lax => h \in Robbers
         /\ r.frees = "live" => h \in Robbers \/ r.takes = "attach"
         /\ r.frees = "always" /\ r.takes # "none" =>
               h \in Robbers \/ r.takes \in Steady
         /\ r.takes = "attach" => r.frees = "live" /\ r.group = "attach"
         /\ r.takes = "unlock" <=> h = Unlocker
         /\ h = Unlocker =>
               r.group = "resource" /\ r.check = "action" /\ ~r.now /\ ~r.late
               /\ ~r.lax /\ r.frees = "current" /\ r.ends = None
  BY HandlerTable DEF HandlerFits

LEMMA PreviewTable ==
  ASSUME NEW h \in HandlerNames
  PROVE  LET r == Handlers[h] IN
         /\ r.group = "preview" => h = Preview
         /\ h = Preview =>
               /\ Len(r.script) = 1 /\ r.script[1].do = "host"
               /\ r.takes = "none" /\ r.ends = None /\ r.group = "preview"
               /\ r.check = "action" /\ ~r.late
         /\ h = Streamed => r.takes = "none" /\ r.ends = None /\ ~r.late
         /\ r.ends = "uploadSelectedWorkItemAttachment" => r.takes = "none"
  BY HandlerTable DEF HandlerFits

LEMMA Names ==
    /\ None \notin Tasks /\ None \notin Keys
    /\ None \notin HandlerNames /\ "done" \notin HandlerNames
    /\ Preview \in HandlerNames /\ Streamed \in HandlerNames
    /\ "uploadSelectedWorkItemAttachment" \in HandlerNames
    /\ "submitWorkItemEdit" \in HandlerNames /\ Unlocker \in HandlerNames
    /\ None \notin Pages /\ HandlerNames \cap Pages = {}
    /\ Realtime \subseteq Tasks
  <1>1. None \notin Tasks /\ None \notin Keys
    BY ShellAssumption
  <1>2. Realtime \subseteq Tasks
    BY DEF Tasks
  <1> QED
    BY <1>1, <1>2, PageNames DEF HandlerNames, Handlers, None, Preview, Streamed,
       Unlocker

\* The next handler of a run is known.
LEMMA EndsTable ==
  ASSUME NEW h \in HandlerNames
  PROVE  Handlers[h].ends \in HandlerNames =>
            /\ Handlers[h].ends = "uploadSelectedWorkItemAttachment"
            /\ Handlers[h].takes = "none" /\ h # Preview /\ h # Streamed
  <1>1. HandlerFits(h, Handlers[h])
    BY HandlerTable
  <1> QED
    BY <1>1, Names DEF HandlerFits

-----------------------------------------------------------------------------
\* The operators of the model.

\* Two records of a run that differ in nothing that is said of it here: in the
\* interest in its answer, and perhaps in that it lost its flag.
Alike(x, y) ==
    /\ y.h = x.h /\ y.at = x.at /\ y.pc = x.pc /\ y.served = x.served
    /\ y.took = x.took /\ y.got = x.got

LEMMA BlankRecords ==
    /\ NoTask \in TaskRecords /\ NoTask.h = None
    /\ DoneTask \in TaskRecords /\ DoneTask.h = "done"
    /\ NoGot \in [Parts -> Nat] /\ \A p \in Parts : NoGot[p] = 0
    /\ NoPart \in PartRecords /\ NoPart.of = None /\ NoPart.own = 0
    /\ NoPart.by = None
    /\ NoLoad \in LoadRecords /\ NoLoad.stage = "idle" /\ NoLoad.live = FALSE
  BY DEF NoTask, DoneTask, NoGot, NoPart, NoLoad, TaskRecords, PartRecords,
         LoadRecords, None, Nowhere

LEMMA RequestMovedAlike ==
  ASSUME NEW T \in [Tasks -> TaskRecords]
  PROVE  /\ RequestMoved(T) \in [Tasks -> TaskRecords]
         /\ \A t \in Tasks : /\ Alike(T[t], RequestMoved(T)[t])
                             /\ RequestMoved(T)[t].holds = T[t].holds
  <1>1. \A x \in TaskRecords : LET y == [x EXCEPT !.fresh = FALSE] IN
           y \in TaskRecords /\ Alike(x, y) /\ y.holds = x.holds
    BY DEF TaskRecords, Alike
  <1> QED
    BY <1>1 DEF RequestMoved, Alike

LEMMA LinkMovedAlike ==
  ASSUME NEW T \in [Tasks -> TaskRecords]
  PROVE  /\ LinkMoved(T) \in [Tasks -> TaskRecords]
         /\ \A t \in Tasks : /\ Alike(T[t], LinkMoved(T)[t])
                             /\ LinkMoved(T)[t].holds = T[t].holds
  <1>1. \A x \in TaskRecords : LET y == [x EXCEPT !.fresh = FALSE] IN
           y \in TaskRecords /\ Alike(x, y) /\ y.holds = x.holds
    BY DEF TaskRecords, Alike
  <1> QED
    BY <1>1 DEF LinkMoved, Alike

LEMMA BumpedLoads ==
  ASSUME NEW L \in [Loads -> LoadRecords]
  PROVE  /\ Bumped(L) \in [Loads -> LoadRecords]
         /\ \A l \in Loads :
               LET y == Bumped(L)[l] IN
               /\ y.live = FALSE /\ y.stage = L[l].stage /\ y.to = L[l].to
               /\ y.got = L[l].got
  <1>1. ASSUME NEW x \in LoadRecords
        PROVE  LET y == [x EXCEPT !.live = FALSE] IN
               /\ y \in LoadRecords /\ y.live = FALSE /\ y.stage = x.stage
               /\ y.to = x.to /\ y.got = x.got
    BY DEF LoadRecords
  <1>2. \A l \in Loads : L[l] \in LoadRecords
    OBVIOUS
  <1> QED
    BY <1>1, <1>2 DEF Bumped

\* A run that begins has been given nothing.
Beginning(x, h, r) ==
    /\ x \in TaskRecords /\ x.h = h /\ x.at = r /\ x.pc = 1
    /\ x.served = FALSE /\ x.took = ~Handlers[h].late
    /\ x.holds = ~Handlers[h].late /\ x.got = NoGot

LEMMA StartedRecord ==
  ASSUME NEW t \in Tasks, NEW h \in HandlerNames, NEW r \in Routes,
         draft \in [key : Keys \cup {None}, id : Tasks \cup {None}]
  PROVE  Beginning(Started(t, h, r), h, r)
  <1>1. Handlers[h].late \in BOOLEAN
    BY FlagTable
  <1>2. NoGot \in [Parts -> Nat]
    BY BlankRecords
  <1> QED
    BY <1>1, <1>2 DEF Started, NoTask, TaskRecords, Beginning

-----------------------------------------------------------------------------
\* Flags.

\* A record that is no run, or the run of a handler without a flag.
Flagless(x) == x.h \in HandlerNames => Handlers[x.h].takes = "none"

\* The run and its flag as they were, but that it may have lost a flag which a
\* page load clears.
KeepsFlag(x, y) ==
    /\ y.h = x.h /\ y.took = x.took /\ (y.holds => x.holds)
    /\ x.h \in HandlerNames /\ Handlers[x.h].takes \in Steady => y.holds = x.holds

\* Runs may lose a flag, and others may come and go that have none.
LEMMA FlagsFrame ==
  ASSUME NEW T, NEW U, NEW B \in [Flags -> Tasks \cup {None}], NEW C, NEW R,
         FlagsFit(T, B, C, R),
         \A u \in Tasks : \/ KeepsFlag(T[u], U[u])
                          \/ Flagless(T[u]) /\ Flagless(U[u])
  PROVE  FlagsFit(U, B, C, R)
  <1>1. ASSUME NEW f \in Flags \ {"none", "unlock"}
        PROVE  Owned(U, B, C, f)
    <2>1. Owned(T, B, C, f) /\ B[f] \in Tasks \cup {None}
      BY DEF FlagsFit
    <2> QED
      BY <2>1 DEF Owned, Flagless, KeepsFlag
  <1>2. ASSUME NEW t \in Tasks
        PROVE  HoldsIt(U, B, R, t)
    BY DEF FlagsFit, HoldsIt, Flagless, KeepsFlag
  <1>3. ASSUME NEW t \in Tasks
        PROVE  StillHolds(U[t])
    <2>1. StillHolds(T[t]) /\ "none" \notin Steady
      BY DEF FlagsFit, Steady
    <2> QED
      BY <2>1 DEF StillHolds, Flagless, KeepsFlag
  <1>4. UnlockOwned(U, B, C)
    <2>1. Unlocker \in HandlerNames /\ Handlers[Unlocker].takes # "none"
      BY Names, FlagTable
    <2> QED
      BY <2>1 DEF UnlockOwned, FlagsFit, Flagless, KeepsFlag
  <1> QED
    BY <1>1, <1>2, <1>3, <1>4 DEF FlagsFit

\* Whoever clears a flag that another run has set is one of the Robbers.
LEMMA RobbersRob ==
  ASSUME FlagsInv, busy \in [Flags -> Tasks \cup {None}], NEW t \in Tasks,
         Running(t), NEW lax \in BOOLEAN, FreesFlag(t, lax),
         busy[Handlers[task[t].h].takes] \notin {t, None}
  PROVE  task[t].h \in Robbers
  <1> DEFINE h == Handlers[task[t].h]
             u == busy[h.takes]
  <1>1. /\ task[t].h \in HandlerNames /\ h.takes \in Flags \ {"none"}
        /\ h.late \/ h.lax => task[t].h \in Robbers
        /\ h.frees = "live" => task[t].h \in Robbers \/ h.takes = "attach"
        /\ h.frees = "always" => task[t].h \in Robbers \/ h.takes \in Steady
        /\ h.takes = "attach" => h.group = "attach"
        /\ h.takes # "unlock" => h.frees \in {"always", "owner", "live"}
        /\ h.takes = "unlock" <=> task[t].h = Unlocker
        /\ task[t].h = Unlocker =>
              h.group = "resource" /\ h.check = "action" /\ h.frees = "current"
    BY FlagTable DEF Running, FreesFlag
  <1>2. CASE h.frees = "owner"
    BY <1>1, <1>2 DEF FreesFlag
  <1>3. CASE h.frees = "live" /\ h.takes = "attach"
    <2>1. Owned(task, busy, cur, "attach") /\ u \in Tasks
      BY <1>1, <1>3 DEF FlagsInv, FlagsFit
    <2>2. /\ task[u].h \in HandlerNames /\ Handlers[task[u].h].takes = "attach"
          /\ Handlers[task[u].h].frees = "live" =>
                cur[Handlers[task[u].h].group] = u
      BY <1>3, <2>1, Names DEF Owned
    <2>3. cur["attach"] = u
      BY <2>2, FlagTable
    <2> QED
      BY <1>1, <1>3, <2>3 DEF FreesFlag
  <1>4. CASE h.frees = "always" /\ h.takes \in Steady
    <2>1. StillHolds(task[t]) /\ HoldsIt(task, busy, robbed, t)
      BY DEF FlagsInv, FlagsFit
    <2> QED
      BY <1>1, <1>4, <2>1 DEF StillHolds, HoldsIt, Steady
  <1>5. CASE task[t].h = Unlocker
    <2>1. Current(t) \/ task[t].h \in Robbers
      BY <1>1, <1>5 DEF FreesFlag
    <2>2. Current(t) => cur["resource"] = t
      BY <1>1, <1>5 DEF Current
    <2>3. cur["resource"] = t => busy["unlock"] = t
      BY <1>5 DEF FlagsInv, FlagsFit, UnlockOwned
    <2> QED
      BY <1>1, <1>5, <2>1, <2>2, <2>3
  <1> QED
    BY <1>1, <1>2, <1>3, <1>4, <1>5 DEF FreesFlag

\* When a run ends it clears its flag, and robs nobody unnoticed.
LEMMA FlagsEnd ==
  ASSUME FlagsInv, busy \in [Flags -> Tasks \cup {None}], NEW t \in Tasks,
         Running(t), NEW lax \in BOOLEAN, NEW U, Flagless(U[t]),
         \A u \in Tasks \ {t} : KeepsFlag(task[u], U[u])
  PROVE  FlagsFit(U, BusyAfter(t, lax), cur, RobbedAfter(t, lax))
  <1> DEFINE h == Handlers[task[t].h]
             B == BusyAfter(t, lax)
  <1>1. /\ h.takes \in Flags
        /\ h.takes # "unlock" => h.frees \in {"always", "owner", "live"}
    BY FlagTable DEF Running
  <1>2. \A f \in Flags : B[f] = busy[f] \/ (B[f] = None /\ f = h.takes /\ FreesFlag(t, lax))
    BY <1>1 DEF BusyAfter
  <1>3. ASSUME NEW f \in Flags \ {"none", "unlock"}
        PROVE  Owned(U, B, cur, f)
    <2>1. Owned(task, busy, cur, f) /\ busy[f] \in Tasks \cup {None}
      BY DEF FlagsInv, FlagsFit
    <2>2. CASE busy[f] = t
      <3>1. h.takes = f /\ task[t].took /\ (h.frees = "live" => cur[h.group] = t)
        BY <2>1, <2>2, Names DEF Owned
      <3>2. FreesFlag(t, lax)
        BY <1>1, <2>2, <3>1 DEF FreesFlag
      <3>3. B[f] = None
        BY <1>1, <3>1, <3>2 DEF BusyAfter
      <3> QED
        BY <3>3 DEF Owned
    <2>3. CASE busy[f] # t
      BY <1>2, <2>1, <2>3 DEF Owned, KeepsFlag
    <2> QED
      BY <2>2, <2>3
  <1>4. ASSUME NEW u \in Tasks
        PROVE  HoldsIt(U, B, RobbedAfter(t, lax), u)
    <2>1. CASE u = t
      BY <2>1 DEF HoldsIt, Flagless
    <2>2. CASE u # t
      <3> DEFINE f == Handlers[task[u].h].takes
      <3>1. HoldsIt(task, busy, robbed, u)
        BY DEF FlagsInv, FlagsFit
      <3>2. robbed \subseteq RobbedAfter(t, lax)
        BY DEF RobbedAfter
      <3>3. SUFFICES ASSUME task[u].h \in HandlerNames, task[u].holds,
                            f # "none", busy[f] = u
                     PROVE  \/ B[f] = u
                            \/ f \in Contested /\ \E r \in RobbedAfter(t, lax) : r[1] = u
        BY <2>2, <3>1, <3>2 DEF HoldsIt, KeepsFlag
      <3>4. f \in Flags
        BY <3>3, FlagTable
      <3>5. CASE B[f] = None /\ f = h.takes /\ FreesFlag(t, lax)
        <4>1. <<u, task[t].h>> \in RobbedAfter(t, lax)
          BY <2>2, <3>3, <3>5, Names DEF RobbedAfter
        <4>2. task[t].h \in Robbers
          BY <2>2, <3>3, <3>5, Names, RobbersRob
        <4>3. f \in Contested
          BY <3>5, <4>2 DEF Contested
        <4> QED
          BY <4>1, <4>3
      <3> QED
        BY <1>2, <3>3, <3>4, <3>5
    <2> QED
      BY <2>1, <2>2
  <1>5. ASSUME NEW u \in Tasks
        PROVE  StillHolds(U[u])
    <2>1. StillHolds(task[u]) /\ "none" \notin Steady
      BY DEF FlagsInv, FlagsFit, Steady
    <2> QED
      BY <2>1 DEF StillHolds, Flagless, KeepsFlag
  <1>6. UnlockOwned(U, B, cur)
    <2> SUFFICES ASSUME NEW u \in Tasks, U[u].h = Unlocker, cur["resource"] = u
                 PROVE  B["unlock"] = u
      BY DEF UnlockOwned
    <2>1. u # t
      BY Names, FlagTable DEF Flagless
    <2>2. busy["unlock"] = u
      BY <2>1 DEF FlagsInv, FlagsFit, UnlockOwned, KeepsFlag
    <2>3. ASSUME FreesFlag(t, lax), h.takes = "unlock"
          PROVE  FALSE
      <3>1. /\ h.group = "resource" /\ h.check = "action" /\ ~h.lax
            /\ h.frees = "current"
        BY <2>3, FlagTable DEF Running
      <3>2. Current(t)
        BY <2>3, <3>1 DEF FreesFlag
      <3> QED
        BY <2>1, <3>1, <3>2 DEF Current
    <2> QED
      BY <1>2, <2>2, <2>3 DEF Flags
  <1>7. ASSUME NEW r \in RobbedAfter(t, lax)
        PROVE  r[2] \in Robbers
    <2>1. CASE r \in robbed
      BY <2>1 DEF FlagsInv, FlagsFit
    <2>2. CASE r \notin robbed
      <3>1. FreesFlag(t, lax) /\ busy[h.takes] \notin {t, None} /\ r[2] = task[t].h
        BY <2>2 DEF RobbedAfter
      <3> QED
        BY <3>1, RobbersRob
    <2> QED
      BY <2>1, <2>2
  <1> QED
    BY <1>3, <1>4, <1>5, <1>6, <1>7 DEF FlagsFit

\* A run takes a flag that is free; whoever had to clear it by its action id
\* had no flag of that counter.
LEMMA FlagsStart ==
  ASSUME FlagsInv, busy \in [Flags -> Tasks \cup {None}],
         cur \in [Groups -> Tasks \cup {None}],
         NEW t \in Tasks, NEW h \in HandlerNames, FlagsFree(h),
         Flagless(task[t]), NEW U, U[t].h = h,
         U[t].took = ~Handlers[h].late, U[t].holds = ~Handlers[h].late,
         \A u \in Tasks \ {t} : KeepsFlag(task[u], U[u])
  PROVE  FlagsFit(U, Takes(busy, t, h), Counts(t, h), robbed)
  <1> DEFINE r == Handlers[h]
             B == Takes(busy, t, h)
             C == Counts(t, h)
  <1>1. /\ r.takes \in Flags /\ r.group \in Groups /\ r.late \in BOOLEAN
        /\ r.takes # "none" /\ ~r.late => r.takes \in r.needs
        /\ r.group \in {"attach", "resourceFile"} => r.takes = r.group /\ ~r.late
        /\ r.group = "asset" => r.late
        /\ r.late => r.takes = "releases"
    BY FlagTable
  <1>2. r.takes # "none" /\ ~r.late => busy[r.takes] = None
    BY <1>1 DEF FlagsFree
  <1>3. \A f \in Flags : \/ f = r.takes /\ f # "none" /\ ~r.late /\ B[f] = t
                         \/ B[f] = busy[f] /\ (f # r.takes \/ f = "none" \/ r.late)
    BY <1>1 DEF Takes
  <1>4. ASSUME NEW f \in Flags \ {"none", "unlock"}
        PROVE  Owned(U, B, C, f)
    <2>1. Owned(task, busy, cur, f) /\ busy[f] \in Tasks \cup {None}
      BY DEF FlagsInv, FlagsFit
    <2>2. CASE f = r.takes /\ f # "none" /\ ~r.late /\ B[f] = t
      <3>1. r.group # "none" => C[r.group] = t
        BY <1>1, <2>2 DEF Counts
      <3>2. r.frees = "live" => r.group # "none"
        BY FlagTable
      <3> QED
        BY <2>2, <3>1, <3>2 DEF Owned
    <2>3. CASE B[f] = busy[f] /\ (f # r.takes \/ f = "none" \/ r.late)
      <3>1. SUFFICES ASSUME busy[f] # None
                     PROVE  Owned(U, B, C, f)
        BY <2>3 DEF Owned
      <3> DEFINE u == busy[f]
                 k == Handlers[task[u].h]
      <3>2. /\ u \in Tasks /\ task[u].h \in HandlerNames /\ k.takes = f
            /\ task[u].took /\ (k.frees = "live" => cur[k.group] = u)
        BY <2>1, <3>1 DEF Owned
      <3>3. u # t /\ U[u].h = task[u].h /\ U[u].took = task[u].took
        BY <3>2 DEF Flagless, KeepsFlag
      <3>4. k.frees = "live" => k.group # r.group \/ r.late
        BY <1>1, <2>3, <3>2, FlagTable
      <3>5. k.frees = "live" => k.group \in Groups /\ C[k.group] = cur[k.group]
        BY <1>1, <3>2, <3>4, FlagTable DEF Counts
      <3> QED
        BY <2>3, <3>2, <3>3, <3>5 DEF Owned
    <2> QED
      BY <1>3, <2>2, <2>3
  <1>5. ASSUME NEW u \in Tasks
        PROVE  HoldsIt(U, B, robbed, u)
    <2>1. CASE u = t
      BY <1>1, <1>3, <2>1 DEF HoldsIt
    <2>2. CASE u # t
      <3> DEFINE f == Handlers[task[u].h].takes
      <3>1. HoldsIt(task, busy, robbed, u)
        BY DEF FlagsInv, FlagsFit
      <3>2. SUFFICES ASSUME task[u].h \in HandlerNames, task[u].holds,
                            f # "none", busy[f] = u
                     PROVE  B[f] = u
        BY <2>2, <3>1 DEF HoldsIt, KeepsFlag
      <3>3. f \in Flags /\ busy[f] # None
        BY <3>2, FlagTable, Names
      <3> QED
        BY <1>2, <1>3, <3>2, <3>3
    <2> QED
      BY <2>1, <2>2
  <1>6. ASSUME NEW u \in Tasks
        PROVE  StillHolds(U[u])
    <2>1. StillHolds(task[u]) /\ "releases" \notin Steady
      BY ContestedFlags DEF FlagsInv, FlagsFit, Steady
    <2> QED
      BY <1>1, <2>1 DEF StillHolds, KeepsFlag
  <1>7. UnlockOwned(U, B, C)
    <2> SUFFICES ASSUME NEW u \in Tasks, U[u].h = Unlocker, C["resource"] = u
                 PROVE  B["unlock"] = u
      BY DEF UnlockOwned
    <2>1. Unlocker \in HandlerNames /\ "unlock" \in Flags /\ "resource" \in Groups
      BY Names DEF Flags, Groups
    <2>2. CASE u = t
      <3>1. r.takes = "unlock" /\ ~r.late
        BY <2>1, <2>2, FlagTable
      <3> QED
        BY <1>3, <2>1, <2>2, <3>1
    <2>3. CASE u # t
      <3>1. r.takes = "unlock" => r.group = "resource" /\ ~r.late
        BY FlagTable
      <3>2. cur["resource"] = u /\ (r.group # "resource" \/ r.late)
        BY <1>1, <2>1, <2>3 DEF Counts
      <3>3. busy["unlock"] = u
        BY <2>3, <3>2 DEF FlagsInv, FlagsFit, UnlockOwned, KeepsFlag
      <3> QED
        BY <1>3, <2>1, <3>1, <3>2, <3>3
    <2> QED
      BY <2>2, <2>3
  <1> QED
    BY <1>4, <1>5, <1>6, <1>7 DEF FlagsInv, FlagsFit

\* A file is chosen: the upload of a release takes the flag only now, whoever
\* has it, and whoever loses it was robbed.
TakesLate(t, h, U, B, C, R) ==
    /\ U[t].h = task[t].h /\ U[t].took = TRUE
    /\ U[t].holds = (task[t].holds \/ h.late)
    /\ \A u \in Tasks \ {t} : U[u] = task[u]
    /\ \A f \in Flags : B[f] = IF h.late /\ f = h.takes THEN t ELSE busy[f]
    /\ \A g \in Groups : C[g] = IF h.late /\ g = h.group THEN t ELSE cur[g]
    /\ robbed \subseteq R
    /\ h.late /\ busy[h.takes] # None => <<busy[h.takes], task[t].h>> \in R
    /\ \A r \in R : r \in robbed \/ (h.late /\ r[2] = task[t].h)

LEMMA FlagsChosen ==
  ASSUME FlagsInv, busy \in [Flags -> Tasks \cup {None}],
         cur \in [Groups -> Tasks \cup {None}],
         NEW t \in Tasks, Running(t), NEW U, NEW B, NEW C, NEW R,
         NEW h, h = Handlers[task[t].h], TakesLate(t, h, U, B, C, R)
  PROVE  FlagsFit(U, B, C, R)
  <1>1. /\ h.takes \in Flags /\ h.group \in Groups /\ h.late \in BOOLEAN
        /\ h.late => h.takes = "releases" /\ h.group = "asset"
        /\ h.late => task[t].h \in Robbers
    BY FlagTable DEF Running
  <1>2. ASSUME NEW f \in Flags \ {"none", "unlock"}
        PROVE  Owned(U, B, C, f)
    <2>1. Owned(task, busy, cur, f) /\ busy[f] \in Tasks \cup {None}
      <3>1. Owned(task, busy, cur, f)
        BY Zenon DEF FlagsInv, FlagsFit
      <3> QED
        BY <3>1
    <2>2. CASE h.late /\ f = h.takes
      <3>1. B[f] = t /\ C[h.group] = t
        BY <1>1, <2>2 DEF TakesLate
      <3>2. U[t].h = task[t].h /\ U[t].took /\ task[t].h \in HandlerNames
        BY DEF TakesLate, Running
      <3>3. h.takes = f /\ Handlers[U[t].h] = h
        BY <2>2, <3>2
      <3> QED
        BY <3>1, <3>2, <3>3 DEF Owned
    <2>3. CASE ~(h.late /\ f = h.takes)
      <3>1. B[f] = busy[f]
        BY <2>3 DEF TakesLate
      <3>2. SUFFICES ASSUME busy[f] # None
                     PROVE  Owned(U, B, C, f)
        BY <3>1 DEF Owned
      <3> DEFINE u == busy[f]
                 k == Handlers[task[u].h]
      <3>3. /\ u \in Tasks /\ task[u].h \in HandlerNames /\ k.takes = f
            /\ task[u].took /\ (k.frees = "live" => cur[k.group] = u)
        BY <2>1, <3>2 DEF Owned
      <3>4. k.frees = "live" => k.group \in Groups /\ C[k.group] = cur[k.group]
        BY <1>1, <2>3, <3>3, FlagTable DEF TakesLate
      <3>5. U[u].h = task[u].h /\ U[u].took
        BY <3>3 DEF TakesLate
      <3> QED
        BY <3>1, <3>3, <3>4, <3>5 DEF Owned
    <2> QED
      BY <2>2, <2>3
  <1>3. ASSUME NEW u \in Tasks
        PROVE  HoldsIt(U, B, R, u)
    <2> DEFINE f == Handlers[task[u].h].takes
    <2>1. HoldsIt(task, busy, robbed, u)
      BY DEF FlagsInv, FlagsFit
    <2>2. U[u].h = task[u].h
      BY DEF TakesLate
    <2>3. SUFFICES ASSUME task[u].h \in HandlerNames, U[u].holds, f # "none"
                   PROVE  B[f] = u \/ (f \in Contested /\ \E r \in R : r[1] = u)
      BY <2>2 DEF HoldsIt
    <2>4. f \in Flags
      BY <2>3, FlagTable
    <2>5. CASE u = t /\ h.late
      BY <2>4, <2>5 DEF TakesLate
    <2>6. CASE ~(u = t /\ h.late)
      <3>1. task[u].holds
        BY <2>3, <2>6 DEF TakesLate
      <3>2. busy[f] = u \/ (f \in Contested /\ \E r \in robbed : r[1] = u)
        BY <2>1, <2>3, <3>1 DEF HoldsIt
      <3>3. CASE busy[f] = u /\ B[f] # u
        <4>1. h.late /\ f = h.takes /\ busy[f] # None
          BY <2>4, <3>3, Names DEF TakesLate
        <4>2. f \in Contested /\ <<u, task[t].h>> \in R
          BY <1>1, <3>3, <4>1, ContestedFlags DEF TakesLate
        <4> QED
          BY <4>2
      <3> QED
        BY <3>2, <3>3 DEF TakesLate
    <2> QED
      BY <2>5, <2>6
  <1>4. ASSUME NEW u \in Tasks
        PROVE  StillHolds(U[u])
    <2>1. StillHolds(task[u])
      BY DEF FlagsInv, FlagsFit
    <2> QED
      BY <2>1 DEF StillHolds, TakesLate
  <1>5. UnlockOwned(U, B, C)
    <2>1. B["unlock"] = busy["unlock"] /\ C["resource"] = cur["resource"]
      BY <1>1 DEF TakesLate, Flags, Groups
    <2> QED
      BY <2>1 DEF FlagsInv, FlagsFit, UnlockOwned, TakesLate
  <1>6. \A r \in R : r[2] \in Robbers
    BY <1>1 DEF FlagsInv, FlagsFit, TakesLate
  <1> QED
    BY <1>2, <1>3, <1>4, <1>5, <1>6 DEF FlagsFit

-----------------------------------------------------------------------------
\* The start of a page load.

\* A counter that decides who clears a flag is reset only with that flag, and
\* what a page with a key in its path shows is reset when it is opened.
LEMMA ResetTable ==
  ASSUME NEW page \in Pages
  PROVE  LET z == Reset(page) IN
         /\ "attach" \in z.groups => "attach" \in z.flags
         /\ "resourceFile" \in z.groups => "resourceFile" \in z.flags
         /\ "asset" \notin z.groups
         /\ "none" \notin z.flags /\ z.flags \cap Steady = {}
         /\ "unlock" \in z.flags => "resource" \in z.groups
         /\ page \in PathKeyed \ {"resource"} =>
               OnPage(page) \ Unchecked \subseteq z.parts
         /\ page = "resource" => {"resource", "project"} \subseteq z.parts
  <1>1. CASE page = "item"
    BY <1>1, PageParts, ContestedFlags DEF Reset, Steady, OnPage, Unchecked, PathKeyed
  <1>2. CASE page \in {"project", "library"}
    BY <1>2, PageParts, ContestedFlags DEF Reset, Steady, OnPage, Unchecked, PathKeyed
  <1>3. CASE page \notin {"item", "project", "library"}
    BY <1>3, PageParts, ContestedFlags DEF Reset, Steady, OnPage, Unchecked, PathKeyed
  <1> QED
    BY <1>1, <1>2, <1>3

\* What is shown may be of fewer keys.
Emptier(S, U) == \A p \in Parts : U[p] \in {S[p], NoPart}

\* The parts of the pages with a key in their path.
LEMMA PathParts ==
    /\ \A page \in Pages : OnPage(page) \subseteq Parts
    /\ \A page \in PathKeyed : OnPage(page) \ Unchecked \subseteq Keyed
    /\ PathKeyed \subseteq Pages
    /\ Keyed \subseteq Parts /\ Tracked \subseteq Keyed
    /\ {"resource", "project", "files"} \subseteq Keyed
  <1>1. \A page \in Pages : OnPage(page) \subseteq Parts
    BY DEF OnPage, Parts
  <1>2. \A page \in PathKeyed : OnPage(page) \ Unchecked \subseteq Keyed
    BY PageParts DEF OnPage, Unchecked, PathKeyed, Keyed
  <1> QED
    BY <1>1, <1>2, PartNames, PageNames DEF PathKeyed, Keyed, Tracked

LEMMA CleanEmptier ==
  ASSUME NEW S, NEW U, NEW r \in Routes, Clean(S, r), Emptier(S, U)
  PROVE  Clean(U, r)
  <1>1. NoPart.of = None
    BY BlankRecords
  <1>2. r.page \in Pages
    BY DEF Routes
  <1> QED
    BY <1>1, <1>2, PathParts DEF Clean, Emptier

LEMMA FlagsReset ==
  ASSUME NEW T \in [Tasks -> TaskRecords], NEW B \in [Flags -> Tasks \cup {None}],
         NEW C \in [Groups -> Tasks \cup {None}], NEW R, FlagsFit(T, B, C, R),
         NEW page \in Pages, NEW z, z = Reset(page), NEW U,
         \A u \in Tasks : /\ Alike(T[u], U[u]) /\ KeepsFlag(T[u], U[u])
                          /\ /\ T[u].h \in HandlerNames
                             /\ Handlers[T[u].h].takes \in z.flags
                             => ~U[u].holds
  PROVE  FlagsFit(U, [f \in Flags |-> IF f \in z.flags THEN None ELSE B[f]],
                  [g \in Groups |-> IF g \in z.groups \cup {"preview"} THEN None ELSE C[g]],
                  R)
  <1> DEFINE D == [f \in Flags |-> IF f \in z.flags THEN None ELSE B[f]]
             E == [g \in Groups |-> IF g \in z.groups \cup {"preview"} THEN None ELSE C[g]]
  <1>1. /\ "attach" \in z.groups => "attach" \in z.flags
        /\ "resourceFile" \in z.groups => "resourceFile" \in z.flags
        /\ "asset" \notin z.groups
        /\ "unlock" \in z.flags => "resource" \in z.groups
    BY ResetTable
  <1>2. ASSUME NEW f \in Flags \ {"none", "unlock"}, D[f] # None
        PROVE  Owned(U, D, E, f)
    <2> DEFINE u == B[f]
               k == Handlers[T[u].h]
    <2>1. D[f] = u /\ f \notin z.flags
      BY <1>2
    <2>2. /\ u \in Tasks /\ T[u].h \in HandlerNames /\ k.takes = f
          /\ T[u].took /\ (k.frees = "live" => C[k.group] = u)
      BY <1>2, <2>1 DEF FlagsFit, Owned
    <2>3. k.frees = "live" => k.group \in {"attach", "resourceFile", "asset"} /\ k.group \in Groups
      BY <2>2, FlagTable
    <2>4. k.group \in {"attach", "resourceFile"} => k.group = f
      BY <2>2, FlagTable
    <2>5. k.frees = "live" => E[k.group] = u
      BY <1>1, <2>1, <2>2, <2>3, <2>4
    <2>6. U[u].h = T[u].h /\ U[u].took
      BY <2>2 DEF Alike
    <2> HIDE DEF D, E
    <2> QED
      BY <2>1, <2>2, <2>5, <2>6 DEF Owned
  <1>3. ASSUME NEW u \in Tasks
        PROVE  HoldsIt(U, D, R, u)
    <2> DEFINE f == Handlers[T[u].h].takes
    <2>1. HoldsIt(T, B, R, u) /\ U[u].h = T[u].h
      BY DEF FlagsFit, Alike
    <2>2. SUFFICES ASSUME T[u].h \in HandlerNames, U[u].holds, f # "none"
                   PROVE  D[f] = u \/ (f \in Contested /\ \E r \in R : r[1] = u)
      BY <2>1 DEF HoldsIt
    <2>3. f \in Flags \ z.flags /\ T[u].holds
      BY <2>2, FlagTable DEF KeepsFlag
    <2> QED
      BY <2>1, <2>2, <2>3 DEF HoldsIt
  <1>4. \A u \in Tasks : StillHolds(U[u])
    BY DEF FlagsFit, StillHolds, KeepsFlag
  <1>5. UnlockOwned(U, D, E)
    <2> SUFFICES ASSUME NEW u \in Tasks, U[u].h = Unlocker, E["resource"] = u
                 PROVE  D["unlock"] = u
      BY DEF UnlockOwned
    <2>1. C["resource"] = u /\ "resource" \notin z.groups
      BY Names DEF Groups
    <2>2. B["unlock"] = u
      BY <2>1 DEF FlagsFit, UnlockOwned, KeepsFlag
    <2> QED
      BY <1>1, <2>1, <2>2 DEF Flags
  <1>6. \A r \in R : r[2] \in Robbers
    BY DEF FlagsFit
  <1> QED
    BY <1>2, <1>3, <1>4, <1>5, <1>6 DEF FlagsFit, Owned

\* The same runs, some of which may have lost a flag.
Fewer(T, U) ==
    /\ U \in [Tasks -> TaskRecords]
    /\ \A u \in Tasks : Alike(T[u], U[u]) /\ KeepsFlag(T[u], U[u])

LEMMA CapsFewer ==
  ASSUME NEW T, NEW U, NEW C, NEW c, NEW K, CapsFit(T, C, c, K), Fewer(T, U)
  PROVE  CapsFit(U, C, c, K)
  <1>1. \A t \in Tasks : U[t].h = T[t].h /\ U[t].served = T[t].served
    BY DEF Fewer, Alike
  <1> QED
    BY <1>1 DEF CapsFit

\* What is closed with the preview.
LEMMA CapsClosed ==
  ASSUME NEW T, NEW C, NEW D, NEW c, NEW K, CapsFit(T, C, c, K)
  PROVE  CapsFit(T, D, None, K \ {c})
  BY DEF CapsFit

\* What the resets of a page load do to the invariant.
LEMMA ResetsDo ==
  ASSUME NEW l, NEW to \in Routes, NEW T \in [Tasks -> TaskRecords],
         NEW B \in [Flags -> Tasks \cup {None}],
         cur \in [Groups -> Tasks \cup {None}], shown \in [Parts -> PartRecords],
         Resets(l, to, T, B), NEW R, FlagsFit(T, B, cur, R),
         CapsFit(T, cur, cap, caps)
  PROVE  /\ Fewer(T, task') /\ FlagsFit(task', busy', cur', R)
         /\ busy' \in [Flags -> Tasks \cup {None}]
         /\ cur' \in [Groups -> Tasks \cup {None}]
         /\ shown' \in [Parts -> PartRecords] /\ Emptier(shown, shown')
         /\ to.page \in PathKeyed => Clean(shown', to)
         /\ CapsFit(task', cur', cap', caps') /\ caps' \subseteq caps
  <1> DEFINE z == Reset(to.page)
             U == IF to.page = "item" THEN LinkMoved(T) ELSE T
  <1>1. to.page \in Pages
    BY DEF Routes
  <1>2. U \in [Tasks -> TaskRecords] /\ \A u \in Tasks : Alike(T[u], U[u]) /\ U[u].holds = T[u].holds
    BY LinkMovedAlike DEF Alike
  <1>3. task' = [t \in Tasks |->
                     IF T[t].h \in HandlerNames /\ Handlers[T[t].h].takes \in z.flags
                     THEN [U[t] EXCEPT !.holds = FALSE] ELSE U[t]]
    BY DEF Resets
  <1>4. \A x \in TaskRecords : LET y == [x EXCEPT !.holds = FALSE] IN
           y \in TaskRecords /\ Alike(x, y) /\ ~y.holds
    BY DEF TaskRecords, Alike
  <1>5. /\ task' \in [Tasks -> TaskRecords]
        /\ \A u \in Tasks : /\ Alike(T[u], task'[u]) /\ KeepsFlag(T[u], task'[u])
                            /\ /\ T[u].h \in HandlerNames
                               /\ Handlers[T[u].h].takes \in z.flags
                               => ~task'[u].holds
    <2>1. z.flags \cap Steady = {}
      BY <1>1, ResetTable
    <2> HIDE DEF U, z
    <2>2. ASSUME NEW u \in Tasks
          PROVE  /\ Alike(T[u], task'[u]) /\ KeepsFlag(T[u], task'[u])
                 /\ task'[u] \in TaskRecords
                 /\ /\ T[u].h \in HandlerNames
                    /\ Handlers[T[u].h].takes \in z.flags
                    => ~task'[u].holds
      <3>1. /\ U[u] \in TaskRecords /\ Alike(T[u], U[u])
            /\ U[u].holds = T[u].holds
        BY <1>2
      <3>2. CASE T[u].h \in HandlerNames /\ Handlers[T[u].h].takes \in z.flags
        <4> DEFINE y == [U[u] EXCEPT !.holds = FALSE]
        <4>1. task'[u] = y /\ y \in TaskRecords /\ Alike(U[u], y) /\ ~y.holds
          BY <1>3, <1>4, <3>1, <3>2
        <4>2. Handlers[T[u].h].takes \notin Steady
          BY <2>1, <3>2
        <4> HIDE DEF y
        <4> QED
          BY <3>1, <4>1, <4>2 DEF Alike, KeepsFlag
      <3>3. CASE ~(T[u].h \in HandlerNames /\ Handlers[T[u].h].takes \in z.flags)
        <4>1. task'[u] = U[u]
          BY <1>3, <3>3
        <4> QED
          BY <3>1, <3>3, <4>1 DEF Alike, KeepsFlag
      <3> QED
        BY <3>2, <3>3
    <2> QED
      BY <1>3, <2>2
  <1>6. /\ busy' = [f \in Flags |-> IF f \in z.flags THEN None ELSE B[f]]
        /\ cur' = [g \in Groups |-> IF g \in z.groups \cup {"preview"} THEN None ELSE cur[g]]
    BY DEF Resets
  <1>7. FlagsFit(task', busy', cur', R)
    BY <1>1, <1>5, <1>6, FlagsReset
  <1>8. shown' = [p \in Parts |-> IF p \in z.parts THEN NoPart ELSE shown[p]]
    BY DEF Resets
  <1>9. shown' \in [Parts -> PartRecords] /\ Emptier(shown, shown')
    BY <1>8, BlankRecords DEF Emptier
  <1>10. to.page \in PathKeyed => Clean(shown', to)
    <2>1. \A p \in z.parts \cap Parts : shown'[p].of = None
      BY <1>8, BlankRecords
    <2>2. CASE to.page = "resource"
      <3>1. {"resource", "project"} \subseteq z.parts \cap Parts
        BY <1>1, <2>2, ResetTable, PathParts
      <3>2. to.key # None
        BY Names DEF Routes
      <3> QED
        BY <2>1, <2>2, <3>1, <3>2 DEF Clean
    <2>3. CASE to.page \in PathKeyed \ {"resource"}
      <3>1. OnPage(to.page) \ Unchecked \subseteq z.parts \cap Parts
        BY <1>1, <2>3, ResetTable, PathParts
      <3> QED
        BY <2>1, <2>3, <3>1 DEF Clean
    <2> QED
      BY <2>2, <2>3
  <1>11. cap' = None /\ caps' = caps \ {cap}
    BY DEF Resets
  <1>12. Fewer(T, task')
    BY <1>5 DEF Fewer
  <1>13. CapsFit(task', cur', cap', caps')
    BY <1>11, <1>12, CapsClosed, CapsFewer
  <1>14. busy' \in [Flags -> Tasks \cup {None}] /\ cur' \in [Groups -> Tasks \cup {None}]
    BY <1>6
  <1> QED
    BY <1>7, <1>9, <1>10, <1>11, <1>12, <1>13, <1>14

\* A load that was given up, or has not yet read anything.
LesserLoad(x, y) ==
    \/ y.stage # "read"
    \/ y.stage = x.stage /\ y.to = x.to /\ y.got = x.got /\ (y.live => x.live)

\* Less is shown, loads are given up or begin, runs may lose flags.
LEMMA VersionsLess ==
  ASSUME NEW S, NEW U, NEW V, NEW L, NEW M \in [Loads -> LoadRecords], NEW T, NEW X,
         VersionsFit(S, V, L, T), Emptier(S, U), Fewer(T, X),
         \A l \in Loads : LesserLoad(L[l], M[l])
  PROVE  VersionsFit(U, V, M, X)
  <1> SUFFICES ASSUME NEW p \in Tracked
               PROVE  /\ ShownFits(U, V, p)
                      /\ \A l \in Loads : LoadFits(U, V, M[l], p)
                      /\ \A t \in Tasks : RunReads(V, X[t], p)
    BY DEF VersionsFit
  <1>1. p \in Parts /\ U[p] \in {S[p], NoPart}
    BY PathParts DEF Emptier
  <1>2. NoPart.of = None /\ NoPart.own = 0 /\ NoPart.by = None
    BY BlankRecords
  <1>3. ShownFits(U, V, p)
    BY <1>1, <1>2 DEF VersionsFit, ShownFits, None
  <1>4. ASSUME NEW l \in Loads
        PROVE  LoadFits(U, V, M[l], p)
    <2>1. M[l].got[p] \in Nat
      BY <1>1 DEF LoadRecords
    <2>2. LoadFits(S, V, L[l], p) /\ LesserLoad(L[l], M[l])
      BY DEF VersionsFit
    <2> QED
      BY <1>1, <1>2, <2>1, <2>2 DEF LoadFits, LesserLoad
  <1>5. ASSUME NEW t \in Tasks
        PROVE  RunReads(V, X[t], p)
    <2>1. Alike(T[t], X[t]) /\ RunReads(V, T[t], p)
      BY DEF Fewer, VersionsFit
    <2> QED
      BY <2>1 DEF Alike, RunReads
  <1> QED
    BY <1>3, <1>4, <1>5

LEMMA FewerTransitive ==
  ASSUME NEW T, NEW U, NEW X, Fewer(T, U), Fewer(U, X)
  PROVE  Fewer(T, X)
  BY DEF Fewer, Alike, KeepsFlag

LEMMA FlagsFewer ==
  ASSUME NEW T, NEW U, NEW B \in [Flags -> Tasks \cup {None}], NEW C, NEW R,
         FlagsFit(T, B, C, R), Fewer(T, U)
  PROVE  FlagsFit(U, B, C, R)
  <1>1. \A u \in Tasks : KeepsFlag(T[u], U[u])
    BY DEF Fewer
  <1> QED
    BY <1>1, FlagsFrame

\* A page load begins: at once, or after the cancellation of a draft.
LEMMA LoadStarts ==
  ASSUME ShapesInv, PageInv, NEW to \in Routes, NEW mode \in {"load", "refresh"},
         NEW by \in Tasks \cup {None}, NEW T \in [Tasks -> TaskRecords],
         NEW B \in [Flags -> Tasks \cup {None}], StartLoad(to, mode, by, T, B),
         NEW R, FlagsFit(T, B, cur, R), CapsFit(T, cur, cap, caps),
         VersionsFit(shown, server, load, T),
         mode = "refresh" /\ to.page \in PathKeyed => to = route
  PROVE  /\ Fewer(T, task') /\ FlagsFit(task', busy', cur', R)
         /\ busy' \in [Flags -> Tasks \cup {None}]
         /\ cur' \in [Groups -> Tasks \cup {None}]
         /\ shown' \in [Parts -> PartRecords]
         /\ load' \in [Loads -> LoadRecords]
         /\ \A l \in Loads : load'[l].stage # "idle" => load'[l].to \in Routes
         /\ CapsFit(task', cur', cap', caps') /\ caps' \subseteq caps
         /\ VersionsFit(shown', server, load', task')
         /\ PageFits(to, shown', load')
         /\ left.loads > 0 /\ left' = [left EXCEPT !.loads = @ - 1]
  <1> DEFINE U == RequestMoved(T)
             foreign == /\ mode = "load" /\ draft # NoDraft
                        /\ ~(to.page = "item" /\ draft.key = to.key)
             new(l, stage) == [Bumped(load) EXCEPT ![l] =
                    [NoLoad EXCEPT !.stage = stage, !.to = to, !.mode = mode,
                        !.live = TRUE, !.by = by,
                        !.id = IF stage = "cancel" THEN draft.id ELSE None]]
  <1>1. left.loads > 0 /\ left' = [left EXCEPT !.loads = @ - 1]
    BY DEF StartLoad
  <1>2. PICK l \in Loads :
          /\ load[l].stage = "idle"
          /\ \/ /\ foreign
                /\ load' = new(l, "cancel") /\ task' = U /\ busy' = B
                /\ UNCHANGED <<spin, shown, cur, cap, caps>>
             \/ /\ ~foreign /\ mode = "load"
                /\ load' = new(l, "sent") /\ Resets(l, to, U, B)
             \/ /\ mode = "refresh"
                /\ load' = new(l, "sent") /\ task' = U /\ busy' = B
                /\ spin' = [spin EXCEPT !.refreshing = TRUE]
                /\ UNCHANGED <<shown, cur, cap, caps>>
    BY DEF StartLoad
  <1>3. /\ load \in [Loads -> LoadRecords] /\ shown \in [Parts -> PartRecords]
        /\ cur \in [Groups -> Tasks \cup {None}] /\ draft.id \in Tasks \cup {None}
        /\ \A m \in Loads : load[m].stage # "idle" => load[m].to \in Routes
    BY DEF ShapesInv
  <1>4. Fewer(T, U) /\ U \in [Tasks -> TaskRecords]
    BY RequestMovedAlike DEF Fewer, KeepsFlag, Alike
  <1>5. FlagsFit(U, B, cur, R) /\ CapsFit(U, cur, cap, caps)
    BY <1>4, FlagsFewer, CapsFewer
  <1> HIDE DEF U
  <1>6. PICK stage \in {"cancel", "sent"} :
          load' = new(l, stage) /\ (stage = "cancel" <=> foreign)
    BY <1>2
  <1>7. /\ load' \in [Loads -> LoadRecords]
        /\ load'[l].stage = stage /\ load'[l].to = to
        /\ \A m \in Loads : /\ LesserLoad(load[m], load'[m])
                            /\ load'[m].live => load'[m].to = to
                            /\ load[m].stage = "cancel" =>
                                  load'[m].stage = "cancel" /\ load'[m].to = load[m].to
                            /\ load'[m].stage # "idle" =>
                                  load'[m].to = to \/ (load[m].stage # "idle" /\ load'[m].to = load[m].to)
    <2> DEFINE x == [NoLoad EXCEPT !.stage = stage, !.to = to, !.mode = mode,
                        !.live = TRUE, !.by = by,
                        !.id = IF stage = "cancel" THEN draft.id ELSE None]
    <2>1. x \in LoadRecords /\ x.stage = stage /\ x.to = to
      BY <1>3, BlankRecords DEF LoadRecords
    <2>2. load' = [Bumped(load) EXCEPT ![l] = x] /\ load[l].stage = "idle"
      BY <1>2, <1>6
    <2> HIDE DEF new, x, foreign
    <2>3. /\ load' \in [Loads -> LoadRecords] /\ load'[l] = x
          /\ \A m \in Loads \ {l} : load'[m] = Bumped(load)[m]
      BY <1>3, <2>1, <2>2, BumpedLoads
    <2>4. \A m \in Loads : LET y == Bumped(load)[m] IN
             /\ y.live = FALSE /\ y.stage = load[m].stage /\ y.to = load[m].to
             /\ y.got = load[m].got
      BY <1>3, BumpedLoads
    <2>5. ASSUME NEW m \in Loads
          PROVE  /\ LesserLoad(load[m], load'[m])
                 /\ load'[m].live => load'[m].to = to
                 /\ load[m].stage = "cancel" =>
                       load'[m].stage = "cancel" /\ load'[m].to = load[m].to
                 /\ load'[m].stage # "idle" =>
                       load'[m].to = to \/ (load[m].stage # "idle" /\ load'[m].to = load[m].to)
      <3>1. CASE m = l
        BY <2>1, <2>2, <2>3, <3>1 DEF LesserLoad
      <3>2. CASE m # l
        BY <2>3, <2>4, <3>2 DEF LesserLoad
      <3> QED
        BY <3>1, <3>2
    <2> QED
      BY <2>1, <2>3, <2>5
  <1>8. \A m \in Loads : load'[m].stage # "idle" => load'[m].to \in Routes
    BY <1>3, <1>7
  <1>9. Emptier(shown, shown) /\ Fewer(U, U)
    BY <1>4 DEF Emptier, Fewer, Alike, KeepsFlag
  <1> HIDE DEF new
  <1>10. CASE ~foreign /\ mode = "load" /\ Resets(l, to, U, B)
    <2>1. /\ Fewer(U, task') /\ FlagsFit(task', busy', cur', R)
          /\ busy' \in [Flags -> Tasks \cup {None}]
          /\ cur' \in [Groups -> Tasks \cup {None}]
          /\ shown' \in [Parts -> PartRecords] /\ Emptier(shown, shown')
          /\ to.page \in PathKeyed => Clean(shown', to)
          /\ CapsFit(task', cur', cap', caps') /\ caps' \subseteq caps
      BY <1>3, <1>4, <1>5, <1>10, ResetsDo
    <2>2. Fewer(T, task')
      BY <1>4, <2>1, FewerTransitive
    <2>3. VersionsFit(shown', server, load', task')
      BY <1>7, <2>1, <2>2, VersionsLess
    <2>4. PageFits(to, shown', load')
      BY <1>7, <2>1 DEF PageFits
    <2> QED
      BY <1>1, <1>7, <1>8, <2>1, <2>2, <2>3, <2>4
  <1>11. CASE /\ task' = U /\ busy' = B /\ UNCHANGED <<shown, cur, cap, caps>>
              /\ (foreign \/ mode = "refresh")
    <2>1. VersionsFit(shown, server, load', U)
      BY <1>4, <1>7, <1>9, VersionsLess
    <2>2. PageFits(to, shown, load')
      <3>1. CASE foreign
        BY <1>6, <1>7, <3>1 DEF PageFits
      <3>2. CASE mode = "refresh" /\ to.page \notin PathKeyed
        BY <1>7, <3>2 DEF PageFits
      <3>3. CASE mode = "refresh" /\ to = route
        BY <1>7, <3>3 DEF PageFits, PageInv
      <3> QED
        BY <1>11, <3>1, <3>2, <3>3
    <2> QED
      BY <1>1, <1>3, <1>4, <1>5, <1>7, <1>8, <1>11, <2>1, <2>2
  <1> QED
    BY <1>2, <1>10, <1>11

-----------------------------------------------------------------------------
\* Page loads.

\* A bound is used up.
LEMMA LeftSpent ==
  ASSUME left \in LeftRecords
  PROVE  /\ left.loads > 0 => LET x == [left EXCEPT !.loads = @ - 1] IN
               x \in LeftRecords /\ x.tasks = left.tasks
         /\ left.faults > 0 => LET x == [left EXCEPT !.faults = @ - 1] IN
               x \in LeftRecords /\ x.tasks = left.tasks
         /\ left.others > 0 => LET x == [left EXCEPT !.others = @ - 1] IN
               x \in LeftRecords /\ x.tasks = left.tasks
         /\ left.events > 0 => LET x == [left EXCEPT !.events = @ - 1] IN
               x \in LeftRecords /\ x.tasks = left.tasks
  <1>1. left.loads > 0 => LET x == [left EXCEPT !.loads = @ - 1] IN
               x \in LeftRecords /\ x.tasks = left.tasks
    BY DEF LeftRecords
  <1>2. left.faults > 0 => LET x == [left EXCEPT !.faults = @ - 1] IN
               x \in LeftRecords /\ x.tasks = left.tasks
    BY DEF LeftRecords
  <1>3. left.others > 0 => LET x == [left EXCEPT !.others = @ - 1] IN
               x \in LeftRecords /\ x.tasks = left.tasks
    BY DEF LeftRecords
  <1>4. left.events > 0 => LET x == [left EXCEPT !.events = @ - 1] IN
               x \in LeftRecords /\ x.tasks = left.tasks
    BY DEF LeftRecords
  <1> QED
    BY <1>1, <1>2, <1>3, <1>4

LEMMA RunNames ==
  ASSUME NEW i \in 1 .. Len(TaskSeq)
  PROVE  TaskSeq[i] \in Tasks /\ TaskSeq[i] \notin Realtime
  BY ShellAssumption DEF Tasks

\* No run begins, but for one of the event stream.
LEMMA RunsFrame ==
  ASSUME RunsInv, left' \in LeftRecords, left'.tasks = left.tasks,
         \A u \in Tasks : task[u].h = None => task'[u].h = None \/ u \in Realtime,
         \A u \in Realtime : task'[u].h \in HandlerNames => task'[u].h = Streamed,
         \A u \in caps' : u \in caps \/ task[u].h # None
  PROVE  RunsInv'
  <1>1. ASSUME NEW i \in 1 .. Len(TaskSeq), i > Len(TaskSeq) - left'.tasks
        PROVE  task'[TaskSeq[i]].h = None /\ TaskSeq[i] \notin caps'
    <2>1. task[TaskSeq[i]].h = None /\ TaskSeq[i] \notin caps
      BY <1>1 DEF RunsInv
    <2> QED
      BY <2>1, RunNames
  <1> QED
    BY <1>1 DEF RunsInv, Running

LEMMA FitsFewer ==
  ASSUME NEW T, NEW U, \A t \in Tasks : RunFits(T[t]), Fewer(T, U)
  PROVE  \A t \in Tasks : RunFits(U[t])
  BY DEF Fewer, Alike, RunFits

LEMMA SameRuns == task \in [Tasks -> TaskRecords] => Fewer(task, task)
  BY DEF Fewer, Alike, KeepsFlag

\* What a step has made of the runs and the flags, before it starts a load.
ReadyToLoad(T, B, R) ==
    /\ T \in [Tasks -> TaskRecords] /\ B \in [Flags -> Tasks \cup {None}]
    /\ \A t \in Tasks : RunFits(T[t])
    /\ \A u \in Tasks : task[u].h = None => T[u].h = None
    /\ \A u \in Realtime : T[u].h \in HandlerNames => T[u].h = Streamed
    /\ FlagsFit(T, B, cur, R) /\ CapsFit(T, cur, cap, caps)
    /\ VersionsFit(shown, server, load, T)

\* A new address is loaded in full unless it has the path of the open page.
Allowed(to, mode) ==
    /\ to \in Routes /\ mode \in {"load", "refresh"}
    /\ mode = "refresh" /\ to.page \in PathKeyed => to = route

\* The start of a load keeps the invariant.
LEMMA LoadKeeps ==
  ASSUME ShellInv, NEW to, NEW mode, Allowed(to, mode),
         NEW by \in Tasks \cup {None}, NEW T, NEW B,
         StartLoad(to, mode, by, T, B), ReadyToLoad(T, B, robbed'),
         route' = to, UNCHANGED <<server, draft>>,
         event' \in [due : BOOLEAN, by : Realtime \cup {None}, again : BOOLEAN]
  PROVE  ShellInv'
  <1> USE DEF ReadyToLoad
  <1>1. /\ ShapesInv /\ PageInv /\ RunsInv
    BY DEF ShellInv
  <1>2. /\ Fewer(T, task') /\ FlagsFit(task', busy', cur', robbed')
        /\ busy' \in [Flags -> Tasks \cup {None}]
        /\ cur' \in [Groups -> Tasks \cup {None}]
        /\ shown' \in [Parts -> PartRecords]
        /\ load' \in [Loads -> LoadRecords]
        /\ \A l \in Loads : load'[l].stage # "idle" => load'[l].to \in Routes
        /\ CapsFit(task', cur', cap', caps') /\ caps' \subseteq caps
        /\ VersionsFit(shown', server, load', task')
        /\ PageFits(to, shown', load')
        /\ left.loads > 0 /\ left' = [left EXCEPT !.loads = @ - 1]
    BY <1>1, LoadStarts DEF Allowed
  <1>3. ShapesInv'
    <2>1. task' \in [Tasks -> TaskRecords] /\ \A t \in Tasks : RunFits(task'[t])
      BY <1>2, FitsFewer DEF Fewer
    <2> QED
      BY <1>1, <1>2, <2>1 DEF ShapesInv, Allowed
  <1>4. RunsInv'
    <2>1. left' \in LeftRecords /\ left'.tasks = left.tasks
      BY <1>1, <1>2, LeftSpent DEF RunsInv
    <2>2. \A u \in Tasks : task'[u].h = T[u].h
      BY <1>2 DEF Fewer, Alike
    <2>3. \A u \in Realtime : task'[u].h \in HandlerNames => task'[u].h = Streamed
      BY <2>2, Names
    <2>4. \A u \in caps' : u \in caps \/ task[u].h # None
      BY <1>2
    <2> QED
      BY <1>1, <2>1, <2>2, <2>3, <2>4, RunsFrame
  <1> QED
    BY <1>2, <1>3, <1>4 DEF ShellInv, FlagsInv, CapsInv, VersionsInv, PageInv

\* The invariant, in the parts that a load asks for.
LEMMA InvParts ==
  ASSUME ShellInv
  PROVE  /\ ShapesInv /\ PageInv /\ RunsInv /\ route \in Routes
         /\ task \in [Tasks -> TaskRecords] /\ \A t \in Tasks : RunFits(task[t])
         /\ busy \in [Flags -> Tasks \cup {None}]
         /\ cur \in [Groups -> Tasks \cup {None}]
         /\ load \in [Loads -> LoadRecords] /\ shown \in [Parts -> PartRecords]
         /\ server \in [Keys -> [Parts -> Nat]]
         /\ draft \in [key : Keys \cup {None}, id : Tasks \cup {None}]
         /\ event \in [due : BOOLEAN, by : Realtime \cup {None}, again : BOOLEAN]
         /\ left \in LeftRecords
         /\ \A u \in Realtime : task[u].h \in HandlerNames => task[u].h = Streamed
         /\ FlagsFit(task, busy, cur, robbed) /\ CapsFit(task, cur, cap, caps)
         /\ VersionsFit(shown, server, load, task)
         /\ PageFits(route, shown, load)
  BY DEF ShellInv, ShapesInv, RunsInv, FlagsInv, CapsInv, VersionsInv, PageInv,
         Running

LEMMA Ready == ShellInv => ReadyToLoad(task, busy, robbed)
  BY InvParts DEF ReadyToLoad

LEMMA NewAddress ==
  ASSUME ShellInv, NEW r \in Routes, NEW T, NEW B, GoTo(r, T, B),
         ReadyToLoad(T, B, robbed'), UNCHANGED <<server, draft>>
  PROVE  ShellInv'
  <1> DEFINE mode == IF SamePath(r, route) THEN "refresh" ELSE "load"
  <1>1. SamePath(r, route) /\ r.page \in PathKeyed => r = route
    BY InvParts DEF SamePath, Routes
  <1>2. Allowed(r, mode)
    BY <1>1 DEF Allowed
  <1>3. StartLoad(r, mode, None, T, B) /\ route' = r
    BY DEF GoTo
  <1>4. event' \in [due : BOOLEAN, by : Realtime \cup {None}, again : BOOLEAN]
    BY InvParts DEF GoTo
  <1> HIDE DEF mode
  <1> QED
    BY <1>2, <1>3, <1>4, LoadKeeps

LEMMA NavigateKeeps == ShellInv /\ Navigate => ShellInv'
  <1> SUFFICES ASSUME ShellInv, Navigate
               PROVE  ShellInv'
    OBVIOUS
  <1>1. PICK r \in [page : left.pages, key : Keys] : GoTo(r, task, busy)
    BY DEF Navigate
  <1>2. r \in Routes
    BY <1>1, InvParts DEF Routes, LeftRecords
  <1>3. UNCHANGED <<server, draft, robbed>>
    BY DEF Navigate
  <1>4. ReadyToLoad(task, busy, robbed')
    BY <1>3, Ready
  <1> QED
    BY <1>1, <1>2, <1>3, <1>4, NewAddress

LEMMA RefreshPageKeeps == ShellInv /\ RefreshPage => ShellInv'
  <1> SUFFICES ASSUME ShellInv, RefreshPage
               PROVE  ShellInv'
    OBVIOUS
  <1>1. /\ StartLoad(route, "refresh", None, task, busy)
        /\ UNCHANGED <<route, server, draft, event, robbed>>
    BY DEF RefreshPage
  <1>2. Allowed(route, "refresh") /\ ReadyToLoad(task, busy, robbed')
    BY <1>1, InvParts, Ready DEF Allowed
  <1> QED
    BY <1>1, <1>2, InvParts, LoadKeeps

LEMMA LeftFaults ==
  ASSUME left \in LeftRecords, Fault
  PROVE  left' \in LeftRecords /\ left'.tasks = left.tasks
  BY LeftSpent DEF Fault

LEMMA DraftCancelledKeeps ==
  ASSUME ShellInv, NEW l \in Loads, DraftCancelled(l)
  PROVE  ShellInv'
  <1> DEFINE to == load[l].to
  <1>1. /\ load[l].stage = "cancel" /\ Resets(l, to, task, busy)
        /\ load' = [load EXCEPT ![l] = [@ EXCEPT !.stage = "sent", !.id = None]]
        /\ UNCHANGED <<route, server, event, robbed>>
        /\ draft' \in {NoDraft, draft}
        /\ UNCHANGED left \/ Fault
    BY DEF DraftCancelled
  <1>2. to \in Routes
    BY <1>1, InvParts DEF ShapesInv
  <1>3. /\ Fewer(task, task') /\ FlagsFit(task', busy', cur', robbed)
        /\ busy' \in [Flags -> Tasks \cup {None}]
        /\ cur' \in [Groups -> Tasks \cup {None}]
        /\ shown' \in [Parts -> PartRecords] /\ Emptier(shown, shown')
        /\ to.page \in PathKeyed => Clean(shown', to)
        /\ CapsFit(task', cur', cap', caps') /\ caps' \subseteq caps
    BY <1>1, <1>2, InvParts, ResetsDo
  <1>4. /\ load' \in [Loads -> LoadRecords]
        /\ load'[l].stage = "sent" /\ load'[l].to = to /\ load'[l].live = load[l].live
        /\ \A m \in Loads \ {l} : load'[m] = load[m]
    <2> DEFINE x == [load[l] EXCEPT !.stage = "sent", !.id = None]
    <2>1. /\ x \in LoadRecords /\ x.stage = "sent" /\ x.to = to
          /\ x.live = load[l].live
      <3>1. load[l] \in LoadRecords
        BY InvParts
      <3> QED
        BY <3>1 DEF LoadRecords
    <2>2. load' = [load EXCEPT ![l] = x]
      BY <1>1
    <2> HIDE DEF x
    <2> QED
      BY <2>1, <2>2, InvParts
  <1>5. \A m \in Loads : LesserLoad(load[m], load'[m])
    BY <1>4 DEF LesserLoad
  <1>6. VersionsFit(shown', server', load', task')
    BY <1>1, <1>3, <1>4, <1>5, InvParts, VersionsLess
  <1>7. PageFits(route', shown', load')
    <2>1. \A m \in Loads : load'[m].live => load'[m].to = route
      BY <1>4, InvParts DEF PageFits
    <2>2. ASSUME route.page \in PathKeyed
          PROVE  \/ Clean(shown', route)
                 \/ \E m \in Loads : load'[m].stage = "cancel" /\ load'[m].to = route
      <3>1. CASE Clean(shown, route)
        BY <1>3, <3>1, InvParts, CleanEmptier
      <3>2. CASE ~Clean(shown, route)
        <4>1. PICK m \in Loads : load[m].stage = "cancel" /\ load[m].to = route
          BY <2>2, <3>2, InvParts DEF PageFits
        <4> QED
          BY <1>3, <1>4, <2>2, <4>1
      <3> QED
        BY <3>1, <3>2
    <2> QED
      BY <1>1, <2>1, <2>2 DEF PageFits
  <1>8. ShapesInv'
    <2>1. task' \in [Tasks -> TaskRecords] /\ \A t \in Tasks : RunFits(task'[t])
      BY <1>3, InvParts, FitsFewer DEF Fewer
    <2>2. draft' \in [key : Keys \cup {None}, id : Tasks \cup {None}]
      BY <1>1, InvParts DEF NoDraft
    <2>3. \A m \in Loads : load'[m].stage # "idle" => load'[m].to \in Routes
      BY <1>2, <1>4, InvParts DEF ShapesInv
    <2> HIDE DEF to
    <2> QED
      BY <1>1, <1>3, <1>4, <2>1, <2>2, <2>3, InvParts DEF ShapesInv
  <1>9. RunsInv'
    <2>1. left' \in LeftRecords /\ left'.tasks = left.tasks
      BY <1>1, InvParts, LeftFaults
    <2>2. \A u \in Tasks : task'[u].h = task[u].h
      BY <1>3 DEF Fewer, Alike
    <2>3. \A u \in Realtime : task'[u].h \in HandlerNames => task'[u].h = Streamed
      BY <2>2, InvParts, Names
    <2>4. \A u \in caps' : u \in caps \/ task[u].h # None
      BY <1>3
    <2> QED
      BY <2>1, <2>2, <2>3, <2>4, InvParts, RunsFrame
  <1> QED
    BY <1>1, <1>3, <1>6, <1>7, <1>8, <1>9 DEF ShellInv, FlagsInv, CapsInv, VersionsInv, PageInv

\* Only loads and what is shown change.
LEMMA LoadFrame ==
  ASSUME ShellInv, load' \in [Loads -> LoadRecords], shown' \in [Parts -> PartRecords],
         \A m \in Loads : load'[m].stage # "idle" => load'[m].to \in Routes,
         \A p \in Tracked : /\ ShownFits(shown', server, p)
                            /\ \A m \in Loads : LoadFits(shown', server, load'[m], p),
         PageFits(route, shown', load'),
         left' \in LeftRecords, left'.tasks = left.tasks,
         UNCHANGED <<route, server, task, busy, cur, draft, cap, caps, event, robbed>>
  PROVE  ShellInv'
  <1>1. ShapesInv'
    BY InvParts DEF ShapesInv
  <1>2. RunsInv'
    BY InvParts, Names DEF RunsInv, Running
  <1>3. VersionsInv'
    BY InvParts DEF VersionsInv, VersionsFit
  <1> QED
    BY <1>1, <1>2, <1>3, InvParts DEF ShellInv, FlagsInv, CapsInv, PageInv

LEMMA LoadServedKeeps ==
  ASSUME ShellInv, NEW l \in Loads, LoadServed(l)
  PROVE  ShellInv'
  <1> DEFINE to == load[l].to
             got == [p \in Parts |-> IF p \in Range(PartsOf[to.page])
                                     THEN server[to.key][p] ELSE 0]
             x == [load[l] EXCEPT !.stage = "read", !.got = got]
  <1>1. /\ load[l].stage = "sent" /\ load' = [load EXCEPT ![l] = x]
        /\ UNCHANGED <<route, server, shown, task, busy, cur, draft, cap, caps,
                       event, robbed, left>>
    BY DEF LoadServed
  <1>2. to \in Routes /\ to.key \in Keys /\ load[l] \in LoadRecords
    BY <1>1, InvParts DEF ShapesInv, Routes
  <1>3. server[to.key] \in [Parts -> Nat]
    BY <1>2, InvParts
  <1>4. got \in [Parts -> Nat]
    BY <1>3
  <1>5. /\ x \in LoadRecords /\ x.stage = "read" /\ x.to = to /\ x.got = got
        /\ x.live = load[l].live
    <2> HIDE DEF got
    <2> QED BY <1>2, <1>4 DEF LoadRecords
  <1> HIDE DEF x
  <1>6. /\ load' \in [Loads -> LoadRecords] /\ load'[l] = x
        /\ \A m \in Loads \ {l} : load'[m] = load[m]
    BY <1>1, <1>5, InvParts
  <1>7. PageFits(route, shown', load')
    <2>1. \A m \in Loads : load'[m].live => load'[m].to = route
      BY <1>5, <1>6, InvParts DEF PageFits
    <2> QED
      BY <1>1, <1>6, <2>1, InvParts DEF PageFits
  <1>8. ASSUME NEW p \in Tracked
        PROVE  /\ ShownFits(shown', server, p)
               /\ \A m \in Loads : LoadFits(shown', server, load'[m], p)
    <2>1. ShownFits(shown, server, p) /\ \A m \in Loads : LoadFits(shown, server, load[m], p)
      BY InvParts DEF VersionsFit
    <2>2. p \in Parts /\ to.key # None
      BY <1>2, Names, PathParts
    <2>3. got[p] \in Nat /\ got[p] <= server[to.key][p]
      BY <1>3, <2>2
    <2>4. p \in Range(PartsOf[to.page]) => got[p] = server[to.key][p]
      BY <2>2
    <2> HIDE DEF got
    <2>5. LoadFits(shown, server, x, p)
      BY <1>5, <2>1, <2>2, <2>3, <2>4 DEF LoadFits, ShownFits
    <2> QED
      BY <1>1, <1>6, <2>1, <2>5
  <1>9. \A m \in Loads : load'[m].stage # "idle" => load'[m].to \in Routes
    BY <1>2, <1>5, <1>6, InvParts DEF ShapesInv
  <1>10. left' \in LeftRecords /\ left'.tasks = left.tasks /\ shown' \in [Parts -> PartRecords]
    BY <1>1, InvParts
  <1> QED
    BY <1>1, <1>6, <1>7, <1>8, <1>9, <1>10, LoadFrame

\* A load is over.
LEMMA LoadOver ==
  ASSUME ShellInv, NEW l \in Loads, load' = [load EXCEPT ![l] = NoLoad]
  PROVE  /\ load' \in [Loads -> LoadRecords] /\ load'[l] = NoLoad
         /\ \A m \in Loads \ {l} : load'[m] = load[m]
         /\ \A m \in Loads : load'[m].stage # "idle" => load'[m].to \in Routes
         /\ \A m \in Loads : load'[m].live => load'[m].to = route
  <1>1. /\ load' \in [Loads -> LoadRecords] /\ load'[l] = NoLoad
        /\ \A m \in Loads \ {l} : load'[m] = load[m]
    BY InvParts, BlankRecords
  <1>2. NoLoad.stage = "idle" /\ NoLoad.live = FALSE
    BY BlankRecords
  <1>3. \A m \in Loads : load'[m].stage # "idle" => load'[m].to \in Routes
    BY <1>1, <1>2, InvParts DEF ShapesInv
  <1>4. \A m \in Loads : load'[m].live => load'[m].to = route
    BY <1>1, <1>2, InvParts DEF PageFits
  <1> QED
    BY <1>1, <1>3, <1>4

LEMMA LoadFailedKeeps ==
  ASSUME ShellInv, NEW l \in Loads, LoadFailed(l)
  PROVE  ShellInv'
  <1>1. /\ load[l].stage \in {"sent", "read"} /\ Fault
        /\ load' = [load EXCEPT ![l] = NoLoad]
        /\ UNCHANGED <<route, server, shown, task, busy, cur, draft, cap, caps,
                       event, robbed>>
    BY DEF LoadFailed
  <1>2. /\ load' \in [Loads -> LoadRecords] /\ load'[l] = NoLoad
        /\ \A m \in Loads \ {l} : load'[m] = load[m]
        /\ \A m \in Loads : load'[m].stage # "idle" => load'[m].to \in Routes
        /\ \A m \in Loads : load'[m].live => load'[m].to = route
    BY <1>1, LoadOver
  <1>3. PageFits(route, shown', load')
    BY <1>1, <1>2, InvParts DEF PageFits
  <1>4. NoLoad.stage = "idle"
    BY BlankRecords
  <1>5. ASSUME NEW p \in Tracked
        PROVE  /\ ShownFits(shown', server, p)
               /\ \A m \in Loads : LoadFits(shown', server, load'[m], p)
    <2>1. ShownFits(shown, server, p) /\ \A m \in Loads : LoadFits(shown, server, load[m], p)
      BY InvParts DEF VersionsFit
    <2>2. LoadFits(shown, server, NoLoad, p)
      BY <1>4 DEF LoadFits
    <2> QED
      BY <1>1, <1>2, <2>1, <2>2
  <1>6. left' \in LeftRecords /\ left'.tasks = left.tasks /\ shown' \in [Parts -> PartRecords]
    BY <1>1, InvParts, LeftFaults
  <1> QED
    BY <1>1, <1>2, <1>3, <1>5, <1>6, LoadFrame

\* What is shown anew is of the page's key, and a resource comes with its files.
LEMMA CleanShown ==
  ASSUME NEW S, NEW U, NEW r \in Routes, r.page \in PathKeyed, Clean(S, r),
         \A p \in Keyed : U[p].of = r.key \/ U[p] = S[p],
         U["resource"] = S["resource"] \/ U["files"].of = r.key
  PROVE  Clean(U, r)
  <1>1. CASE r.page = "resource"
    <2>1. \A p \in {"resource", "project", "files"} : U[p].of = r.key \/ U[p] = S[p]
      BY PathParts
    <2> QED
      BY <1>1, <2>1 DEF Clean
  <1>2. CASE r.page # "resource"
    <2>1. \A p \in OnPage(r.page) \ Unchecked : U[p].of = r.key \/ U[p] = S[p]
      BY PathParts
    <2> QED
      BY <1>2, <2>1 DEF Clean
  <1> QED
    BY <1>1, <1>2

\* A load's answer is newer than what was shown of it, since showing a change
\* gives up the loads that read before it.
LEMMA LoadAnsweredKeeps ==
  ASSUME ShellInv, NEW l \in Loads, LoadAnswered(l)
  PROVE  ShellInv'
  <1> DEFINE to == load[l].to
             x == load[l]
             new(p) == [of |-> to.key, ver |-> x.got[p], by |-> "load",
                        own |-> Own(p, to.key)]
  <1>1. /\ x.stage = "read" /\ load' = [load EXCEPT ![l] = NoLoad]
        /\ UNCHANGED <<route, server, task, busy, cur, draft, cap, caps,
                       event, robbed, left>>
    BY DEF LoadAnswered
  <1>2. CASE ~Wanted(l)
    <2>1. UNCHANGED shown
      BY <1>2 DEF LoadAnswered
    <2>2. /\ load' \in [Loads -> LoadRecords] /\ load'[l] = NoLoad
          /\ \A m \in Loads \ {l} : load'[m] = load[m]
          /\ \A m \in Loads : load'[m].stage # "idle" => load'[m].to \in Routes
          /\ \A m \in Loads : load'[m].live => load'[m].to = route
      BY <1>1, LoadOver
    <2>3. PageFits(route, shown', load')
      BY <1>1, <2>1, <2>2, InvParts DEF PageFits
    <2>4. ASSUME NEW p \in Tracked
          PROVE  /\ ShownFits(shown', server, p)
                 /\ \A m \in Loads : LoadFits(shown', server, load'[m], p)
      <3>1. ShownFits(shown, server, p) /\ \A m \in Loads : LoadFits(shown, server, load[m], p)
        BY InvParts DEF VersionsFit
      <3>2. LoadFits(shown, server, NoLoad, p)
        BY BlankRecords DEF LoadFits
      <3> QED
        BY <2>1, <2>2, <3>1, <3>2
    <2>5. left' \in LeftRecords /\ left'.tasks = left.tasks /\ shown' \in [Parts -> PartRecords]
      BY <1>1, <2>1, InvParts
    <2> QED
      BY <1>1, <2>2, <2>3, <2>4, <2>5, LoadFrame
  <1>3. CASE Wanted(l)
    <2>1. shown' = [p \in Parts |-> IF p \in Range(PartsOf[to.page])
                                    THEN new(p) ELSE shown[p]]
      BY <1>3 DEF LoadAnswered
    <2>2. to = route /\ to \in Routes /\ to.key \in Keys /\ to.page \in Pages
      BY <1>3, InvParts DEF Wanted, PageFits, Routes
    <2>3. \A p \in Parts : /\ x.got[p] \in Nat /\ Own(p, to.key) \in Nat
                           /\ shown[p].own \in Nat
      <3>1. x \in LoadRecords /\ \A p \in Parts : shown[p] \in PartRecords
        BY InvParts
      <3> QED
        BY <3>1 DEF LoadRecords, PartRecords, Own
    <2>4. \A p \in Parts : /\ new(p) \in PartRecords /\ new(p).of = to.key
                           /\ new(p).ver = x.got[p] /\ new(p).by = "load"
                           /\ new(p).own = Own(p, to.key)
      BY <2>2, <2>3 DEF PartRecords
    <2> HIDE DEF new
    <2>5. shown' \in [Parts -> PartRecords]
      BY <2>1, <2>4, InvParts
    <2>6. /\ load' \in [Loads -> LoadRecords] /\ load'[l] = NoLoad
          /\ \A m \in Loads \ {l} : load'[m] = load[m]
          /\ \A m \in Loads : load'[m].stage # "idle" => load'[m].to \in Routes
          /\ \A m \in Loads : load'[m].live => load'[m].to = route
      BY <1>1, LoadOver
    <2>7. PageFits(route, shown', load')
      <3>1. ASSUME route.page \in PathKeyed, Clean(shown, route)
            PROVE  Clean(shown', route)
        <4>1. \A p \in Keyed : shown'[p].of = route.key \/ shown'[p] = shown[p]
          BY <2>1, <2>2, <2>4, PathParts
        <4>2. "resource" \in Range(PartsOf[to.page]) => "files" \in Range(PartsOf[to.page])
          BY <2>2, PageParts, PageNames DEF PathKeyed
        <4>3. shown'["resource"] = shown["resource"] \/ shown'["files"].of = route.key
          BY <2>1, <2>2, <2>4, <4>2, PathParts
        <4> QED
          BY <2>2, <3>1, <4>1, <4>3, CleanShown
      <3>2. \A m \in Loads : load[m].stage = "cancel" => load'[m] = load[m]
        BY <1>1, <2>6
      <3> QED
        BY <2>6, <3>1, <3>2, InvParts DEF PageFits
    <2>8. ASSUME NEW p \in Tracked
          PROVE  /\ ShownFits(shown', server, p)
                 /\ \A m \in Loads : LoadFits(shown', server, load'[m], p)
      <3>1. ShownFits(shown, server, p) /\ \A m \in Loads : LoadFits(shown, server, load[m], p)
        BY InvParts DEF VersionsFit
      <3>2. LoadFits(shown, server, NoLoad, p)
        BY BlankRecords DEF LoadFits
      <3>3. CASE p \notin Range(PartsOf[to.page])
        <4>1. shown'[p] = shown[p]
          BY <2>1, <3>3, PathParts
        <4> QED
          BY <2>6, <3>1, <3>2, <4>1 DEF ShownFits, LoadFits
      <3>4. CASE p \in Range(PartsOf[to.page])
        <4>1. p \in Parts /\ to.key # None
          BY <2>2, PathParts, Names
        <4>2. /\ shown'[p].of = to.key /\ shown'[p].ver = x.got[p]
              /\ shown'[p].by = "load" /\ shown'[p].own = Own(p, to.key)
          BY <2>1, <2>4, <3>4, <4>1
        <4>3. server[to.key][p] \in Nat /\ x.got[p] \in Nat
          BY <2>2, <2>3, <4>1, InvParts
        <4>4. x.got[p] <= server[to.key][p] /\ (shown[p].of = to.key => x.got[p] >= shown[p].own)
          BY <1>1, <1>3, <3>1, <3>4 DEF LoadFits, Wanted
        <4>5. ShownFits(shown', server, p)
          BY <3>1, <4>1, <4>2, <4>3, <4>4 DEF ShownFits, Own
        <4>6. ASSUME NEW m \in Loads \ {l}
              PROVE  LoadFits(shown', server, load[m], p)
          <5>1. load[m].got[p] \in Nat
            <6>1. load[m] \in LoadRecords
              BY InvParts
            <6> QED
              BY <4>1, <6>1 DEF LoadRecords
          <5> QED
            BY <3>1, <4>2, <5>1 DEF LoadFits, Own
        <4>7. LoadFits(shown', server, NoLoad, p)
          BY BlankRecords DEF LoadFits
        <4> QED
          BY <2>6, <4>5, <4>6, <4>7
      <3> QED
        BY <3>3, <3>4
    <2>9. left' \in LeftRecords /\ left'.tasks = left.tasks
      BY <1>1, InvParts
    <2> QED
      BY <1>1, <2>5, <2>6, <2>7, <2>8, <2>9, LoadFrame
  <1> QED
    BY <1>2, <1>3

-----------------------------------------------------------------------------
\* The steps of a run.

\* What becomes of a run: it goes on with what it was given, or as one that was
\* given nothing.
Follows(x, y) ==
    y.h \in HandlerNames =>
        \/ y.h = x.h /\ y.at = x.at /\ y.got = x.got
        \/ \A p \in Tracked : y.got[p] = 0

\* Run t moves on or ends, and no other does.
Moves(t) ==
    /\ task' \in [Tasks -> TaskRecords]
    /\ \A u \in Tasks : RunFits(task'[u]) /\ Follows(task[u], task'[u])
    /\ \A u \in Tasks \ {t} : Alike(task[u], task'[u])
    /\ task'[t].h # Preview
    /\ t \in Realtime /\ task'[t].h \in HandlerNames => task'[t].h = Streamed

LEMMA AlikeFollows ==
  ASSUME NEW x, NEW y, Alike(x, y)
  PROVE  Follows(x, y) /\ (RunFits(x) => RunFits(y))
  BY DEF Alike, Follows, RunFits

LEMMA ReadsFollow ==
  ASSUME NEW p \in Tracked, NEW x, NEW y, RunReads(server, x, p), Follows(x, y),
         RunFits(y), server \in [Keys -> [Parts -> Nat]]
  PROVE  RunReads(server, y, p)
  <1>1. p \in Parts
    BY PathParts
  <1> SUFFICES ASSUME y.h \in HandlerNames
               PROVE  RunReads(server, y, p)
    BY DEF RunReads
  <1>2. server[y.at.key][p] \in Nat
    BY <1>1 DEF RunFits, Routes
  <1> QED
    BY <1>2 DEF RunReads, Follows

\* A run's step keeps the invariant if it keeps what is said of flags,
\* capabilities and the page.
LEMMA MoveFrame ==
  ASSUME ShellInv, NEW t \in Tasks, Running(t), Moves(t),
         busy' \in [Flags -> Tasks \cup {None}],
         cur' \in [Groups -> Tasks \cup {None}],
         FlagsFit(task', busy', cur', robbed'),
         CapsFit(task', cur', cap', caps'), caps' \subseteq caps \cup {t},
         draft' \in [key : Keys \cup {None}, id : Tasks \cup {None}],
         event' \in [due : BOOLEAN, by : Realtime \cup {None}, again : BOOLEAN],
         left' \in LeftRecords, left'.tasks = left.tasks,
         load' \in [Loads -> LoadRecords], shown' \in [Parts -> PartRecords],
         \A m \in Loads : load'[m].stage # "idle" => load'[m].to \in Routes,
         \A p \in Tracked : /\ ShownFits(shown', server, p)
                            /\ \A m \in Loads : LoadFits(shown', server, load'[m], p),
         PageFits(route, shown', load'), UNCHANGED <<route, server>>
  PROVE  ShellInv'
  <1>1. ShapesInv'
    BY InvParts DEF ShapesInv, Moves
  <1>2. VersionsInv'
    <2>1. ASSUME NEW p \in Tracked, NEW u \in Tasks
          PROVE  RunReads(server, task'[u], p)
      <3>1. RunReads(server, task[u], p) /\ server \in [Keys -> [Parts -> Nat]]
        BY InvParts DEF VersionsFit
      <3>2. RunFits(task'[u]) /\ Follows(task[u], task'[u])
        BY DEF Moves
      <3> QED
        BY <3>1, <3>2, ReadsFollow
    <2> QED
      BY <2>1 DEF VersionsInv, VersionsFit
  <1>3. RunsInv'
    <2>1. task[t].h \in HandlerNames /\ task[t].h # None
      BY Names DEF Running
    <2>2. \A u \in Tasks \ {t} : task'[u].h = task[u].h
      BY DEF Moves, Alike
    <2>3. \A u \in Tasks : task[u].h = None => task'[u].h = None \/ u \in Realtime
      BY <2>1, <2>2
    <2>4. \A u \in Realtime : task'[u].h \in HandlerNames => task'[u].h = Streamed
      BY <2>2, InvParts, Names DEF Moves
    <2>5. \A u \in caps' : u \in caps \/ task[u].h # None
      BY <2>1
    <2> QED
      BY <2>3, <2>4, <2>5, InvParts, RunsFrame
  <1> QED
    BY <1>1, <1>2, <1>3 DEF ShellInv, FlagsInv, CapsInv, PageInv

\* Only the runs and their flags change.
LEMMA FlagFrame ==
  ASSUME ShellInv, NEW t \in Tasks, Running(t), Moves(t),
         busy' \in [Flags -> Tasks \cup {None}],
         cur' \in [Groups -> Tasks \cup {None}],
         FlagsFit(task', busy', cur', robbed'),
         CapsFit(task', cur', cap', caps'), caps' \subseteq caps \cup {t},
         draft' \in [key : Keys \cup {None}, id : Tasks \cup {None}],
         event' \in [due : BOOLEAN, by : Realtime \cup {None}, again : BOOLEAN],
         left' \in LeftRecords, left'.tasks = left.tasks,
         UNCHANGED <<route, server, load, shown>>
  PROVE  ShellInv'
  <1>1. /\ load' \in [Loads -> LoadRecords] /\ shown' \in [Parts -> PartRecords]
        /\ \A m \in Loads : load'[m].stage # "idle" => load'[m].to \in Routes
        /\ PageFits(route, shown', load')
    BY InvParts DEF ShapesInv
  <1>2. \A p \in Tracked : /\ ShownFits(shown', server, p)
                           /\ \A m \in Loads : LoadFits(shown', server, load'[m], p)
    BY InvParts DEF VersionsFit
  <1> QED
    BY <1>1, <1>2, MoveFrame

\* The end of a run that opened no preview, or was not served.
LEMMA CapsMove ==
  ASSUME ShellInv, NEW t \in Tasks, Moves(t), NEW C, C["preview"] = cur["preview"],
         task[t].h = Preview => ~task[t].served
  PROVE  CapsFit(task', C, cap, caps)
  <1>1. \A u \in Tasks \ {t} : task'[u].h = task[u].h /\ task'[u].served = task[u].served
    BY DEF Moves, Alike
  <1>2. task'[t].h # Preview
    BY DEF Moves
  <1> QED
    BY <1>1, <1>2, InvParts DEF CapsFit

\* A run of the event stream that is followed by another.
LEMMA Followed ==
  ASSUME ShellInv, NEW t \in Tasks, Running(t), event.by = t
  PROVE  t \in Realtime /\ task[t].h = Streamed
  <1>1. event.by \in Realtime \cup {None} /\ t # None
    BY InvParts, Names
  <1> QED
    BY <1>1, InvParts DEF Running

LEMMA RunEnds ==
  ASSUME ShellInv, NEW t \in Tasks, Running(t), NEW lax \in BOOLEAN, NEW T,
         Fewer(task, T), Ends(t, lax, T)
  PROVE  /\ Moves(t) /\ FlagsFit(task', busy', cur, robbed')
         /\ busy' \in [Flags -> Tasks \cup {None}]
         /\ event' \in [due : BOOLEAN, by : Realtime \cup {None}, again : BOOLEAN]
  <1> DEFINE again == event.by = t /\ event.again
             y == IF again THEN Started(t, task[t].h, task[t].at)
                  ELSE IF t \in Realtime THEN NoTask ELSE DoneTask
  <1>1. /\ task' = [T EXCEPT ![t] = y]
        /\ busy' = BusyAfter(t, lax) /\ robbed' = RobbedAfter(t, lax)
        /\ event' = IF event.by # t THEN event
                    ELSE [event EXCEPT !.by = IF again THEN t ELSE None,
                                       !.again = FALSE]
    BY DEF Ends
  <1>2. task[t].h \in HandlerNames /\ task[t].at \in Routes
    BY InvParts DEF Running, RunFits
  <1>5. /\ y \in TaskRecords
        /\ y.h \in HandlerNames => /\ t \in Realtime /\ y.h = Streamed
                                   /\ y.at \in Routes /\ y.pc = 1
                                   /\ \A p \in Tracked : y.got[p] = 0
                                   /\ Handlers[y.h].takes = "none"
                                   /\ Len(Handlers[y.h].script) \in Nat \ {0}
    <2>1. CASE again
      <3>1. t \in Realtime /\ task[t].h = Streamed
        BY <2>1, Followed
      <3>2. y = Started(t, Streamed, task[t].at)
        BY <2>1, <3>1
      <3> HIDE DEF y
      <3>3. /\ y \in TaskRecords /\ y.h = Streamed /\ y.at = task[t].at /\ y.pc = 1
            /\ y.got = NoGot
        <4>1. /\ draft \in [key : Keys \cup {None}, id : Tasks \cup {None}]
              /\ Streamed \in HandlerNames /\ task[t].at \in Routes
          BY <1>2, InvParts, Names
        <4>2. Beginning(y, Streamed, task[t].at)
          BY <3>2, <4>1, StartedRecord
        <4> QED
          BY <4>2 DEF Beginning
      <3>4. Len(Handlers[Streamed].script) \in Nat \ {0}
        BY HandlerTable, Names DEF HandlerFits
      <3>5. \A p \in Tracked : NoGot[p] = 0
        BY BlankRecords, PathParts
      <3>6. Handlers[Streamed].takes = "none"
        BY PreviewTable, Names
      <3> QED
        BY <1>2, <3>1, <3>3, <3>4, <3>5, <3>6
    <2>2. CASE ~again
      BY <2>2, BlankRecords, Names
    <2> QED
      BY <2>1, <2>2
  <1> HIDE DEF y
  <1>6. /\ task' \in [Tasks -> TaskRecords] /\ task'[t] = y
        /\ \A u \in Tasks \ {t} : task'[u] = T[u]
    BY <1>1, <1>5 DEF Fewer
  <1>7. Preview # Streamed /\ Preview \in HandlerNames
    BY Names DEF Preview, Streamed
  <1>8. Moves(t)
    <2>1. \A u \in Tasks \ {t} : Alike(task[u], task'[u])
      BY <1>6 DEF Fewer
    <2>2. \A u \in Tasks \ {t} : RunFits(task'[u]) /\ Follows(task[u], task'[u])
      BY <2>1, AlikeFollows, InvParts
    <2>3. RunFits(y) /\ Follows(task[t], y)
      BY <1>5 DEF RunFits, Follows
    <2> QED
      BY <1>5, <1>6, <1>7, <2>1, <2>2, <2>3 DEF Moves
  <1>9. FlagsFit(task', busy', cur, robbed')
    <2>1. Flagless(task'[t])
      BY <1>5, <1>6 DEF Flagless
    <2>2. \A u \in Tasks \ {t} : KeepsFlag(task[u], task'[u])
      BY <1>6 DEF Fewer
    <2>3. FlagsInv /\ busy \in [Flags -> Tasks \cup {None}]
      BY InvParts DEF FlagsInv
    <2>4. FlagsFit(task', BusyAfter(t, lax), cur, RobbedAfter(t, lax))
      BY <2>1, <2>2, <2>3, FlagsEnd
    <2> QED
      BY <1>1, <2>4
  <1>10. busy' \in [Flags -> Tasks \cup {None}]
    BY <1>1, InvParts DEF BusyAfter
  <1>11. event' \in [due : BOOLEAN, by : Realtime \cup {None}, again : BOOLEAN]
    <2>1. event.by = t => t \in Realtime
      BY Followed
    <2>2. event \in [due : BOOLEAN, by : Realtime \cup {None}, again : BOOLEAN]
      BY InvParts
    <2> QED
      BY <1>1, <2>1, <2>2
  <1> QED
    BY <1>8, <1>9, <1>10, <1>11

LEMMA RunGoesOn ==
  ASSUME ShellInv, NEW t \in Tasks, Running(t), NEW pc \in 2 .. Len(Script(t)),
         NEW T, Fewer(task, T), GoesOn(t, pc, T)
  PROVE  /\ Moves(t) /\ FlagsFit(task', busy', cur, robbed')
         /\ busy' \in [Flags -> Tasks \cup {None}]
         /\ event' \in [due : BOOLEAN, by : Realtime \cup {None}, again : BOOLEAN]
  <1> DEFINE h == Handlers[task[t].h]
             at == IF h.now /\ pc = Len(h.script) THEN route ELSE task[t].at
             y == [T[t] EXCEPT !.pc = pc, !.served = FALSE, !.at = at]
  <1>1. CASE at.page \notin h.on \cup {"item"}
    <2>1. Ends(t, FALSE, T)
      BY <1>1 DEF GoesOn
    <2> QED
      BY <2>1, RunEnds
  <1>2. CASE at.page \in h.on \cup {"item"}
    <2>1. task' = [T EXCEPT ![t] = y] /\ UNCHANGED <<busy, event, robbed>>
      BY <1>2 DEF GoesOn
    <2>2. /\ task[t].h \in HandlerNames /\ at \in Routes /\ pc \in Nat
          /\ T[t] \in TaskRecords /\ T \in [Tasks -> TaskRecords]
          /\ pc \in 1 .. Len(Handlers[task[t].h].script)
      <3>1. Len(Handlers[task[t].h].script) \in Nat
        BY HandlerTable DEF HandlerFits, Running
      <3> QED
        BY <3>1, InvParts DEF Running, RunFits, Fewer, Script
    <2>3. /\ T[t].h = task[t].h /\ T[t].got = task[t].got /\ T[t].took = task[t].took
          /\ T[t].holds => task[t].holds
      BY DEF Fewer, Alike, KeepsFlag
    <2>4. at # task[t].at => h.now
      OBVIOUS
    <2> HIDE DEF at
    <2>5. /\ y \in TaskRecords /\ y.h = T[t].h /\ y.at = at /\ y.got = T[t].got
          /\ y.pc = pc /\ y.took = T[t].took /\ y.holds = T[t].holds
      BY <2>2 DEF TaskRecords
    <2> HIDE DEF y
    <2>6. /\ task' \in [Tasks -> TaskRecords] /\ task'[t] = y
          /\ \A u \in Tasks \ {t} : task'[u] = T[u]
      BY <2>1, <2>2, <2>5
    <2>7. Moves(t)
      <3>1. \A u \in Tasks \ {t} : Alike(task[u], task'[u])
        BY <2>6 DEF Fewer
      <3>2. \A u \in Tasks \ {t} : RunFits(task'[u]) /\ Follows(task[u], task'[u])
        BY <3>1, AlikeFollows, InvParts
      <3>3. RunFits(y)
        BY <2>2, <2>3, <2>5 DEF RunFits
      <3>4. Follows(task[t], y)
        <4>1. h.now => \A p \in Tracked : task[t].got[p] = 0
          BY <2>2, InvParts DEF VersionsFit, RunReads
        <4> QED
          BY <2>3, <2>4, <2>5, <4>1 DEF Follows
      <3>5. y.h # Preview
        <4>1. task[t].h = Preview => Len(Script(t)) = 1
          BY <2>2, PreviewTable DEF Script
        <4>2. pc \in Nat /\ 2 <= pc /\ pc <= Len(Script(t))
          BY <2>2 DEF Script
        <4>3. task[t].h # Preview
          BY <4>1, <4>2
        <4>4. y.h = task[t].h
          BY <2>3, <2>5
        <4> QED
          BY <4>3, <4>4
      <3>6. t \in Realtime /\ y.h \in HandlerNames => y.h = Streamed
        BY <2>2, <2>3, <2>5, InvParts
      <3> QED
        BY <2>6, <3>1, <3>2, <3>3, <3>4, <3>5, <3>6 DEF Moves
    <2>8. FlagsFit(task', busy', cur, robbed')
      <3>1. \A u \in Tasks : KeepsFlag(task[u], task'[u])
        BY <2>3, <2>5, <2>6 DEF Fewer, Alike, KeepsFlag
      <3>2. FlagsFit(task', busy, cur, robbed)
        BY <3>1, InvParts, FlagsFrame
      <3> QED
        BY <2>1, <3>2
    <2> QED
      BY <2>1, <2>7, <2>8, InvParts
  <1> QED
    BY <1>1, <1>2

LEMMA StepFacts ==
  ASSUME ShellInv, NEW t \in Tasks, Running(t)
  PROVE  /\ StepFits(Handlers[task[t].h], StepOf(t))
         /\ task[t].h \in HandlerNames /\ task[t].at \in Routes
         /\ task[t].pc \in 1 .. Len(Script(t)) /\ Len(Script(t)) \in Nat \ {0}
         /\ task[t].h = Preview => StepOf(t).do = "host"
         /\ Script(t) = Handlers[task[t].h].script
  <1>1. task[t].h \in HandlerNames /\ RunFits(task[t])
    BY InvParts DEF Running
  <1>2. HandlerFits(task[t].h, Handlers[task[t].h])
    BY <1>1, HandlerTable
  <1> QED
    BY <1>1, <1>2 DEF RunFits, HandlerFits, StepOf, Script

LEMMA NotChosenKeeps ==
  ASSUME ShellInv, NEW t \in Tasks, NotChosen(t)
  PROVE  ShellInv'
  <1>1. /\ Running(t) /\ StepOf(t).do = "pick" /\ Ends(t, TRUE, task)
        /\ UNCHANGED <<route, server, shown, load, cur, draft, cap, caps, left>>
    BY DEF NotChosen
  <1>2. Fewer(task, task)
    BY InvParts, SameRuns
  <1>3. /\ Moves(t) /\ FlagsFit(task', busy', cur, robbed')
        /\ busy' \in [Flags -> Tasks \cup {None}]
        /\ event' \in [due : BOOLEAN, by : Realtime \cup {None}, again : BOOLEAN]
    BY <1>1, <1>2, RunEnds
  <1>4. task[t].h # Preview
    BY <1>1, StepFacts
  <1>5. CapsFit(task', cur', cap', caps')
    BY <1>1, <1>3, <1>4, CapsMove
  <1> QED
    BY <1>1, <1>3, <1>5, InvParts, FlagFrame

LEMMA RefreshEndsKeeps ==
  ASSUME ShellInv, NEW t \in Tasks, RefreshEnds(t)
  PROVE  ShellInv'
  <1>1. /\ Running(t) /\ StepOf(t).do = "refresh" /\ Ends(t, FALSE, task)
        /\ UNCHANGED <<route, server, shown, load, cur, draft, cap, caps, left>>
    BY DEF RefreshEnds
  <1>2. Fewer(task, task)
    BY InvParts, SameRuns
  <1>3. /\ Moves(t) /\ FlagsFit(task', busy', cur, robbed')
        /\ busy' \in [Flags -> Tasks \cup {None}]
        /\ event' \in [due : BOOLEAN, by : Realtime \cup {None}, again : BOOLEAN]
    BY <1>1, <1>2, RunEnds
  <1>4. task[t].h # Preview
    BY <1>1, StepFacts
  <1>5. CapsFit(task', cur', cap', caps')
    <2>1. Moves(t) /\ UNCHANGED <<cur, cap, caps>>
      BY <1>1, <1>3, Zenon
    <2> QED
      BY <1>4, <2>1, CapsMove
  <1> QED
    BY <1>1, <1>3, <1>5, InvParts, FlagFrame

LEMMA ChosenKeeps ==
  ASSUME ShellInv, NEW t \in Tasks, Chosen(t)
  PROVE  ShellInv'
  <1> DEFINE h == Handlers[task[t].h]
             y == [task[t] EXCEPT !.pc = 2, !.took = TRUE, !.holds = task[t].holds \/ h.late]
  <1>1. /\ Running(t) /\ StepOf(t).do = "pick" /\ task' = [task EXCEPT ![t] = y]
        /\ busy' = IF h.late THEN [busy EXCEPT ![h.takes] = t] ELSE busy
        /\ robbed' = IF h.late /\ busy[h.takes] # None
                     THEN robbed \cup {<<busy[h.takes], task[t].h>>} ELSE robbed
        /\ cur' = IF h.late THEN [cur EXCEPT ![h.group] = t] ELSE cur
        /\ UNCHANGED <<route, server, shown, load, draft, cap, caps, event, left>>
    BY DEF Chosen
  <1>2. /\ task[t].h \in HandlerNames /\ task[t].at \in Routes
        /\ task[t].h # Preview /\ 2 \in 1 .. Len(h.script)
    <2>1. StepFits(h, StepOf(t)) /\ Len(h.script) \in Nat /\ task[t].h # Preview
      BY <1>1, StepFacts
    <2> QED
      BY <1>1, <2>1, StepFacts DEF StepFits
  <1>3. /\ h.takes \in Flags /\ h.group \in Groups /\ h.late \in BOOLEAN
        /\ h.late => h.group = "asset"
    BY <1>2, FlagTable
  <1>4. /\ y \in TaskRecords /\ y.h = task[t].h /\ y.at = task[t].at
        /\ y.got = task[t].got /\ y.pc = 2 /\ y.took = TRUE
        /\ y.holds = (task[t].holds \/ h.late)
    <2>1. task[t] \in TaskRecords /\ task[t].holds \in BOOLEAN
      BY InvParts DEF TaskRecords
    <2>2. PICK b \in BOOLEAN : b = (task[t].holds \/ h.late)
      BY <1>3, <2>1
    <2>3. y = [task[t] EXCEPT !.pc = 2, !.took = TRUE, !.holds = b]
      BY <2>2
    <2> HIDE DEF y, h
    <2>4. /\ y \in TaskRecords /\ y.h = task[t].h /\ y.at = task[t].at
          /\ y.got = task[t].got /\ y.pc = 2 /\ y.took = TRUE /\ y.holds = b
      BY <2>1, <2>3 DEF TaskRecords
    <2> QED
      BY <2>2, <2>4
  <1> HIDE DEF y
  <1>5. /\ task' \in [Tasks -> TaskRecords] /\ task'[t] = y
        /\ \A u \in Tasks \ {t} : task'[u] = task[u]
    BY <1>1, <1>4, InvParts
  <1>6. Moves(t)
    <2>1. \A u \in Tasks \ {t} : Alike(task[u], task'[u])
      BY <1>5 DEF Alike
    <2>2. \A u \in Tasks \ {t} : RunFits(task'[u]) /\ Follows(task[u], task'[u])
      BY <2>1, AlikeFollows, InvParts
    <2>3. RunFits(y) /\ Follows(task[t], y)
      BY <1>2, <1>4 DEF RunFits, Follows
    <2>4. y.h # Preview /\ (t \in Realtime => y.h = Streamed)
      BY <1>2, <1>4, InvParts
    <2> QED
      BY <1>5, <2>1, <2>2, <2>3, <2>4 DEF Moves
  <1>7. FlagsFit(task', busy', cur', robbed')
    <2>1. /\ FlagsInv /\ busy \in [Flags -> Tasks \cup {None}]
          /\ cur \in [Groups -> Tasks \cup {None}]
      BY InvParts DEF FlagsInv
    <2>2. /\ task'[t].h = task[t].h /\ task'[t].took = TRUE
          /\ task'[t].holds = (task[t].holds \/ h.late)
      BY <1>4, <1>5
    <2>3. /\ \A f \in Flags : busy'[f] = IF h.late /\ f = h.takes THEN t ELSE busy[f]
          /\ \A g \in Groups : cur'[g] = IF h.late /\ g = h.group THEN t ELSE cur[g]
      BY <1>1, <1>3, <2>1
    <2>4. h = Handlers[task[t].h]
      OBVIOUS
    <2>5. robbed' = IF h.late /\ busy[h.takes] # None
                    THEN robbed \cup {<<busy[h.takes], task[t].h>>} ELSE robbed
      BY <1>1
    <2> HIDE DEF h
    <2>6. /\ robbed \subseteq robbed'
          /\ h.late /\ busy[h.takes] # None => <<busy[h.takes], task[t].h>> \in robbed'
          /\ \A r \in robbed' : r \in robbed \/ (h.late /\ r[2] = task[t].h)
      BY <2>5
    <2>7. TakesLate(t, h, task', busy', cur', robbed')
      BY <1>5, <2>2, <2>3, <2>6 DEF TakesLate
    <2> QED
      BY <1>1, <2>1, <2>4, <2>7, FlagsChosen
  <1>8. /\ busy' \in [Flags -> Tasks \cup {None}]
        /\ cur' \in [Groups -> Tasks \cup {None}] /\ cur'["preview"] = cur["preview"]
    BY <1>1, <1>3, InvParts DEF Groups
  <1>9. CapsFit(task', cur', cap', caps')
    BY <1>1, <1>2, <1>6, <1>8, CapsMove
  <1> QED
    BY <1>1, <1>6, <1>7, <1>8, <1>9, InvParts, FlagFrame

\* The server's versions only grow.
LEMMA VersionsGrow ==
  ASSUME ShellInv, NEW V \in [Keys -> [Parts -> Nat]],
         \A k \in Keys, p \in Tracked : server[k][p] <= V[k][p]
  PROVE  VersionsFit(shown, V, load, task)
  <1> SUFFICES ASSUME NEW p \in Tracked
               PROVE  /\ ShownFits(shown, V, p)
                      /\ \A l \in Loads : LoadFits(shown, V, load[l], p)
                      /\ \A t \in Tasks : RunReads(V, task[t], p)
    BY DEF VersionsFit
  <1>1. p \in Parts /\ \A k \in Keys : /\ server[k][p] \in Nat /\ V[k][p] \in Nat
                                       /\ server[k][p] <= V[k][p]
    BY PathParts, InvParts
  <1>2. ShownFits(shown, V, p)
    <2>1. shown[p] \in PartRecords /\ ShownFits(shown, server, p)
      BY <1>1, InvParts DEF VersionsFit
    <2>2. shown[p].of \in Keys \cup {None} /\ shown[p].ver \in Nat /\ shown[p].own \in Nat
      BY <2>1 DEF PartRecords
    <2> QED
      BY <1>1, <2>1, <2>2 DEF ShownFits
  <1>3. ASSUME NEW l \in Loads
        PROVE  LoadFits(shown, V, load[l], p)
    <2>1. load[l] \in LoadRecords /\ LoadFits(shown, server, load[l], p)
      BY InvParts DEF VersionsFit
    <2>2. load[l].stage = "read" => load[l].to.key \in Keys
      BY InvParts DEF ShapesInv, Routes
    <2>3. load[l].got[p] \in Nat
      BY <1>1, <2>1 DEF LoadRecords
    <2> QED
      BY <1>1, <2>1, <2>2, <2>3 DEF LoadFits
  <1>4. ASSUME NEW t \in Tasks
        PROVE  RunReads(V, task[t], p)
    <2>1. task[t] \in TaskRecords /\ RunReads(server, task[t], p) /\ RunFits(task[t])
      BY InvParts DEF VersionsFit
    <2>2. task[t].h \in HandlerNames => task[t].at.key \in Keys
      BY <2>1 DEF RunFits, Routes
    <2>3. task[t].got[p] \in Nat
      BY <1>1, <2>1 DEF TaskRecords
    <2> QED
      BY <1>1, <2>1, <2>2, <2>3 DEF RunReads
  <1> QED
    BY <1>2, <1>3, <1>4

LEMMA ServedKeeps ==
  ASSUME ShellInv, NEW t \in Tasks, Served(t)
  PROVE  ShellInv'
  <1> DEFINE x == task[t]
             step == StepOf(t)
             id == IF step.do # "draft" THEN x.id
                   ELSE IF draft.key = x.at.key THEN draft.id ELSE t
             got == [p \in Parts |-> IF p \in step.parts
                                     THEN server'[x.at.key][p] ELSE x.got[p]]
             y == [x EXCEPT !.served = TRUE, !.id = id, !.got = got]
  <1>1. /\ Running(t)
        /\ server' = IF step.do # "write" THEN server ELSE
             [server EXCEPT ![x.at.key] = [p \in Parts |->
                IF p \in step.parts THEN @[p] + 1 ELSE @[p]]]
        /\ task' = [task EXCEPT ![t] = y]
        /\ caps' = IF x.h = Preview THEN caps \cup {t} ELSE caps
        /\ UNCHANGED <<route, shown, load, busy, cur, draft, cap, robbed, left>>
    BY DEF Served, Preview
  <1>2. /\ StepFits(Handlers[x.h], step) /\ x.h \in HandlerNames /\ x.at \in Routes
        /\ x.at.key \in Keys /\ x \in TaskRecords
    BY <1>1, StepFacts, InvParts DEF Routes
  <1>3. server' \in [Keys -> [Parts -> Nat]]
        /\ \A k \in Keys, p \in Tracked : server[k][p] <= server'[k][p]
    <2>1. server \in [Keys -> [Parts -> Nat]] /\ Tracked \subseteq Parts
      BY InvParts, PathParts
    <2>2. \A k \in Keys, p \in Parts : server[k][p] \in Nat
      BY <2>1
    <2> HIDE DEF step, x
    <2>3. CASE step.do # "write"
      BY <1>1, <2>1, <2>2, <2>3
    <2>4. CASE step.do = "write"
      <3> DEFINE k == x.at.key
                 v == [p \in Parts |-> IF p \in step.parts THEN server[k][p] + 1 ELSE server[k][p]]
      <3>1. server' = [server EXCEPT ![k] = v]
        BY <1>1, <2>4
      <3>2. v \in [Parts -> Nat] /\ \A p \in Tracked : server[k][p] <= v[p]
        BY <1>2, <2>1, <2>2
      <3> HIDE DEF k, v
      <3>3. \A j \in Keys : server'[j] = IF j = k THEN v ELSE server[j]
        BY <2>1, <3>1
      <3>4. server' \in [Keys -> [Parts -> Nat]]
        BY <2>1, <3>1, <3>2
      <3>5. ASSUME NEW j \in Keys, NEW p \in Tracked
            PROVE  server[j][p] <= server'[j][p]
        <4>1. server[j][p] \in Nat
          BY <2>1, <2>2
        <4> QED
          BY <3>2, <3>3, <4>1
      <3> QED
        BY <3>4, <3>5
    <2> QED
      BY <2>3, <2>4
  <1>4. /\ got \in [Parts -> Nat]
        /\ \A p \in Tracked : got[p] = IF p \in step.parts THEN server'[x.at.key][p] ELSE x.got[p]
    <2>1. x.got \in [Parts -> Nat] /\ server'[x.at.key] \in [Parts -> Nat]
      BY <1>2, <1>3 DEF TaskRecords
    <2> HIDE DEF step, x
    <2> QED
      BY <2>1, PathParts
  <1>5. id \in Tasks \cup {None}
    BY <1>2, InvParts DEF TaskRecords
  <1> HIDE DEF id, got, step
  <1>6. /\ y \in TaskRecords /\ y.h = x.h /\ y.at = x.at /\ y.pc = x.pc
        /\ y.served = TRUE /\ y.took = x.took /\ y.holds = x.holds /\ y.got = got
    BY <1>2, <1>4, <1>5 DEF TaskRecords
  <1> HIDE DEF y
  <1>7. /\ task' \in [Tasks -> TaskRecords] /\ task'[t] = y
        /\ \A u \in Tasks \ {t} : task'[u] = task[u]
    BY <1>1, <1>6, InvParts
  <1>8. event' \in [due : BOOLEAN, by : Realtime \cup {None}, again : BOOLEAN]
    <2>1. event \in [due : BOOLEAN, by : Realtime \cup {None}, again : BOOLEAN]
      BY InvParts
    <2>2. \E b : event' = [event EXCEPT !.due = event.due \/ (b = TRUE)]
      <3> DEFINE c == /\ left.events > 0 /\ StepOf(t).do = "write" /\ route = [page |-> "item", key |-> task[t].at.key]
                      /\ StepOf(t).parts \cap Range(PartsOf.item) # {}
      <3>1. event' = [event EXCEPT !.due = event.due \/ c]
        BY DEF Served
      <3>2. c \in BOOLEAN
        OBVIOUS
      <3> HIDE DEF c
      <3>3. c <=> (c = TRUE)
        BY <3>2
      <3> QED
        BY <3>1, <3>2, <3>3
    <2> QED
      BY <2>1, <2>2
  <1>9. ShapesInv'
    <2>1. \A u \in Tasks : RunFits(task'[u])
      BY <1>6, <1>7, InvParts DEF RunFits
    <2> QED
      BY <1>1, <1>3, <1>7, <1>8, <2>1, InvParts DEF ShapesInv
  <1>10. RunsInv'
    <2>1. x.h # None
      BY <1>2, Names
    <2>2. \A u \in Tasks : task'[u].h = task[u].h
      BY <1>6, <1>7
    <2>3. \A u \in Realtime : task'[u].h \in HandlerNames => task'[u].h = Streamed
      BY <2>2, InvParts, Names
    <2>4. \A u \in caps' : u \in caps \/ task[u].h # None
      BY <1>1, <2>1
    <2> QED
      BY <1>1, <2>2, <2>3, <2>4, InvParts, RunsFrame
  <1>11. FlagsInv'
    <2>1. \A u \in Tasks : KeepsFlag(task[u], task'[u])
      BY <1>6, <1>7 DEF KeepsFlag
    <2>2. FlagsFit(task', busy, cur, robbed)
      BY <2>1, InvParts, FlagsFrame
    <2> QED
      BY <1>1, <2>2 DEF FlagsInv
  <1>12. CapsInv'
    <2>1. \A u \in Tasks : task'[u].h = task[u].h /\ (task[u].served => task'[u].served)
      BY <1>6, <1>7
    <2>2. task'[t].served
      BY <1>6, <1>7
    <2> HIDE DEF x
    <2>3. \A u \in caps' : u \in Tasks /\ (u = cap \/ (task'[u].h = Preview /\ task'[u].served))
      BY <1>1, <2>1, <2>2, InvParts DEF CapsFit, x
    <2> QED
      BY <1>1, <2>1, <2>3, InvParts DEF CapsFit, CapsInv
  <1>13. VersionsInv'
    <2>1. VersionsFit(shown, server', load, task)
      BY <1>3, VersionsGrow
    <2>2. ASSUME NEW p \in Tracked
          PROVE  RunReads(server', y, p)
      <3>1. p \in Parts /\ server'[x.at.key][p] \in Nat /\ x.got[p] \in Nat
        BY <1>2, <1>3, PathParts DEF TaskRecords
      <3>2. Handlers[x.h].now => p \notin step.parts
        BY <1>2 DEF StepFits
      <3>3. RunReads(server', x, p)
        BY <2>1 DEF VersionsFit
      <3> QED
        BY <1>2, <1>4, <1>6, <3>1, <3>2, <3>3 DEF RunReads
    <2> HIDE DEF x
    <2> QED
      BY <1>1, <1>7, <2>1, <2>2 DEF VersionsInv, VersionsFit
  <1>14. PageInv'
    BY <1>1, InvParts DEF PageInv
  <1> QED
    BY <1>9, <1>10, <1>11, <1>12, <1>13, <1>14 DEF ShellInv

\* An answer that is wanted is shown on the page it was asked for.
LEMMA CurrentHere ==
  ASSUME ShellInv, NEW t \in Tasks, Running(t), Current(t),
         Handlers[task[t].h].check \in {"route", "action", "request"},
         ~Handlers[task[t].h].now
  PROVE  route = task[t].at
  <1>1. Here(t) => route = task[t].at
    BY DEF Here
  <1>2. Here(t)
    BY DEF Current
  <1> QED
    BY <1>1, <1>2

\* A run shows parts S while the loads become L: of the route's key where it
\* matters, and loads that read before a change it shows are given up.
LEMMA ShowKeeps ==
  ASSUME ShellInv, NEW t \in Tasks, Running(t), NEW S, S \subseteq Parts,
         NEW L \in [Loads -> LoadRecords],
         \A m \in Loads : /\ L[m].stage = load[m].stage /\ L[m].to = load[m].to
                          /\ L[m].got = load[m].got /\ (L[m].live => load[m].live),
         S \cap Keyed # {} => route = task[t].at,
         "resource" \in S => "files" \in S,
         S \cap Tracked # {} /\ StepOf(t).do = "write" => \A m \in Loads : ~L[m].live
  PROVE  /\ Show(S, t) \in [Parts -> PartRecords]
         /\ \A p \in Tracked : /\ ShownFits(Show(S, t), server, p)
                               /\ \A m \in Loads : LoadFits(Show(S, t), server, L[m], p)
         /\ PageFits(route, Show(S, t), L)
         /\ \A m \in Loads : L[m].stage # "idle" => L[m].to \in Routes
  <1> DEFINE U == Show(S, t)
             k == task[t].at.key
             by == IF t \in Realtime THEN "event" ELSE "run"
             own(p) == IF StepOf(t).do = "write" THEN task[t].got[p] ELSE Own(p, k)
             new(p) == [of |-> k, ver |-> task[t].got[p], by |-> by, own |-> own(p)]
  <1>1. U = [p \in Parts |-> IF p \notin S THEN shown[p] ELSE new(p)]
    BY DEF Show
  <1>2. k \in Keys /\ task[t] \in TaskRecords /\ k # None
    BY StepFacts, InvParts, Names DEF Routes
  <1>3. \A p \in Parts : /\ task[t].got[p] \in Nat /\ own(p) \in Nat
                         /\ shown[p] \in PartRecords /\ shown[p].own \in Nat
    <2>1. \A p \in Parts : shown[p] \in PartRecords
      BY InvParts
    <2>2. task[t].got \in [Parts -> Nat]
      BY <1>2 DEF TaskRecords
    <2> QED
      BY <2>1, <2>2 DEF PartRecords, Own
  <1>4. by \in {"event", "run"}
    OBVIOUS
  <1> HIDE DEF U, by, own
  <1>5. \A p \in Parts : /\ new(p) \in PartRecords /\ new(p).of = k
                         /\ new(p).ver = task[t].got[p] /\ new(p).by = by
                         /\ new(p).own = own(p)
    <2> HIDE DEF k
    <2> QED BY <1>2, <1>3, <1>4 DEF PartRecords
  <1> HIDE DEF new
  <1>6. \A p \in Parts : IF p \in S THEN U[p] = new(p) ELSE U[p] = shown[p]
    BY <1>1
  <1>7. U \in [Parts -> PartRecords]
    BY <1>1, <1>3, <1>5
  <1>8. ASSUME NEW p \in Tracked
        PROVE  ShownFits(U, server, p) /\ \A m \in Loads : LoadFits(U, server, L[m], p)
    <2>1. ShownFits(shown, server, p) /\ \A m \in Loads : LoadFits(shown, server, load[m], p)
      BY InvParts DEF VersionsFit
    <2>2. p \in Parts
      BY PathParts
    <2>3. CASE p \notin S
      BY <1>6, <2>1, <2>2, <2>3 DEF ShownFits, LoadFits
    <2>4. CASE p \in S
      <3>1. U[p].of = k /\ U[p].ver = task[t].got[p] /\ U[p].by # "load" /\ U[p].own = own(p)
        BY <1>4, <1>5, <1>6, <2>2, <2>4
      <3>2. server[k][p] \in Nat /\ task[t].got[p] <= server[k][p]
        BY <1>2, <2>2, InvParts DEF VersionsFit, RunReads, Running
      <3>3. own(p) <= server[k][p]
        BY <1>2, <1>3, <2>1, <2>2, <3>2 DEF own, Own, ShownFits
      <3>4. ShownFits(U, server, p)
        BY <1>3, <2>2, <3>1, <3>2, <3>3 DEF ShownFits
      <3>5. ASSUME NEW m \in Loads
            PROVE  LoadFits(U, server, L[m], p)
        <4>1. L[m] \in LoadRecords
          OBVIOUS
        <4>2. L[m].got[p] \in Nat
          BY <2>2, <4>1 DEF LoadRecords
        <4>3. CASE StepOf(t).do = "write"
          BY <2>1, <2>4, <4>3 DEF LoadFits
        <4>4. CASE StepOf(t).do # "write"
          <5>1. own(p) = Own(p, k)
            BY <4>4 DEF own
          <5> QED
            BY <2>1, <3>1, <4>2, <5>1 DEF LoadFits, Own
        <4> QED
          BY <4>3, <4>4
      <3> QED
        BY <3>4, <3>5
    <2> QED
      BY <2>3, <2>4
  <1>9. PageFits(route, U, L)
    <2>1. ASSUME route.page \in PathKeyed, Clean(shown, route)
          PROVE  Clean(U, route)
      <3>1. \A p \in Keyed : U[p].of = route.key \/ U[p] = shown[p]
        BY <1>5, <1>6, PathParts
      <3>2. U["resource"] = shown["resource"] \/ U["files"].of = route.key
        BY <1>5, <1>6, PathParts
      <3> QED
        BY <2>1, <3>1, <3>2, InvParts, CleanShown
    <2>2. PageFits(route, shown, load)
      BY InvParts
    <2>3. \A m \in Loads : L[m].live => L[m].to = route
      BY <2>2 DEF PageFits
    <2>4. \A m \in Loads : load[m].stage = "cancel" /\ load[m].to = route =>
                             L[m].stage = "cancel" /\ L[m].to = route
      OBVIOUS
    <2> QED
      BY <2>1, <2>2, <2>3, <2>4 DEF PageFits
  <1>10. \A m \in Loads : L[m].stage # "idle" => L[m].to \in Routes
    BY InvParts DEF ShapesInv
  <1> QED
    BY <1>7, <1>8, <1>9, <1>10 DEF U

\* A run is followed by another, that needs its flags to be free.
HandsOver(t, h, T) ==
    /\ FlagsFree(h) /\ task' = [T EXCEPT ![t] = Started(t, h, task[t].at)]
    /\ busy' = Takes(busy, t, h) /\ cur' = Counts(t, h)
    /\ UNCHANGED <<event, robbed>>

LEMMA RunHandsOver ==
  ASSUME ShellInv, NEW t \in Tasks, Running(t), NEW T, Fewer(task, T),
         NEW h \in HandlerNames, h = Handlers[task[t].h].ends, HandsOver(t, h, T)
  PROVE  /\ Moves(t) /\ FlagsFit(task', busy', cur', robbed')
         /\ busy' \in [Flags -> Tasks \cup {None}]
         /\ event' \in [due : BOOLEAN, by : Realtime \cup {None}, again : BOOLEAN]
         /\ cur' \in [Groups -> Tasks \cup {None}]
         /\ cur'["preview"] = cur["preview"]
  <1> DEFINE y == Started(t, h, task[t].at)
  <1>1. /\ task[t].h \in HandlerNames /\ task[t].at \in Routes
        /\ draft \in [key : Keys \cup {None}, id : Tasks \cup {None}]
    BY StepFacts, InvParts
  <1>2. /\ h = "uploadSelectedWorkItemAttachment"
        /\ Handlers[task[t].h].takes = "none" /\ task[t].h # Streamed
    BY <1>1, EndsTable
  <1>3. Beginning(y, h, task[t].at)
    BY <1>1, StartedRecord
  <1> HIDE DEF y
  <1>4. /\ y \in TaskRecords /\ y.h = h /\ y.at = task[t].at /\ y.pc = 1
        /\ y.took = ~Handlers[h].late /\ y.holds = ~Handlers[h].late
        /\ \A p \in Tracked : y.got[p] = 0
    <2>1. \A p \in Tracked : NoGot[p] = 0
      BY BlankRecords, PathParts
    <2> QED
      BY <1>3, <2>1 DEF Beginning
  <1>5. /\ task' \in [Tasks -> TaskRecords] /\ task'[t] = y
        /\ \A u \in Tasks \ {t} : task'[u] = T[u]
    <2>1. task' = [T EXCEPT ![t] = y]
      BY Zenon DEF HandsOver, y
    <2>2. T \in [Tasks -> TaskRecords]
      BY Zenon DEF Fewer
    <2> QED
      BY <1>4, <2>1, <2>2
  <1>6. /\ Handlers[h].takes \in Flags /\ Handlers[h].group \in Groups
        /\ Len(Handlers[h].script) \in Nat \ {0}
        /\ h # Preview /\ Handlers[h].group # "preview"
    <2>1. HandlerFits(h, Handlers[h])
      BY HandlerTable
    <2>2. h # Preview
      BY <1>2 DEF Preview
    <2> QED
      BY <2>1, <2>2 DEF HandlerFits
  <1>7. Moves(t)
    <2>1. \A u \in Tasks \ {t} : Alike(task[u], task'[u])
      BY <1>5 DEF Fewer
    <2>2. \A u \in Tasks \ {t} : RunFits(task'[u]) /\ Follows(task[u], task'[u])
      BY <2>1, AlikeFollows, InvParts
    <2>3. RunFits(y) /\ Follows(task[t], y)
      <3>1. RunFits(y)
        BY <1>1, <1>4, <1>6 DEF RunFits
      <3>2. Follows(task[t], y)
        BY <1>1, <1>4 DEF Follows
      <3> QED
        BY <3>1, <3>2
    <2>4. t \notin Realtime
      BY <1>1, <1>2, InvParts
    <2> QED
      BY <1>4, <1>5, <1>6, <2>1, <2>2, <2>3, <2>4 DEF Moves
  <1>8. FlagsFit(task', Takes(busy, t, h), Counts(t, h), robbed)
    <2>1. /\ FlagsInv /\ busy \in [Flags -> Tasks \cup {None}]
          /\ cur \in [Groups -> Tasks \cup {None}] /\ Flagless(task[t])
      BY <1>2, InvParts DEF FlagsInv, Flagless
    <2>2. \A u \in Tasks \ {t} : KeepsFlag(task[u], task'[u])
      BY <1>5 DEF Fewer, Alike
    <2>3. /\ task'[t].h = h /\ task'[t].took = ~Handlers[h].late
          /\ task'[t].holds = ~Handlers[h].late
      BY <1>4, <1>5
    <2> QED
      BY <2>1, <2>2, <2>3, FlagsStart DEF HandsOver
  <1>9. busy' \in [Flags -> Tasks \cup {None}]
    <2>1. busy' = Takes(busy, t, h)
      BY Zenon DEF HandsOver
    <2> QED
      BY <1>6, <2>1, InvParts DEF Takes
  <1>10. cur' \in [Groups -> Tasks \cup {None}] /\ cur'["preview"] = cur["preview"]
    BY <1>6, InvParts DEF HandsOver, Counts, Groups
  <1> QED
    BY <1>7, <1>8, <1>9, <1>10, InvParts DEF HandsOver

LEMMA AnsweredKeeps ==
  ASSUME ShellInv, NEW t \in Tasks, Answered(t)
  PROVE  ShellInv'
  <1> DEFINE x == task[t]
             h == Handlers[x.h]
             T == IF Bumps(t) THEN RequestMoved(task)
                  ELSE IF x.h = "requestWorkItemResourceLibraryLink" /\ Current(t)
                  THEN LinkMoved(task) ELSE task
             L == IF Bumps(t) THEN Bumped(load) ELSE load
  <1>1. /\ Running(t) /\ shown' = Show(Shows(t), t) /\ load' = L
        /\ UNCHANGED <<route, server, left>>
    BY DEF Answered, MoveRequest
  <1>2. draft' \in [key : Keys \cup {None}, id : Tasks \cup {None}]
    <2>1. draft \in [key : Keys \cup {None}, id : Tasks \cup {None}]
      BY InvParts
    <2>2. x.at.key \in Keys /\ x.id \in Tasks \cup {None}
      BY <1>1, StepFacts, InvParts DEF Routes, TaskRecords
    <2>3. draft' \in {[key |-> x.at.key, id |-> x.id], NoDraft, draft}
      BY DEF Answered
    <2> HIDE DEF x
    <2> QED
      BY <2>1, <2>2, <2>3 DEF NoDraft
  <1>3. IF ~AtLast(t) /\ (Current(t) \/ h.persists)
        THEN GoesOn(t, x.pc + 1, T) /\ UNCHANGED cur
        ELSE IF h.ends \in HandlerNames /\ FlagsFree(h.ends)
        THEN /\ task' = [T EXCEPT ![t] = Started(t, h.ends, x.at)]
             /\ busy' = Takes(busy, t, h.ends) /\ cur' = Counts(t, h.ends)
             /\ UNCHANGED <<event, robbed>>
        ELSE Ends(t, FALSE, T) /\ UNCHANGED cur
    BY DEF Answered
  <1>4. IF x.h # Preview THEN UNCHANGED <<cap, caps>>
        ELSE IF Current(t) THEN cap' = t /\ UNCHANGED caps
        ELSE caps' = caps \ {t} /\ UNCHANGED cap
    BY DEF Answered, Preview
  <1>5. /\ StepFits(h, StepOf(t)) /\ x.h \in HandlerNames /\ x.at \in Routes
        /\ x.pc \in 1 .. Len(Script(t)) /\ Len(Script(t)) \in Nat \ {0}
    BY <1>1, StepFacts
  <1>6. Fewer(task, T)
    <2>1. task \in [Tasks -> TaskRecords]
      BY InvParts
    <2> QED
      BY <2>1, SameRuns, RequestMovedAlike, LinkMovedAlike DEF Fewer, KeepsFlag, Alike
  <1> HIDE DEF T
  <1>7. /\ Moves(t) /\ FlagsFit(task', busy', cur', robbed')
        /\ busy' \in [Flags -> Tasks \cup {None}]
        /\ event' \in [due : BOOLEAN, by : Realtime \cup {None}, again : BOOLEAN]
        /\ cur' \in [Groups -> Tasks \cup {None}]
        /\ cur'["preview"] = cur["preview"]
    <2>1. CASE ~AtLast(t) /\ (Current(t) \/ h.persists)
      <3>1. GoesOn(t, x.pc + 1, T) /\ UNCHANGED cur
        BY <1>3, <2>1
      <3>2. x.pc + 1 \in 2 .. Len(Script(t))
        BY <1>5, <2>1 DEF AtLast
      <3> QED
        BY <1>1, <1>6, <3>1, <3>2, RunGoesOn, InvParts
    <2>2. CASE /\ ~(~AtLast(t) /\ (Current(t) \/ h.persists))
               /\ h.ends \in HandlerNames /\ FlagsFree(h.ends)
      <3>1. /\ task' = [T EXCEPT ![t] = Started(t, h.ends, x.at)]
            /\ busy' = Takes(busy, t, h.ends) /\ cur' = Counts(t, h.ends)
            /\ UNCHANGED <<event, robbed>>
        BY <1>3, <2>2
      <3>2. HandsOver(t, h.ends, T)
        BY <2>2, <3>1 DEF HandsOver
      <3> QED
        BY <1>1, <1>6, <2>2, <3>2, RunHandsOver
    <2>3. CASE /\ ~(~AtLast(t) /\ (Current(t) \/ h.persists))
               /\ ~(h.ends \in HandlerNames /\ FlagsFree(h.ends))
      <3>1. Ends(t, FALSE, T) /\ UNCHANGED cur
        BY <1>3, <2>3
      <3> QED
        BY <1>1, <1>6, <3>1, RunEnds, InvParts
    <2> QED
      BY <2>1, <2>2, <2>3
  <1>8. CapsFit(task', cur', cap', caps') /\ caps' \subseteq caps
    <2>1. CASE x.h # Preview
      BY <1>4, <1>7, <2>1, CapsMove
    <2>2. CASE x.h = Preview
      <3>1. \A u \in Tasks \ {t} : task'[u].h = task[u].h /\ task'[u].served = task[u].served
        BY <1>7 DEF Moves, Alike
      <3>2. task'[t].h # Preview
        BY <1>7 DEF Moves
      <3>3. CapsFit(task, cur, cap, caps)
        BY InvParts
      <3>4. CASE Current(t)
        <4>1. cap' = t /\ caps' = caps
          BY <1>4, <2>2, <3>4
        <4>2. h.check = "action" /\ h.group = "preview"
          BY <1>5, <2>2, PreviewTable
        <4>3. cur["preview"] = t
          BY <3>4, <4>2 DEF Current
        <4>4. cap = None
          BY <2>2, <3>3, <4>3 DEF CapsFit
        <4> QED
          BY <1>7, <3>1, <3>2, <3>3, <4>1, <4>3, <4>4, Names DEF CapsFit
      <3>5. CASE ~Current(t)
        <4>1. cap' = cap /\ caps' = caps \ {t}
          BY <1>4, <2>2, <3>5
        <4> QED
          BY <1>7, <3>1, <3>2, <3>3, <4>1 DEF CapsFit
      <3> QED
        BY <3>4, <3>5
    <2> QED
      BY <2>1, <2>2
  <1>9. /\ L \in [Loads -> LoadRecords]
        /\ \A m \in Loads : /\ L[m].stage = load[m].stage /\ L[m].to = load[m].to
                            /\ L[m].got = load[m].got /\ (L[m].live => load[m].live)
                            /\ Bumps(t) => ~L[m].live
    <2>1. load \in [Loads -> LoadRecords]
      BY InvParts
    <2>2. Bumped(load) \in [Loads -> LoadRecords]
      BY <2>1, BumpedLoads
    <2>3. ASSUME NEW m \in Loads
          PROVE  LET y == Bumped(load)[m] IN
                 /\ y.live = FALSE /\ y.stage = load[m].stage /\ y.to = load[m].to
                 /\ y.got = load[m].got
      BY <2>1, BumpedLoads
    <2> QED
      BY <2>1, <2>2, <2>3
  <1> HIDE DEF L
  <1>10. Shows(t) \subseteq StepOf(t).shows /\ (Shows(t) # {} => Current(t))
    BY DEF Shows
  <1>11. Shows(t) \subseteq Parts
    BY <1>5, <1>10, PartNames DEF StepFits
  <1>12. Shows(t) \cap Keyed # {} => route = task[t].at
    <2>1. Shows(t) \cap Keyed # {} =>
            h.check \in {"route", "action", "request"} /\ ~h.now /\ Current(t)
      BY <1>5, <1>10 DEF StepFits
    <2> QED
      BY <1>1, <2>1, CurrentHere
  <1>13. "resource" \in Shows(t) => "files" \in Shows(t)
    BY <1>5 DEF StepFits, Shows
  <1>14. Shows(t) \cap Tracked # {} /\ StepOf(t).do = "write" => \A m \in Loads : ~L[m].live
    <2>1. Shows(t) \cap Tracked # {} /\ StepOf(t).do = "write" => Bumps(t)
      BY <1>5, <1>10 DEF StepFits, Bumps
    <2> QED
      BY <1>9, <2>1
  <1>15. /\ shown' \in [Parts -> PartRecords]
         /\ \A p \in Tracked : /\ ShownFits(shown', server, p)
                               /\ \A m \in Loads : LoadFits(shown', server, load'[m], p)
         /\ PageFits(route, shown', load')
         /\ \A m \in Loads : load'[m].stage # "idle" => load'[m].to \in Routes
    BY <1>1, <1>9, <1>11, <1>12, <1>13, <1>14, ShowKeeps
  <1>16. left' \in LeftRecords /\ left'.tasks = left.tasks /\ caps' \subseteq caps \cup {t}
    BY <1>1, <1>8, InvParts
  <1> QED
    BY <1>1, <1>2, <1>7, <1>8, <1>9, <1>15, <1>16, MoveFrame

LEMMA FailedKeeps ==
  ASSUME ShellInv, NEW t \in Tasks, Failed(t)
  PROVE  ShellInv'
  <1> DEFINE x == task[t]
             h == Handlers[x.h]
             step == StepOf(t)
             salvage == h.salvages /\ x.pc = 2 /\ Current(t)
             reread == /\ h.rereads /\ x.pc + 1 = Len(h.script)
                       /\ h.now \/ Current(t)
             T == IF salvage THEN RequestMoved(task) ELSE task
             L == IF salvage THEN Bumped(load) ELSE load
             S == IF salvage THEN {"item"} ELSE {}
             lax == step.do = "draft"
  <1>1. /\ Running(t) /\ Fault /\ (step.do = "host" => ~x.served) /\ load' = L
        /\ UNCHANGED <<route, server, cur, draft, cap, caps>>
    BY DEF Failed
  <1>2. IF reread THEN GoesOn(t, x.pc + 1, task) ELSE Ends(t, lax, T)
    BY DEF Failed
  <1>3. /\ x.h \in HandlerNames /\ x.at \in Routes /\ x.pc \in 1 .. Len(Script(t))
        /\ Len(Script(t)) \in Nat \ {0} /\ (x.h = Preview => step.do = "host")
        /\ Script(t) = h.script
    BY <1>1, StepFacts
  <1>4. shown' = Show(S, t)
    <2>1. CASE salvage
      BY <2>1 DEF Failed
    <2>2. CASE ~salvage
      <3>1. shown' = shown /\ shown \in [Parts -> PartRecords]
        BY <2>2, InvParts DEF Failed
      <3>2. Show({}, t) = [p \in Parts |-> shown[p]]
        BY DEF Show
      <3> QED
        BY <2>2, <3>1, <3>2
    <2> QED
      BY <2>1, <2>2
  <1>5. Fewer(task, T) /\ Fewer(task, task)
    <2>1. task \in [Tasks -> TaskRecords]
      BY InvParts
    <2> QED
      BY <2>1, SameRuns, RequestMovedAlike DEF Fewer, KeepsFlag, Alike
  <1>6. /\ Moves(t) /\ FlagsFit(task', busy', cur, robbed')
        /\ busy' \in [Flags -> Tasks \cup {None}]
        /\ event' \in [due : BOOLEAN, by : Realtime \cup {None}, again : BOOLEAN]
    <2>1. CASE reread
      <3>1. GoesOn(t, x.pc + 1, task) /\ x.pc + 1 \in 2 .. Len(Script(t))
        BY <1>2, <1>3, <2>1
      <3> QED
        BY <1>1, <1>5, <3>1, RunGoesOn
    <2>2. CASE ~reread
      <3>1. Ends(t, lax, T) /\ lax \in BOOLEAN
        BY <1>2, <2>2
      <3> HIDE DEF T, lax
      <3> QED
        BY <1>1, <1>5, <3>1, RunEnds
    <2> QED
      BY <2>1, <2>2
  <1>7. CapsFit(task', cur', cap', caps')
    BY <1>1, <1>3, <1>6, CapsMove
  <1>8. /\ L \in [Loads -> LoadRecords]
        /\ \A m \in Loads : /\ L[m].stage = load[m].stage /\ L[m].to = load[m].to
                            /\ L[m].got = load[m].got /\ (L[m].live => load[m].live)
                            /\ salvage => ~L[m].live
    <2>1. load \in [Loads -> LoadRecords]
      BY InvParts
    <2>2. Bumped(load) \in [Loads -> LoadRecords]
      BY <2>1, BumpedLoads
    <2>3. ASSUME NEW m \in Loads
          PROVE  LET y == Bumped(load)[m] IN
                 /\ y.live = FALSE /\ y.stage = load[m].stage /\ y.to = load[m].to
                 /\ y.got = load[m].got
      BY <2>1, BumpedLoads
    <2> HIDE DEF salvage
    <2> QED
      BY <2>1, <2>2, <2>3
  <1>9. salvage => route = x.at
    <2>1. salvage => h.check = "action" /\ ~h.now /\ Current(t)
      BY <1>3, HandlerTable DEF HandlerFits
    <2> QED
      BY <1>1, <2>1, CurrentHere
  <1>10. S \subseteq Parts /\ "resource" \notin S /\ (S # {} => salvage)
    BY PathParts DEF Keyed
  <1> HIDE DEF S, L, salvage
  <1>11. /\ shown' \in [Parts -> PartRecords]
         /\ \A p \in Tracked : /\ ShownFits(shown', server, p)
                               /\ \A m \in Loads : LoadFits(shown', server, load'[m], p)
         /\ PageFits(route, shown', load')
         /\ \A m \in Loads : load'[m].stage # "idle" => load'[m].to \in Routes
    BY <1>1, <1>4, <1>8, <1>9, <1>10, ShowKeeps
  <1>12. left' \in LeftRecords /\ left'.tasks = left.tasks
    BY <1>1, InvParts, LeftFaults
  <1> QED
    BY <1>1, <1>6, <1>7, <1>8, <1>11, <1>12, InvParts, MoveFrame

LEMMA RefreshBeginsKeeps ==
  ASSUME ShellInv, NEW t \in Tasks, RefreshBegins(t)
  PROVE  ShellInv'
  <1> DEFINE y == [task[t] EXCEPT !.served = TRUE]
             T == [task EXCEPT ![t] = y]
  <1>1. /\ Running(t) /\ StepOf(t).do = "refresh"
        /\ StartLoad(route, "refresh", t, T, busy)
        /\ UNCHANGED <<route, server, draft, event, robbed>>
    BY DEF RefreshBegins
  <1>2. /\ task[t] \in TaskRecords /\ task \in [Tasks -> TaskRecords]
        /\ RunFits(task[t]) /\ task[t].h # Preview
    BY <1>1, StepFacts, InvParts
  <1>3. /\ y \in TaskRecords /\ y.h = task[t].h /\ y.at = task[t].at
        /\ y.pc = task[t].pc /\ y.took = task[t].took /\ y.holds = task[t].holds
        /\ y.got = task[t].got
    BY <1>2 DEF TaskRecords
  <1> HIDE DEF y
  <1>4. /\ T \in [Tasks -> TaskRecords] /\ T[t] = y
        /\ \A u \in Tasks \ {t} : T[u] = task[u]
    BY <1>2, <1>3
  <1> HIDE DEF T
  <1>5. ReadyToLoad(T, busy, robbed)
    <2>1. \A u \in Tasks : /\ KeepsFlag(task[u], T[u])
                           /\ T[u].h = task[u].h
                           /\ T[u].at = task[u].at /\ T[u].pc = task[u].pc
                           /\ T[u].got = task[u].got
      BY <1>3, <1>4 DEF KeepsFlag
    <2>2. FlagsFit(T, busy, cur, robbed)
      BY <2>1, InvParts, FlagsFrame
    <2>3. CapsFit(T, cur, cap, caps)
      BY <1>2, <1>4, <2>1, InvParts DEF CapsFit
    <2>4. VersionsFit(shown, server, load, T)
      <3>1. \A p \in Tracked, u \in Tasks : RunReads(server, T[u], p)
        BY <2>1, InvParts DEF VersionsFit, RunReads
      <3> QED
        BY <3>1, InvParts DEF VersionsFit
    <2>5. \A u \in Tasks : RunFits(T[u])
      BY <2>1, InvParts DEF RunFits
    <2>6. \A u \in Realtime : T[u].h \in HandlerNames => T[u].h = Streamed
      BY <2>1, InvParts, Names
    <2> QED
      BY <1>4, <2>1, <2>2, <2>3, <2>4, <2>5, <2>6, InvParts DEF ReadyToLoad
  <1>6. Allowed(route, "refresh") /\ ReadyToLoad(T, busy, robbed')
    BY <1>1, <1>5, InvParts DEF Allowed
  <1> QED
    BY <1>1, <1>6, InvParts, LoadKeeps

\* The last answer of a run opens another page.
LEMMA DepartsKeeps ==
  ASSUME ShellInv, NEW t \in Tasks, Departs(t)
  PROVE  ShellInv'
  <1> DEFINE x == task[t]
             h == Handlers[x.h]
             target == IF h.ends # "project" THEN h.ends
                       ELSE CASE route.page = "list" -> "list"
                              [] route.page \in {"library", "resource"} -> "library"
                              [] route.page \in {"project", "cycle"} -> "project"
                              [] OTHER -> None
             T == [task EXCEPT ![t] = DoneTask]
             B == BusyAfter(t, FALSE)
  <1>1. /\ Running(t) /\ h.ends \in Pages /\ robbed' = RobbedAfter(t, FALSE)
        /\ UNCHANGED <<server, draft>>
    BY DEF Departs
  <1>2. \/ /\ target # None
           /\ \E k \in IF h.ends = "library" THEN {x.at.key} ELSE Keys :
                 GoTo([page |-> target, key |-> k], T, B)
        \/ StartLoad(route, "refresh", None, T, B) /\ UNCHANGED <<route, event>>
        \/ /\ task' = T /\ busy' = B
           /\ UNCHANGED <<route, event, load, spin, shown, cur, cap, caps, left>>
    BY DEF Departs
  <1>3. x.h \in HandlerNames /\ x.at \in Routes /\ x.h # None
    BY <1>1, StepFacts, Names
  <1>4. x.h # Preview
    <2>1. x.h = Preview => h.ends = None
      BY <1>3, PreviewTable
    <2> QED
      BY <1>1, <2>1, Names
  <1>5. target = None \/ target \in Pages
    BY <1>1, PageNames
  <1>6. /\ T \in [Tasks -> TaskRecords] /\ T[t] = DoneTask
        /\ \A u \in Tasks \ {t} : T[u] = task[u]
    BY InvParts, BlankRecords
  <1>7. DoneTask.h \notin HandlerNames /\ DoneTask.h # Preview
    BY BlankRecords, Names
  <1>8. FlagsFit(T, B, cur, robbed') /\ B \in [Flags -> Tasks \cup {None}]
    <2>1. FlagsInv /\ busy \in [Flags -> Tasks \cup {None}]
      BY InvParts DEF FlagsInv
    <2>2. \A u \in Tasks \ {t} : KeepsFlag(task[u], T[u])
      BY <1>6 DEF KeepsFlag
    <2>3. Flagless(T[t])
      BY <1>6, <1>7 DEF Flagless
    <2> HIDE DEF T
    <2>4. FlagsFit(T, B, cur, RobbedAfter(t, FALSE))
      BY <1>1, <2>1, <2>2, <2>3, FlagsEnd
    <2> QED
      BY <1>1, <2>1, <2>4 DEF BusyAfter
  <1> HIDE DEF T, B, target
  <1>9. CapsFit(T, cur, cap, caps)
    BY <1>4, <1>6, <1>7, InvParts DEF CapsFit
  <1>10. \A u \in Tasks : RunFits(T[u])
    BY <1>6, <1>7, InvParts DEF RunFits
  <1>11. CASE /\ task' = T /\ busy' = B
              /\ UNCHANGED <<route, event, load, spin, shown, cur, cap, caps, left>>
    <2>1. Moves(t)
      <3>1. \A u \in Tasks \ {t} : Alike(task[u], T[u])
        BY <1>6 DEF Alike
      <3>2. \A u \in Tasks : Follows(task[u], T[u])
        BY <1>6, <1>7 DEF Follows
      <3> QED
        BY <1>6, <1>7, <1>10, <1>11, <3>1, <3>2 DEF Moves
    <2>2. FlagsFit(task', busy', cur', robbed') /\ CapsFit(task', cur', cap', caps')
      BY <1>8, <1>9, <1>11
    <2> QED
      BY <1>1, <1>8, <1>11, <2>1, <2>2, InvParts, FlagFrame
  <1>12. ReadyToLoad(T, B, robbed')
    <2>1. VersionsFit(shown, server, load, T)
      <3>1. \A p \in Tracked, u \in Tasks : RunReads(server, T[u], p)
        BY <1>6, <1>7, InvParts DEF VersionsFit, RunReads
      <3> QED
        BY <3>1, InvParts DEF VersionsFit
    <2>2. \A u \in Realtime : T[u].h \in HandlerNames => T[u].h = Streamed
      BY <1>6, <1>7, InvParts, Names
    <2>3. \A u \in Tasks : task[u].h = None => T[u].h = None
      BY <1>3, <1>6
    <2> QED
      BY <1>6, <1>8, <1>9, <1>10, <2>1, <2>2, <2>3 DEF ReadyToLoad
  <1>13. CASE StartLoad(route, "refresh", None, T, B) /\ UNCHANGED <<route, event>>
    <2>1. Allowed(route, "refresh")
      BY InvParts DEF Allowed
    <2> QED
      BY <1>1, <1>12, <1>13, <2>1, InvParts, LoadKeeps
  <1>14. CASE /\ target # None
              /\ \E k \in IF h.ends = "library" THEN {x.at.key} ELSE Keys :
                    GoTo([page |-> target, key |-> k], T, B)
    <2>1. PICK k \in Keys : GoTo([page |-> target, key |-> k], T, B)
      BY <1>3, <1>14 DEF Routes
    <2>2. [page |-> target, key |-> k] \in Routes
      BY <1>5, <1>14 DEF Routes
    <2> QED
      BY <1>1, <1>12, <2>1, <2>2, NewAddress
  <1> QED
    BY <1>2, <1>11, <1>13, <1>14

-----------------------------------------------------------------------------
\* The event stream, other users and the preview.

LEMMA OthersWriteKeeps == ShellInv /\ OthersWrite => ShellInv'
  <1> SUFFICES ASSUME ShellInv, OthersWrite
               PROVE  ShellInv'
    OBVIOUS
  <1>1. PICK p \in Range(PartsOf[route.page]) :
          /\ server' = [server EXCEPT ![route.key] =
                          [@ EXCEPT ![p] = server[route.key][p] + 1]]
          /\ event' = [event EXCEPT !.due = @ \/ (left.events > 0 /\ route.page = "item")]
    BY DEF OthersWrite
  <1>2. /\ left.others > 0 /\ left' = [left EXCEPT !.others = @ - 1]
        /\ UNCHANGED <<route, shown, load, task, busy, cur, draft, cap, caps, robbed>>
    BY DEF OthersWrite
  <1>3. route.key \in Keys /\ route.page \in Pages
    BY InvParts DEF Routes
  <1>4. p \in Parts
    BY <1>1, <1>3 DEF Parts
  <1>5. /\ server' \in [Keys -> [Parts -> Nat]]
        /\ \A k \in Keys, q \in Tracked : server[k][q] <= server'[k][q]
    <2>1. server \in [Keys -> [Parts -> Nat]] /\ Tracked \subseteq Parts
      BY InvParts, PathParts
    <2> DEFINE v == [server[route.key] EXCEPT ![p] = server[route.key][p] + 1]
    <2>2. \A k \in Keys, q \in Parts : server[k][q] \in Nat
      BY <2>1
    <2>3. v \in [Parts -> Nat] /\ \A q \in Parts : server[route.key][q] <= v[q]
      BY <1>3, <1>4, <2>1, <2>2
    <2> HIDE DEF v
    <2>4. server' = [server EXCEPT ![route.key] = v]
      BY <1>1 DEF v
    <2>5. \A k \in Keys : server'[k] = IF k = route.key THEN v ELSE server[k]
      BY <2>1, <2>4
    <2>6. server' \in [Keys -> [Parts -> Nat]]
      BY <2>1, <2>3, <2>4
    <2>7. ASSUME NEW k \in Keys, NEW q \in Tracked
          PROVE  server[k][q] <= server'[k][q]
      <3>1. server[k][q] \in Nat
        BY <2>1, <2>2
      <3> QED
        BY <2>1, <2>3, <2>5, <3>1
    <2> QED
      BY <2>6, <2>7
  <1>6. VersionsInv'
    <2>1. VersionsFit(shown, server', load, task)
      BY <1>5, VersionsGrow
    <2> QED
      BY <1>2, <2>1 DEF VersionsInv
  <1>7. event' \in [due : BOOLEAN, by : Realtime \cup {None}, again : BOOLEAN]
    <2>1. event \in [due : BOOLEAN, by : Realtime \cup {None}, again : BOOLEAN]
      BY InvParts
    <2>2. PICK b \in BOOLEAN : b = (event.due \/ (left.events > 0 /\ route.page = "item"))
      OBVIOUS
    <2>3. event' = [event EXCEPT !.due = b]
      BY <1>1, <2>2
    <2> QED
      BY <2>1, <2>3
  <1>8. ShapesInv'
    BY <1>2, <1>5, <1>7, InvParts DEF ShapesInv
  <1>9. RunsInv'
    <2>1. left' \in LeftRecords /\ left'.tasks = left.tasks
      BY <1>2, InvParts, LeftSpent
    <2> QED
      BY <1>2, <2>1, InvParts, Names DEF RunsInv, Running
  <1> QED
    BY <1>2, <1>6, <1>8, <1>9, InvParts DEF ShellInv, FlagsInv, CapsInv, PageInv

LEMMA EventArrivesKeeps == ShellInv /\ EventArrives => ShellInv'
  <1> SUFFICES ASSUME ShellInv, EventArrives
               PROVE  ShellInv'
    OBVIOUS
  <1>1. /\ left.events > 0 /\ left' = [left EXCEPT !.events = @ - 1]
        /\ UNCHANGED <<route, server, shown, load, busy, cur, draft, cap, caps, robbed>>
    BY DEF EventArrives
  <1>2. left' \in LeftRecords /\ left'.tasks = left.tasks
    BY <1>1, InvParts, LeftSpent
  <1>3. event \in [due : BOOLEAN, by : Realtime \cup {None}, again : BOOLEAN]
    BY InvParts
  <1>4. CASE /\ event' = [event EXCEPT !.due = FALSE, !.again = TRUE]
             /\ UNCHANGED task
    <2>1. ShapesInv'
      BY <1>1, <1>3, <1>4, InvParts DEF ShapesInv
    <2>2. RunsInv'
      BY <1>1, <1>2, <1>4, InvParts, Names DEF RunsInv, Running
    <2> QED
      BY <1>1, <1>4, <2>1, <2>2, InvParts DEF ShellInv, FlagsInv, CapsInv, VersionsInv, PageInv
  <1>5. ASSUME NEW t \in Realtime, task[t] = NoTask,
               task' = [task EXCEPT ![t] = Started(t, Streamed, route)],
               event' = [event EXCEPT !.due = FALSE, !.by = t]
        PROVE  ShellInv'
    <2> DEFINE y == Started(t, Streamed, route)
    <2>1. t \in Tasks /\ Streamed \in HandlerNames /\ Streamed # Preview
      BY Names DEF Streamed, Preview
    <2>2. Beginning(y, Streamed, route)
      <3>1. draft \in [key : Keys \cup {None}, id : Tasks \cup {None}] /\ route \in Routes
        BY InvParts
      <3> QED
        BY <2>1, <3>1, StartedRecord
    <2> HIDE DEF y
    <2>3. /\ y \in TaskRecords /\ y.h = Streamed /\ y.at = route /\ y.pc = 1
          /\ \A p \in Tracked : y.got[p] = 0
      BY <2>2, BlankRecords, PathParts DEF Beginning
    <2>4. /\ task' \in [Tasks -> TaskRecords] /\ task'[t] = y
          /\ \A u \in Tasks \ {t} : task'[u] = task[u]
      BY <1>5, <2>1, <2>3, InvParts DEF y
    <2>5. task[t].h = None /\ None \notin HandlerNames /\ task[t].h # Preview
      BY <1>5, BlankRecords, Names
    <2>6. Handlers[Streamed].takes = "none" /\ Len(Handlers[Streamed].script) \in Nat \ {0}
      BY <2>1, HandlerTable, PreviewTable DEF HandlerFits
    <2>7. \A u \in Tasks : RunFits(task'[u]) /\ Follows(task[u], task'[u])
      <3>1. RunFits(y) /\ Follows(task[t], y)
        BY <2>3, <2>6, InvParts DEF RunFits, Follows
      <3>2. \A u \in Tasks : Follows(task[u], task[u])
        BY DEF Follows
      <3> QED
        BY <2>4, <3>1, <3>2, InvParts
    <2>8. ShapesInv'
      <3>1. event' \in [due : BOOLEAN, by : Realtime \cup {None}, again : BOOLEAN]
        BY <1>3, <1>5
      <3> QED
        BY <1>1, <2>4, <2>7, <3>1, InvParts DEF ShapesInv
    <2>9. RunsInv'
      <3>1. \A u \in Tasks : task[u].h = None => task'[u].h = None \/ u \in Realtime
        BY <2>4
      <3>2. \A u \in Realtime : task'[u].h \in HandlerNames => task'[u].h = Streamed
        BY <2>3, <2>4, InvParts, Names
      <3>3. \A u \in caps' : u \in caps \/ task[u].h # None
        BY <1>1
      <3> QED
        BY <1>2, <3>1, <3>2, <3>3, InvParts, RunsFrame
    <2>10. FlagsInv'
      <3>1. \A u \in Tasks : \/ KeepsFlag(task[u], task'[u])
                             \/ Flagless(task[u]) /\ Flagless(task'[u])
        BY <2>3, <2>4, <2>5, <2>6 DEF Flagless, KeepsFlag
      <3>2. FlagsFit(task', busy, cur, robbed)
        BY <3>1, InvParts, FlagsFrame
      <3> QED
        BY <1>1, <3>2 DEF FlagsInv
    <2>11. CapsInv'
      BY <1>1, <2>1, <2>3, <2>4, <2>5, InvParts DEF CapsInv, CapsFit
    <2>12. VersionsInv'
      <3>1. ASSUME NEW p \in Tracked, NEW u \in Tasks
            PROVE  RunReads(server, task'[u], p)
        <4>1. RunReads(server, task[u], p) /\ server \in [Keys -> [Parts -> Nat]]
          BY InvParts DEF VersionsFit
        <4>2. RunFits(task'[u]) /\ Follows(task[u], task'[u])
          BY <2>7
        <4> QED
          BY <4>1, <4>2, ReadsFollow
      <3> QED
        BY <1>1, <3>1, InvParts DEF VersionsInv, VersionsFit
    <2> QED
      BY <1>1, <2>8, <2>9, <2>10, <2>11, <2>12, InvParts DEF ShellInv, PageInv
  <1> QED
    BY <1>4, <1>5 DEF EventArrives, Streamed

\* The counter of previews decides about no flag.
LEMMA FlagsPreview ==
  ASSUME NEW T, NEW B \in [Flags -> Tasks \cup {None}],
         NEW C \in [Groups -> Tasks \cup {None}], NEW D, NEW R, FlagsFit(T, B, C, R),
         \A g \in Groups \ {"preview"} : D[g] = C[g]
  PROVE  FlagsFit(T, B, D, R)
  <1>1. ASSUME NEW f \in Flags \ {"none", "unlock"}
        PROVE  Owned(T, B, D, f)
    <2>1. Owned(T, B, C, f)
      BY DEF FlagsFit
    <2>2. ASSUME NEW k \in HandlerNames, Handlers[k].frees = "live"
          PROVE  Handlers[k].group \in Groups \ {"preview"}
      BY <2>2, FlagTable
    <2> QED
      BY <2>1, <2>2 DEF Owned
  <1> QED
    BY <1>1 DEF FlagsFit, UnlockOwned, Groups

LEMMA ReleaseKeeps == ShellInv /\ releaseProjectAttachmentPreview => ShellInv'
  <1> SUFFICES ASSUME ShellInv, releaseProjectAttachmentPreview
               PROVE  ShellInv'
    OBVIOUS
  <1>1. /\ caps' = caps \ {cap} /\ cap' = None
        /\ cur' = [cur EXCEPT !["preview"] = None]
        /\ UNCHANGED <<route, server, shown, load, task, busy, draft, event, robbed, left>>
    BY DEF releaseProjectAttachmentPreview
  <1>2. /\ cur' \in [Groups -> Tasks \cup {None}]
        /\ \A g \in Groups \ {"preview"} : cur'[g] = cur[g]
    BY <1>1, InvParts DEF Groups
  <1>3. FlagsFit(task, busy, cur', robbed)
    BY <1>2, InvParts, FlagsPreview
  <1>4. CapsFit(task, cur', None, caps \ {cap})
    BY InvParts, CapsClosed
  <1>5. ShapesInv'
    BY <1>1, <1>2, InvParts DEF ShapesInv
  <1>6. RunsInv'
    BY <1>1, InvParts, Names DEF RunsInv, Running
  <1> QED
    BY <1>1, <1>3, <1>4, <1>5, <1>6, InvParts DEF ShellInv, FlagsInv, CapsInv, VersionsInv, PageInv

-----------------------------------------------------------------------------
\* A run begins.

\* The first of the runs to come.
LEMMA NextRun ==
  ASSUME ShellInv, left.tasks > 0, NEW t, t = TaskSeq[Len(TaskSeq) - left.tasks + 1]
  PROVE  /\ t \in Tasks \ Realtime /\ task[t].h = None /\ t \notin caps
         /\ [left EXCEPT !.tasks = @ - 1] \in LeftRecords
         /\ [left EXCEPT !.tasks = @ - 1].tasks = left.tasks - 1
         /\ \A i \in 1 .. Len(TaskSeq) :
               i > Len(TaskSeq) - (left.tasks - 1) =>
                  /\ TaskSeq[i] # t /\ TaskSeq[i] \in Tasks
                  /\ task[TaskSeq[i]].h = None /\ TaskSeq[i] \notin caps
  <1> DEFINE n == Len(TaskSeq) - left.tasks + 1
  <1>1. left \in LeftRecords /\ RunsInv
    BY InvParts
  <1>2. Len(TaskSeq) \in Nat /\ DOMAIN TaskSeq = 1 .. Len(TaskSeq)
    BY ShellAssumption
  <1>3. left.tasks \in 1 .. Len(TaskSeq)
    BY <1>1, <1>2 DEF LeftRecords
  <1>4. n \in 1 .. Len(TaskSeq) /\ n > Len(TaskSeq) - left.tasks
    BY <1>2, <1>3
  <1>5. t \in Tasks \ Realtime /\ task[t].h = None /\ t \notin caps
    BY <1>1, <1>4, RunNames DEF RunsInv
  <1>6. /\ [left EXCEPT !.tasks = @ - 1] \in LeftRecords
        /\ [left EXCEPT !.tasks = @ - 1].tasks = left.tasks - 1
    BY <1>1, <1>2, <1>3 DEF LeftRecords
  <1>7. ASSUME NEW i \in 1 .. Len(TaskSeq), i > Len(TaskSeq) - (left.tasks - 1)
        PROVE  /\ TaskSeq[i] # t /\ TaskSeq[i] \in Tasks
               /\ task[TaskSeq[i]].h = None /\ TaskSeq[i] \notin caps
    <2>1. i # n /\ i > Len(TaskSeq) - left.tasks
      BY <1>2, <1>3, <1>7
    <2>2. TaskSeq[i] # TaskSeq[n]
      BY <1>2, <1>4, <2>1, ShellAssumption DEF IsInjective
    <2> QED
      BY <1>1, <2>1, <2>2, RunNames DEF RunsInv
  <1> QED
    BY <1>5, <1>6, <1>7

LEMMA BeginKeeps ==
  ASSUME ShellInv, NEW h, Begin(h)
  PROVE  ShellInv'
  <1> DEFINE t == TaskSeq[Len(TaskSeq) - left.tasks + 1]
             x == Started(t, h, route)
             switch == h = "handleSetCurrentProject"
             saved == [x EXCEPT !.pc = 2,
                                !.got = [@ EXCEPT !["item"] = shown["item"].ver]]
             L == IF switch THEN Bumped(load) ELSE load
             r == Handlers[h]
  <1>1. /\ left.tasks > 0 /\ left' = [left EXCEPT !.tasks = @ - 1]
        /\ h \in left.handlers /\ route.page \in r.on /\ Rendered /\ FlagsFree(h)
        /\ UNCHANGED <<route, server, shown, draft, event, robbed>>
        /\ IF h = Preview THEN caps' = caps \ {cap} /\ cap' = None
           ELSE UNCHANGED <<cap, caps>>
    BY DEF Begin, Preview
  <1>2. PICK y \in {x} \cup (IF h = "submitWorkItemEdit" /\ retry = route.key
                             THEN {saved} ELSE {}) :
          LET new == [task EXCEPT ![t] = y] IN
          /\ task' = IF switch THEN RequestMoved(new)
                     ELSE IF h = "requestWorkItemResourceLibraryLink"
                     THEN LinkMoved(new) ELSE new
          /\ load' = L /\ busy' = Takes(busy, t, h) /\ cur' = Counts(t, h)
    BY DEF Begin
  <1>3. h \in HandlerNames /\ route \in Routes /\ route.key \in Keys
    BY <1>1, InvParts DEF LeftRecords, Routes
  <1>4. /\ t \in Tasks \ Realtime /\ task[t].h = None /\ t \notin caps
        /\ left' \in LeftRecords /\ left'.tasks = left.tasks - 1
        /\ \A i \in 1 .. Len(TaskSeq) :
              i > Len(TaskSeq) - left'.tasks =>
                 /\ TaskSeq[i] # t /\ TaskSeq[i] \in Tasks
                 /\ task[TaskSeq[i]].h = None /\ TaskSeq[i] \notin caps
    <2> HIDE DEF x, L, r, switch, saved
    <2> QED BY <1>1, NextRun
  <1> HIDE DEF t
  <1>5. Beginning(x, h, route)
    <2>1. draft \in [key : Keys \cup {None}, id : Tasks \cup {None}]
      BY InvParts
    <2> QED
      BY <1>3, <1>4, <2>1, StartedRecord
  <1> HIDE DEF x
  <1>6. /\ x \in TaskRecords /\ x.h = h /\ x.at = route /\ x.pc = 1
        /\ x.took = ~r.late /\ x.holds = ~r.late /\ x.got = NoGot
    BY <1>5 DEF Beginning
  <1>7. /\ r.takes \in Flags /\ r.group \in Groups /\ Len(r.script) \in Nat \ {0}
        /\ r.group = "preview" => h = Preview
        /\ h = "submitWorkItemEdit" => r.on = {"item"} /\ Len(r.script) = 3 /\ ~r.now
    BY <1>3, HandlerTable DEF HandlerFits
  <1> HIDE DEF r
  <1>8. /\ y \in TaskRecords /\ y.h = h /\ y.at = route /\ y.pc \in 1 .. Len(r.script)
        /\ y.took = ~r.late /\ y.holds = ~r.late
        /\ \A p \in Tracked : y.got[p] <= server[route.key][p] /\ (r.now => y.got[p] = 0)
    <2>1. \A p \in Tracked : p \in Parts /\ NoGot[p] = 0 /\ server[route.key][p] \in Nat
      BY <1>3, InvParts, BlankRecords, PathParts
    <2>2. CASE y = x
      BY <1>6, <1>7, <2>1, <2>2
    <2>3. CASE y = saved /\ h = "submitWorkItemEdit"
      <3> DEFINE got == [NoGot EXCEPT !["item"] = shown["item"].ver]
      <3>1. "item" \in Tracked /\ "item" \in Parts
        BY PathParts DEF Tracked
      <3>2. shown["item"].of = route.key
        <4>1. route.page = "item"
          BY <1>1, <1>7, <2>3 DEF r
        <4>2. PartsOf[route.page][1] = "item"
          BY <4>1 DEF PartsOf
        <4> QED
          BY <1>1, <4>1, <4>2 DEF Rendered
      <3>3. shown["item"].ver \in Nat /\ shown["item"].ver <= server[route.key]["item"]
        <4>1. shown["item"] \in PartRecords /\ ShownFits(shown, server, "item")
          BY <3>1, InvParts DEF VersionsFit
        <4> QED
          BY <1>3, <3>2, <4>1, Names DEF PartRecords, ShownFits
      <3>4. /\ got \in [Parts -> Nat]
            /\ \A p \in Tracked : got[p] <= server[route.key][p]
        BY <2>1, <3>1, <3>3, BlankRecords
      <3>5. y = [x EXCEPT !.pc = 2, !.got = got]
        BY <1>6, <2>3
      <3> HIDE DEF got
      <3>6. /\ y \in TaskRecords /\ y.h = x.h /\ y.at = x.at /\ y.pc = 2
            /\ y.took = x.took /\ y.holds = x.holds /\ y.got = got
        BY <1>6, <3>4, <3>5 DEF TaskRecords
      <3>7. y.took = ~r.late /\ y.holds = ~r.late /\ y.h = h /\ y.at = route
        BY <1>6, <3>6
      <3>8. y.pc \in 1 .. Len(r.script) /\ ~r.now
        <4>1. Len(r.script) = 3 /\ ~r.now
          BY <1>7, <2>3
        <4> QED
          BY <3>6, <4>1
      <3>9. \A p \in Tracked : y.got[p] <= server[route.key][p] /\ (r.now => y.got[p] = 0)
        BY <3>4, <3>6, <3>8
      <3> QED
        BY <3>6, <3>7, <3>8, <3>9
    <2> QED
      BY <1>2, <2>2, <2>3
  <1> HIDE DEF saved
  <1> DEFINE new == [task EXCEPT ![t] = y]
  <1>9. /\ new \in [Tasks -> TaskRecords] /\ new[t] = y
        /\ \A u \in Tasks \ {t} : new[u] = task[u]
    BY <1>4, <1>8, InvParts
  <1>10. /\ task' = IF switch THEN RequestMoved(new)
                    ELSE IF h = "requestWorkItemResourceLibraryLink"
                    THEN LinkMoved(new) ELSE new
         /\ load' = L /\ busy' = Takes(busy, t, h) /\ cur' = Counts(t, h)
    BY <1>2
  <1> HIDE DEF new
  <1>11. /\ task' \in [Tasks -> TaskRecords]
         /\ \A u \in Tasks : Alike(new[u], task'[u]) /\ task'[u].holds = new[u].holds
    BY <1>9, <1>10, RequestMovedAlike, LinkMovedAlike DEF Alike
  <1>12. \A u \in Tasks \ {t} : Alike(task[u], task'[u]) /\ task'[u].holds = task[u].holds
    BY <1>9, <1>11
  <1>13. Alike(y, task'[t]) /\ task'[t].holds = y.holds
    BY <1>4, <1>9, <1>11
  <1>14. /\ L \in [Loads -> LoadRecords]
         /\ \A m \in Loads : /\ L[m].stage = load[m].stage /\ L[m].to = load[m].to
                             /\ L[m].got = load[m].got /\ (L[m].live => load[m].live)
    <2>1. load \in [Loads -> LoadRecords]
      BY InvParts
    <2>2. Bumped(load) \in [Loads -> LoadRecords]
      BY <2>1, BumpedLoads
    <2>3. ASSUME NEW m \in Loads
          PROVE  LET z == Bumped(load)[m] IN
                 /\ z.live = FALSE /\ z.stage = load[m].stage /\ z.to = load[m].to
                 /\ z.got = load[m].got
      BY <2>1, BumpedLoads
    <2> HIDE DEF switch
    <2> QED
      BY <2>1, <2>2, <2>3
  <1> HIDE DEF L, switch
  <1>15. ShapesInv'
    <2>1. \A u \in Tasks : RunFits(task'[u])
      <3>1. RunFits(task'[t])
        BY <1>3, <1>8, <1>13 DEF RunFits, Alike, r
      <3>2. \A u \in Tasks \ {t} : RunFits(task'[u])
        BY <1>12, AlikeFollows, InvParts
      <3> QED
        BY <3>1, <3>2
    <2>2. /\ busy' \in [Flags -> Tasks \cup {None}]
          /\ cur' \in [Groups -> Tasks \cup {None}]
      BY <1>4, <1>7, <1>10, InvParts DEF Takes, Counts, r
    <2>3. \A m \in Loads : load'[m].stage # "idle" => load'[m].to \in Routes
      BY <1>10, <1>14, InvParts DEF ShapesInv
    <2> QED
      BY <1>1, <1>10, <1>11, <1>14, <2>1, <2>2, <2>3, InvParts DEF ShapesInv
  <1>16. RunsInv'
    <2>1. caps' \subseteq caps
      BY <1>1
    <2>2. \A u \in Tasks \ {t} : task'[u].h = task[u].h
      BY <1>12 DEF Alike
    <2>3. \A u \in Realtime : task'[u].h \in HandlerNames => task'[u].h = Streamed
      BY <1>4, <2>2, InvParts, Names
    <2> QED
      BY <1>4, <2>1, <2>2, <2>3 DEF RunsInv, Running
  <1>17. FlagsInv'
    <2>1. /\ FlagsInv /\ busy \in [Flags -> Tasks \cup {None}]
          /\ cur \in [Groups -> Tasks \cup {None}]
      BY InvParts DEF FlagsInv
    <2>2. Flagless(task[t])
      BY <1>4, Names DEF Flagless
    <2>3. \A u \in Tasks \ {t} : KeepsFlag(task[u], task'[u])
      BY <1>12 DEF Alike, KeepsFlag
    <2>4. /\ task'[t].h = h /\ task'[t].took = ~Handlers[h].late
          /\ task'[t].holds = ~Handlers[h].late
      BY <1>8, <1>13 DEF Alike, r
    <2>5. FlagsFit(task', Takes(busy, t, h), Counts(t, h), robbed)
      BY <1>1, <1>3, <1>4, <2>1, <2>2, <2>3, <2>4, FlagsStart
    <2> QED
      BY <1>1, <1>10, <2>5 DEF FlagsInv
  <1>18. CapsInv'
    <2>1. \A u \in Tasks \ {t} : task'[u].h = task[u].h /\ task'[u].served = task[u].served
      BY <1>12 DEF Alike
    <2>2. task'[t].h = h
      BY <1>8, <1>13 DEF Alike
    <2>3. CapsFit(task, cur, cap, caps)
      BY InvParts
    <2>4. CASE h = Preview
      <3>1. caps' = caps \ {cap} /\ cap' = None
        BY <1>1, <2>4
      <3> QED
        BY <1>4, <2>1, <2>3, <3>1 DEF CapsInv, CapsFit
    <2>5. CASE h # Preview
      <3>1. caps' = caps /\ cap' = cap
        BY <1>1, <2>5
      <3>2. cur'["preview"] = cur["preview"]
        BY <1>7, <1>10, <2>5, InvParts DEF Counts, Groups, r
      <3> QED
        BY <1>4, <2>1, <2>2, <2>3, <2>5, <3>1, <3>2 DEF CapsInv, CapsFit
    <2> QED
      BY <2>4, <2>5
  <1>19. VersionsInv'
    <2>1. VersionsFit(shown, server, load, task)
      BY InvParts
    <2>2. ASSUME NEW p \in Tracked, NEW u \in Tasks
          PROVE  RunReads(server, task'[u], p)
      <3>1. CASE u = t
        BY <1>8, <1>13, <3>1 DEF RunReads, Alike, r
      <3>2. CASE u # t
        BY <1>12, <2>1, <3>2 DEF VersionsFit, RunReads, Alike
      <3> QED
        BY <3>1, <3>2
    <2>3. ASSUME NEW p \in Tracked, NEW m \in Loads
          PROVE  LoadFits(shown, server, L[m], p)
      BY <1>14, <2>1 DEF VersionsFit, LoadFits
    <2> QED
      BY <1>1, <1>10, <2>1, <2>2, <2>3 DEF VersionsInv, VersionsFit
  <1>20. PageInv'
    <2>1. PageFits(route, shown, load)
      BY InvParts
    <2>2. \A m \in Loads : L[m].live => L[m].to = route
      BY <1>14, <2>1 DEF PageFits
    <2>3. \A m \in Loads : load[m].stage = "cancel" /\ load[m].to = route =>
                             L[m].stage = "cancel" /\ L[m].to = route
      BY <1>14
    <2> QED
      BY <1>1, <1>10, <2>1, <2>2, <2>3 DEF PageInv, PageFits
  <1> QED
    BY <1>15, <1>16, <1>17, <1>18, <1>19, <1>20 DEF ShellInv

-----------------------------------------------------------------------------
\* The theorems.

LEMMA InitShell == Init => ShellInv
  <1> SUFFICES ASSUME Init
               PROVE  ShellInv
    OBVIOUS
  <1> DEFINE l == CHOOSE m \in Loads : TRUE
             k == CHOOSE j \in Keys : TRUE
             x == [NoLoad EXCEPT !.stage = "sent", !.to = route, !.live = TRUE]
  <1>1. l \in Loads /\ k \in Keys
    BY ShellAssumption
  <1>2. left \in LeftRecords /\ left.pages \subseteq Pages
    BY ShellAssumption DEF Init, LeftRecords
  <1>3. route \in [page : left.pages, key : {k}]
    BY DEF Init
  <1>4. route \in Routes
    BY <1>1, <1>2, <1>3 DEF Routes
  <1>5. x \in LoadRecords /\ x.stage = "sent" /\ x.to = route
    BY <1>4, BlankRecords DEF LoadRecords
  <1> HIDE DEF x
  <1>6. load = [[m \in Loads |-> NoLoad] EXCEPT ![l] = x]
    BY DEF Init, x
  <1> HIDE DEF l, k
  <1>7. /\ load \in [Loads -> LoadRecords]
        /\ \A m \in Loads : load[m] = x \/ load[m] = NoLoad
    BY <1>1, <1>5, <1>6, BlankRecords
  <1>8. /\ server = [j \in Keys |-> [p \in Parts |-> 1]]
        /\ shown = [p \in Parts |-> NoPart] /\ task = [t \in Tasks |-> NoTask]
        /\ busy = [f \in Flags |-> None] /\ cur = [g \in Groups |-> None]
        /\ draft = NoDraft /\ cap = None /\ caps = {}
        /\ event = [due |-> FALSE, by |-> None, again |-> FALSE] /\ robbed = {}
    BY DEF Init
  <1>9. /\ NoTask \in TaskRecords /\ NoTask.h = None /\ None \notin HandlerNames
        /\ NoTask.h # Preview /\ Preview \in HandlerNames
    BY BlankRecords, Names
  <1>10. ShapesInv
    <2>1. \A m \in Loads : load[m].stage # "idle" => load[m].to \in Routes
      BY <1>4, <1>5, <1>7, BlankRecords
    <2>2. \A t \in Tasks : RunFits(task[t])
      BY <1>8, <1>9 DEF RunFits
    <2>3. shown \in [Parts -> PartRecords] /\ task \in [Tasks -> TaskRecords]
      BY <1>8, <1>9, BlankRecords
    <2>4. draft \in [key : Keys \cup {None}, id : Tasks \cup {None}]
      BY <1>8 DEF NoDraft
    <2>5. /\ busy \in [Flags -> Tasks \cup {None}]
          /\ cur \in [Groups -> Tasks \cup {None}]
          /\ server \in [Keys -> [Parts -> Nat]]
          /\ event \in [due : BOOLEAN, by : Realtime \cup {None}, again : BOOLEAN]
      BY <1>8
    <2> QED
      BY <1>4, <1>7, <2>1, <2>2, <2>3, <2>4, <2>5 DEF ShapesInv
  <1>11. RunsInv
    BY <1>2, <1>8, <1>9, RunNames, Names DEF RunsInv, Running
  <1>12. FlagsInv
    <2>1. None \notin Tasks /\ Unlocker \in HandlerNames /\ "resource" \in Groups
      BY Names DEF Groups
    <2>2. \A f \in Flags : busy[f] = None
      BY <1>8
    <2>3. \A t \in Tasks : task[t].h \notin HandlerNames
      BY <1>8, <1>9
    <2> QED
      BY <1>8, <2>1, <2>2, <2>3 DEF FlagsInv, FlagsFit, Owned, HoldsIt, StillHolds, UnlockOwned
  <1>13. CapsInv
    BY <1>8, <1>9 DEF CapsInv, CapsFit
  <1>14. VersionsInv
    <2>1. \A m \in Loads : load[m].stage # "read"
      BY <1>5, <1>7, BlankRecords
    <2>2. \A p \in Tracked : shown[p].of = None /\ shown[p].by # "load"
      BY <1>8, BlankRecords, PathParts DEF None
    <2> QED
      BY <1>8, <1>9, <2>1, <2>2 DEF VersionsInv, VersionsFit, ShownFits, LoadFits, RunReads
  <1>15. PageInv
    <2>1. \A m \in Loads : load[m].live => load[m].to = route
      BY <1>5, <1>7, BlankRecords
    <2>2. route.page \in PathKeyed => Clean(shown, route)
      <3>1. \A p \in Parts : shown[p].of = None
        BY <1>8, BlankRecords
      <3>2. route.key # None
        BY <1>4, Names DEF Routes
      <3> QED
        BY <1>4, <3>1, <3>2, PathParts DEF Clean, Routes
    <2> QED
      BY <2>1, <2>2 DEF PageInv, PageFits
  <1> QED
    BY <1>10, <1>11, <1>12, <1>13, <1>14, <1>15 DEF ShellInv

-----------------------------------------------------------------------------
\* The flag of the unlock button.

\* The loads that wait for the cancellation of a draft still do.
CancelsKept ==
    \A l \in Loads : load[l].stage = "cancel" =>
        load'[l].stage = "cancel" /\ load'[l].to = load[l].to

\* The runs as far as the unlock button needs them.
SameRun(x, y) == y.h = x.h /\ y.at = x.at /\ y.took = x.took

\* Loads may be bumped, and that is all.
LEMMA BumpedCancels ==
  ASSUME ShellInv, load' = load \/ load' = Bumped(load)
  PROVE  CancelsKept
  <1>1. load \in [Loads -> LoadRecords]
    BY InvParts
  <1>2. ASSUME NEW m \in Loads
        PROVE  LET z == Bumped(load)[m] IN z.stage = load[m].stage /\ z.to = load[m].to
    BY <1>1, BumpedLoads
  <1> QED
    BY <1>2 DEF CancelsKept

\* Nothing happens to the run that set the flag.
LEMMA UnlockFrame ==
  ASSUME UnlockInv, busy'["unlock"] \in {None, busy["unlock"]},
         cur'["resource"] \in {cur["resource"]} \/ cur'["resource"] # busy["unlock"],
         route' = route, CancelsKept,
         busy["unlock"] # None => SameRun(task[busy["unlock"]], task'[busy["unlock"]])
  PROVE  UnlockInv'
  BY DEF UnlockInv, UnlockFits, CancelsKept, SameRun

\* A run ends, and with it the flag if its answer was wanted.
LEMMA UnlockEnds ==
  ASSUME ShellInv, UnlockInv, NEW t \in Tasks, Running(t), NEW lax \in BOOLEAN,
         NEW T, Fewer(task, T), Ends(t, lax, T), route' = route, CancelsKept,
         UNCHANGED cur
  PROVE  UnlockInv'
  <1> DEFINE h == Handlers[task[t].h]
             y == IF event.by = t /\ event.again THEN Started(t, task[t].h, task[t].at)
                  ELSE IF t \in Realtime THEN NoTask ELSE DoneTask
  <1>1. busy' = BusyAfter(t, lax) /\ task' = [T EXCEPT ![t] = y]
    BY DEF Ends
  <1>2. /\ T \in [Tasks -> TaskRecords]
        /\ \A u \in Tasks : SameRun(task[u], T[u])
    BY DEF Fewer, Alike, SameRun
  <1> HIDE DEF y
  <1>3. task'[t] = y /\ \A u \in Tasks \ {t} : SameRun(task[u], task'[u])
    BY <1>1, <1>2
  <1>4. /\ h.takes = "unlock" <=> task[t].h = Unlocker
        /\ h.takes \in Flags /\ "unlock" \in Flags
    BY FlagTable DEF Running, Flags
  <1>5. busy'["unlock"] \in {None, busy["unlock"]}
    BY <1>1, <1>4, InvParts DEF BusyAfter
  <1>6. CASE busy["unlock"] # t
    <2>1. busy["unlock"] \in Tasks \cup {None}
      BY <1>4, InvParts
    <2> QED
      BY <1>3, <1>5, <1>6, <2>1, UnlockFrame
  <1>7. CASE busy["unlock"] = t
    <2>1. t # None /\ task[t].h \in HandlerNames /\ "done" \notin HandlerNames
      BY Names DEF Running
    <2>2. task[t].h = Unlocker /\ task[t].took
      BY <1>7, <2>1 DEF UnlockInv, UnlockFits
    <2>3. t \notin Realtime
      <3>1. Unlocker # Streamed
        BY DEF Unlocker, Streamed
      <3> QED
        BY <2>1, <2>2, <3>1, InvParts
    <2>4. task'[t].h = "done"
      <3>1. event.by # t
        BY <2>3, Followed
      <3> QED
        BY <1>3, <2>3, <3>1, BlankRecords DEF y
    <2>5. CASE Current(t)
      <3>1. FreesFlag(t, lax)
        BY <1>4, <2>2, <2>5, FlagTable, Names DEF FreesFlag
      <3>2. busy'["unlock"] = None
        BY <1>1, <1>4, <2>2, <3>1, InvParts DEF BusyAfter
      <3> QED
        BY <3>2 DEF UnlockInv, UnlockFits
    <2>6. CASE ~Current(t)
      <3>1. cur["resource"] # t \/ route # task[t].at
        <4>1. h.group = "resource" /\ h.check = "action" /\ ~h.now
          BY <2>1, <2>2, FlagTable
        <4> QED
          BY <2>6, <4>1 DEF Current, Here
      <3>2. cur["resource"] = t /\ route.page = "resource" =>
               \E l \in Loads : load[l].stage = "cancel" /\ load[l].to.page = "resource"
        BY <1>7, <2>1, <3>1 DEF UnlockInv, UnlockFits
      <3>3. CASE busy'["unlock"] = t
        BY <2>4, <3>2, <3>3 DEF UnlockInv, UnlockFits, CancelsKept, Unlocker
      <3>4. CASE busy'["unlock"] = None
        BY <3>4 DEF UnlockInv, UnlockFits
      <3> QED
        BY <1>5, <1>7, <3>3, <3>4
    <2> QED
      BY <2>5, <2>6
  <1> QED
    BY <1>6, <1>7

LEMMA UnlockGoesOn ==
  ASSUME ShellInv, UnlockInv, NEW t \in Tasks, Running(t), NEW pc,
         NEW T, Fewer(task, T), GoesOn(t, pc, T), route' = route, CancelsKept,
         UNCHANGED cur
  PROVE  UnlockInv'
  <1> DEFINE h == Handlers[task[t].h]
             at == IF h.now /\ pc = Len(h.script) THEN route ELSE task[t].at
  <1>1. CASE at.page \notin h.on \cup {"item"}
    BY <1>1, UnlockEnds DEF GoesOn
  <1>2. CASE at.page \in h.on \cup {"item"}
    <2> DEFINE y == [T[t] EXCEPT !.pc = pc, !.served = FALSE, !.at = at]
    <2>1. task' = [T EXCEPT ![t] = y] /\ busy' = busy
      BY <1>2 DEF GoesOn
    <2>2. /\ T \in [Tasks -> TaskRecords] /\ T[t] \in TaskRecords
          /\ \A u \in Tasks : SameRun(task[u], T[u])
      BY DEF Fewer, Alike, SameRun
    <2> HIDE DEF at
    <2>3. y.h = T[t].h /\ y.at = at /\ y.took = T[t].took
      BY <2>2 DEF TaskRecords
    <2> HIDE DEF y
    <2>4. task'[t] = y /\ \A u \in Tasks \ {t} : SameRun(task[u], task'[u])
      BY <2>1, <2>2
    <2>5. busy["unlock"] = t => ~h.now
      <3>1. t # None /\ task[t].h \in HandlerNames /\ "done" \notin HandlerNames
        BY Names DEF Running
      <3> QED
        BY <3>1, FlagTable DEF UnlockInv, UnlockFits
    <2>6. busy["unlock"] = t => SameRun(task[t], task'[t])
      BY <2>2, <2>3, <2>4, <2>5 DEF at, SameRun
    <2>7. busy["unlock"] \in Tasks \cup {None}
      BY InvParts DEF Flags
    <2> QED
      BY <2>1, <2>4, <2>6, <2>7, UnlockFrame
  <1> QED
    BY <1>1, <1>2

\* A run whose handler is another than the one of the unlock button's may
\* become anything.
LEMMA UnlockOther ==
  ASSUME ShellInv, UnlockInv, NEW t \in Tasks, task[t].h \notin {Unlocker, "done"},
         \A u \in Tasks \ {t} : SameRun(task[u], task'[u]),
         busy'["unlock"] = busy["unlock"],
         cur'["resource"] = cur["resource"] \/ cur'["resource"] = t,
         route' = route, CancelsKept
  PROVE  UnlockInv'
  <1>1. busy["unlock"] \in Tasks \cup {None} /\ None \notin Tasks
    BY InvParts, Names DEF Flags
  <1>2. busy["unlock"] # t
    BY <1>1 DEF UnlockInv, UnlockFits
  <1> QED
    BY <1>1, <1>2, UnlockFrame

\* What the resets leave of the runs.
LEMMA ResetRuns ==
  ASSUME NEW l, NEW to, NEW T \in [Tasks -> TaskRecords], NEW B, Resets(l, to, T, B)
  PROVE  \A u \in Tasks : /\ task'[u].h = T[u].h /\ task'[u].at = T[u].at
                          /\ task'[u].took = T[u].took
  <1> DEFINE z == Reset(to.page)
             U == IF to.page = "item" THEN LinkMoved(T) ELSE T
  <1>1. U \in [Tasks -> TaskRecords] /\ \A u \in Tasks : Alike(T[u], U[u])
    BY LinkMovedAlike DEF Alike
  <1>2. task' = [t \in Tasks |->
                     IF T[t].h \in HandlerNames /\ Handlers[T[t].h].takes \in z.flags
                     THEN [U[t] EXCEPT !.holds = FALSE] ELSE U[t]]
    BY DEF Resets
  <1>3. \A x \in TaskRecords : Alike(x, [x EXCEPT !.holds = FALSE])
    BY DEF TaskRecords, Alike
  <1> HIDE DEF U, z
  <1> QED
    BY <1>1, <1>2, <1>3 DEF Alike

\* A load begins, for the open page or for another.
LEMMA UnlockLoads ==
  ASSUME ShellInv, NEW to \in Routes, NEW mode, NEW by,
         NEW T \in [Tasks -> TaskRecords], NEW B \in [Flags -> Tasks \cup {None}],
         StartLoad(to, mode, by, T, B), UnlockFits(route, T, B, cur, load),
         route' = to, mode = "refresh" => to = route \/ to.page # "resource"
  PROVE  UnlockInv'
  <1> DEFINE U == RequestMoved(T)
             foreign == /\ mode = "load" /\ draft # NoDraft
                        /\ ~(to.page = "item" /\ draft.key = to.key)
             x(stage) == [NoLoad EXCEPT !.stage = stage, !.to = to, !.mode = mode,
                            !.live = TRUE, !.by = by,
                            !.id = IF stage = "cancel" THEN draft.id ELSE None]
  <1>1. PICK l \in Loads :
          /\ load[l].stage = "idle"
          /\ \/ /\ load' = [Bumped(load) EXCEPT ![l] = x("cancel")]
                /\ task' = U /\ busy' = B /\ UNCHANGED cur
             \/ /\ load' = [Bumped(load) EXCEPT ![l] = x("sent")]
                /\ Resets(l, to, U, B)
             \/ /\ mode = "refresh"
                /\ load' = [Bumped(load) EXCEPT ![l] = x("sent")]
                /\ task' = U /\ busy' = B /\ UNCHANGED cur
    BY DEF StartLoad
  <1>2. \A u \in Tasks : SameRun(T[u], U[u])
    BY RequestMovedAlike DEF Alike, SameRun
  <1>3. U \in [Tasks -> TaskRecords] /\ load \in [Loads -> LoadRecords]
    BY RequestMovedAlike, InvParts
  <1> HIDE DEF U
  <1>4. B["unlock"] \in Tasks \cup {None} /\ None \notin Tasks
    BY Names DEF Flags
  <1>5. CASE /\ load' = [Bumped(load) EXCEPT ![l] = x("cancel")]
             /\ task' = U /\ busy' = B /\ UNCHANGED cur
    <2>1. x("cancel").stage = "cancel" /\ x("cancel").to = to
      BY DEF NoLoad
    <2>2. load'[l] = x("cancel")
      BY <1>3, <1>5, BumpedLoads
    <2>3. load'[l].stage = "cancel" /\ load'[l].to = to
      BY <2>1, <2>2
    <2> QED
      BY <1>2, <1>4, <1>5, <2>3 DEF UnlockInv, UnlockFits, SameRun
  <1>6. CASE /\ load' = [Bumped(load) EXCEPT ![l] = x("sent")]
             /\ Resets(l, to, U, B)
    <2>1. \A u \in Tasks : SameRun(T[u], task'[u])
      BY <1>2, <1>3, <1>6, ResetRuns DEF SameRun
    <2>2. busy'["unlock"] \in {None, B["unlock"]}
      BY <1>6 DEF Resets, Flags
    <2>3. to.page = "resource" => cur'["resource"] = None
      BY <1>6 DEF Resets, Reset, Groups
    <2> QED
      BY <1>4, <2>1, <2>2, <2>3 DEF UnlockInv, UnlockFits, SameRun
  <1>7. CASE /\ mode = "refresh"
             /\ load' = [Bumped(load) EXCEPT ![l] = x("sent")]
             /\ task' = U /\ busy' = B /\ UNCHANGED cur
    <2> HIDE DEF x
    <2>1. \A m \in Loads \ {l} : load'[m] = Bumped(load)[m]
      BY <1>3, <1>7, BumpedLoads
    <2>2. CancelsKept
      <3>1. ASSUME NEW m \in Loads
            PROVE  LET z == Bumped(load)[m] IN
                   z.stage = load[m].stage /\ z.to = load[m].to
        BY <1>3, BumpedLoads
      <3> QED
        BY <1>1, <2>1, <3>1 DEF CancelsKept
    <2>3. CASE to.page # "resource"
      BY <1>2, <1>4, <1>7, <2>3 DEF UnlockInv, UnlockFits, SameRun
    <2>4. CASE to = route
      BY <1>2, <1>4, <1>7, <2>2, <2>4 DEF UnlockInv, UnlockFits, SameRun, CancelsKept
    <2> QED
      BY <1>7, <2>3, <2>4
  <1> QED
    BY <1>1, <1>5, <1>6, <1>7

\* Where a run that opens another page leads.
LEMMA DepartsTo ==
  ASSUME ShellInv, NEW t \in Tasks, Departs(t)
  PROVE  LET T == [task EXCEPT ![t] = DoneTask]
             B == BusyAfter(t, FALSE)
         IN  \/ task' = T /\ busy' = B /\ UNCHANGED <<route, load, cur>>
             \/ StartLoad(route, "refresh", None, T, B) /\ route' = route
             \/ \E r \in Routes : r.page # "resource" /\ GoTo(r, T, B)
  <1> DEFINE h == Handlers[task[t].h]
             target == IF h.ends # "project" THEN h.ends
                       ELSE CASE route.page = "list" -> "list"
                              [] route.page \in {"library", "resource"} -> "library"
                              [] route.page \in {"project", "cycle"} -> "project"
                              [] OTHER -> None
             T == [task EXCEPT ![t] = DoneTask]
             B == BusyAfter(t, FALSE)
  <1>1. Running(t) /\ h.ends \in Pages
    BY DEF Departs
  <1>2. h.ends # "resource"
    <2>1. HandlerFits(task[t].h, h)
      BY <1>1, HandlerTable DEF Running
    <2> HIDE DEF h, target, T, B
    <2> QED
      BY <1>1, <2>1 DEF HandlerFits, None
  <1>3. target \in (Pages \ {"resource"}) \cup {None}
    BY <1>1, <1>2, PageNames
  <1> HIDE DEF target
  <1>4. task[t].at.key \in Keys
    BY <1>1, InvParts DEF RunFits, Routes, Running
  <1>5. \/ /\ target # None
           /\ \E k \in IF h.ends = "library" THEN {task[t].at.key} ELSE Keys :
                GoTo([page |-> target, key |-> k], T, B)
        \/ StartLoad(route, "refresh", None, T, B) /\ UNCHANGED <<route, event>>
        \/ task' = T /\ busy' = B /\ UNCHANGED <<route, load, cur>>
    BY DEF Departs, target
  <1> HIDE DEF T, B
  <1>6. CASE /\ target # None
             /\ \E k \in IF h.ends = "library" THEN {task[t].at.key} ELSE Keys :
                  GoTo([page |-> target, key |-> k], T, B)
    <2>1. PICK k \in Keys : GoTo([page |-> target, key |-> k], T, B)
      BY <1>4, <1>6
    <2>2. [page |-> target, key |-> k] \in Routes
      BY <1>3, <1>6 DEF Routes
    <2> QED
      BY <1>3, <1>6, <2>1, <2>2 DEF T, B
  <1> QED
    BY <1>5, <1>6 DEF T, B

\* What the moves of the counters leave of the runs.
LEMMA MovedRuns ==
  ASSUME task \in [Tasks -> TaskRecords]
  PROVE  /\ Fewer(task, task) /\ Fewer(task, RequestMoved(task))
         /\ Fewer(task, LinkMoved(task))
  BY SameRuns, RequestMovedAlike, LinkMovedAlike DEF Fewer, KeepsFlag, Alike

\* What the start of a run does.
LEMMA BeginDoes ==
  ASSUME ShellInv, NEW h, Begin(h)
  PROVE  \E t \in Tasks :
             /\ task[t].h = None /\ busy' = Takes(busy, t, h) /\ cur' = Counts(t, h)
             /\ task'[t].h = h /\ task'[t].at = route
             /\ task'[t].took = ~Handlers[h].late
             /\ \A u \in Tasks \ {t} : Alike(task[u], task'[u])
  <1> DEFINE t == TaskSeq[Len(TaskSeq) - left.tasks + 1]
             x == Started(t, h, route)
             saved == [x EXCEPT !.pc = 2,
                                !.got = [@ EXCEPT !["item"] = shown["item"].ver]]
  <1>1. /\ left.tasks > 0 /\ left' = [left EXCEPT !.tasks = @ - 1]
        /\ h \in left.handlers
    BY DEF Begin
  <1>2. PICK y \in {x, saved} :
          LET new == [task EXCEPT ![t] = y] IN
          /\ task' = RequestMoved(new) \/ task' = LinkMoved(new) \/ task' = new
          /\ busy' = Takes(busy, t, h) /\ cur' = Counts(t, h)
    BY DEF Begin
  <1>3. h \in HandlerNames /\ route \in Routes /\ route.key \in Keys
    BY <1>1, InvParts DEF LeftRecords, Routes
  <1>4. t \in Tasks /\ task[t].h = None
    <2> HIDE DEF x, saved
    <2> QED BY <1>1, NextRun
  <1> HIDE DEF t
  <1>b. Beginning(x, h, route)
    <2>1. draft \in [key : Keys \cup {None}, id : Tasks \cup {None}]
      BY InvParts
    <2> QED
      BY <1>3, <1>4, <2>1, StartedRecord
  <1> HIDE DEF x
  <1>5. x \in TaskRecords /\ x.h = h /\ x.at = route /\ x.took = ~Handlers[h].late
    BY <1>b DEF Beginning
  <1>6. /\ y \in TaskRecords /\ y.h = h /\ y.at = route
        /\ y.took = ~Handlers[h].late
    <2>1. shown["item"].ver \in Nat
      BY InvParts, PathParts DEF PartRecords, Tracked
    <2>2. x.got \in [Parts -> Nat]
      BY <1>5 DEF TaskRecords
    <2>3. PICK got \in [Parts -> Nat] : got = [x.got EXCEPT !["item"] = shown["item"].ver]
      BY <2>1, <2>2
    <2>4. saved = [x EXCEPT !.pc = 2, !.got = got]
      BY <2>3
    <2>5. LET z == [x EXCEPT !.pc = 2, !.got = got] IN
          z \in TaskRecords /\ z.h = x.h /\ z.at = x.at /\ z.took = x.took
      BY <1>5 DEF TaskRecords
    <2>6. y = x \/ y = saved
      BY <1>2
    <2> HIDE DEF saved
    <2> QED
      BY <1>5, <2>4, <2>5, <2>6
  <1> DEFINE new == [task EXCEPT ![t] = y]
  <1>7. /\ new \in [Tasks -> TaskRecords] /\ new[t] = y
        /\ \A u \in Tasks \ {t} : new[u] = task[u]
    BY <1>4, <1>6, InvParts
  <1>8. task' = RequestMoved(new) \/ task' = LinkMoved(new) \/ task' = new
    BY <1>2
  <1> HIDE DEF new
  <1>9. \A u \in Tasks : Alike(new[u], task'[u])
    BY <1>7, <1>8, RequestMovedAlike, LinkMovedAlike DEF Alike
  <1>10. \A u \in Tasks \ {t} : Alike(task[u], task'[u])
    BY <1>7, <1>9
  <1>11. task'[t].h = h /\ task'[t].at = route /\ task'[t].took = ~Handlers[h].late
    BY <1>4, <1>6, <1>7, <1>9 DEF Alike
  <1> QED
    BY <1>2, <1>4, <1>10, <1>11

LEMMA NextUnlock == ShellInv /\ UnlockInv /\ [Next]_vars => UnlockInv'
  <1> SUFFICES ASSUME ShellInv, UnlockInv, [Next]_vars
               PROVE  UnlockInv'
    OBVIOUS
  <1>a. /\ task \in [Tasks -> TaskRecords] /\ load \in [Loads -> LoadRecords]
        /\ busy \in [Flags -> Tasks \cup {None}] /\ route \in Routes
        /\ busy["unlock"] \in Tasks \cup {None} /\ None \notin Tasks
        /\ "done" \notin HandlerNames /\ Unlocker \in HandlerNames
        /\ cur \in [Groups -> Tasks \cup {None}]
    BY InvParts, Names DEF Flags
  <1>1. CASE Navigate
    <2>1. PICK r \in [page : left.pages, key : Keys] :
             r # route /\ GoTo(r, task, busy)
      BY <1>1 DEF Navigate
    <2>2. r \in Routes
      BY InvParts DEF Routes, LeftRecords
    <2>3. SamePath(r, route) => r.page # "resource"
      BY <1>a, <2>1, <2>2 DEF SamePath, Routes, PathKeyed
    <2> QED
      BY <1>a, <2>1, <2>2, <2>3, UnlockLoads DEF GoTo, UnlockInv
  <1>2. CASE RefreshPage
    <2>1. StartLoad(route, "refresh", None, task, busy) /\ route' = route
      BY <1>2 DEF RefreshPage
    <2> QED
      BY <1>a, <2>1, UnlockLoads DEF UnlockInv
  <1>3. CASE EventArrives
    <2>1. UNCHANGED <<route, load, busy, cur>>
      BY <1>3 DEF EventArrives
    <2>2. CancelsKept
      BY <2>1 DEF CancelsKept
    <2>3. CASE UNCHANGED task
      BY <2>1, <2>2, <2>3, UnlockFrame DEF SameRun
    <2>4. CASE ~UNCHANGED task
      <3>1. PICK t \in Realtime : /\ task[t] = NoTask
                                  /\ task' = [task EXCEPT ![t] = Started(t, Streamed, route)]
        BY <1>3, <2>4 DEF EventArrives, Streamed
      <3>2. t \in Tasks /\ task[t].h = None
        BY <3>1, BlankRecords, Names
      <3>3. \A u \in Tasks \ {t} : SameRun(task[u], task'[u])
        BY <1>a, <3>1 DEF SameRun
      <3>4. task[t].h \notin {Unlocker, "done"}
        BY <3>2 DEF None, Unlocker
      <3> QED
        BY <2>1, <2>2, <3>2, <3>3, <3>4, UnlockOther
    <2> QED
      BY <2>3, <2>4
  <1>4. CASE OthersWrite
    BY <1>4, UnlockFrame DEF OthersWrite, CancelsKept, SameRun
  <1>5. CASE releaseProjectAttachmentPreview
    <2>1. UNCHANGED <<route, load, task, busy>> /\ cur'["resource"] = cur["resource"]
      BY <1>5, <1>a DEF releaseProjectAttachmentPreview, Groups
    <2> QED
      BY <2>1, UnlockFrame DEF CancelsKept, SameRun
  <1>6. ASSUME NEW l \in Loads, DraftCancelled(l)
        PROVE  UnlockInv'
    <2> DEFINE to == load[l].to
               y == [load[l] EXCEPT !.stage = "sent", !.id = None]
    <2>1. /\ load[l].stage = "cancel" /\ Resets(l, to, task, busy) /\ route' = route
          /\ load' = [load EXCEPT ![l] = y]
      BY <1>6 DEF DraftCancelled
    <2>2. \A u \in Tasks : SameRun(task[u], task'[u])
      BY <1>a, <2>1, ResetRuns DEF SameRun
    <2>3. busy'["unlock"] \in {None, busy["unlock"]}
      BY <1>a, <2>1 DEF Resets, Flags
    <2>4. /\ to.page = "resource" => cur'["resource"] = None
          /\ cur'["resource"] \in {None, cur["resource"]}
      BY <1>a, <2>1 DEF Resets, Reset, Groups
    <2>5. \A m \in Loads : load[m].stage = "cancel" /\ load[m].to.page = "resource" =>
             to.page = "resource" \/ load'[m] = load[m]
      BY <1>a, <2>1
    <2> HIDE DEF to
    <2>6. CASE busy'["unlock"] = None
      BY <2>6 DEF UnlockInv, UnlockFits
    <2>7. CASE busy'["unlock"] # None /\ cur'["resource"] = None
      BY <1>a, <2>2, <2>3, <2>7 DEF UnlockInv, UnlockFits, SameRun
    <2>8. CASE /\ busy'["unlock"] # None /\ to.page # "resource"
               /\ cur'["resource"] = cur["resource"]
      <3> DEFINE u == busy["unlock"]
      <3>1. /\ u \in Tasks /\ u # None /\ busy'["unlock"] = u /\ route' = route
            /\ SameRun(task[u], task'[u])
        BY <1>a, <2>1, <2>2, <2>3, <2>8
      <3>2. ASSUME \E m \in Loads : load[m].stage = "cancel" /\ load[m].to.page = "resource"
            PROVE  \E m \in Loads : load'[m].stage = "cancel" /\ load'[m].to.page = "resource"
        BY <2>5, <2>8, <3>2
      <3>3. UnlockFits(route, task, busy, cur, load)
        BY DEF UnlockInv
      <3> HIDE DEF u
      <3>4. UnlockFits(route, task', busy', cur', load')
        BY <2>8, <3>1, <3>2, <3>3 DEF UnlockFits, SameRun, u
      <3> QED
        BY <3>1, <3>4 DEF UnlockInv
    <2> QED
      BY <2>4, <2>6, <2>7, <2>8
  <1>7. ASSUME NEW l \in Loads, LoadServed(l) \/ LoadAnswered(l) \/ LoadFailed(l)
        PROVE  UnlockInv'
    <2>1. UNCHANGED <<route, task, busy, cur>> /\ load[l].stage # "cancel"
      BY <1>7 DEF LoadServed, LoadAnswered, LoadFailed
    <2>2. \A m \in Loads \ {l} : load'[m] = load[m]
      BY <1>7, <1>a DEF LoadServed, LoadAnswered, LoadFailed
    <2> QED
      BY <2>1, <2>2, UnlockFrame DEF CancelsKept, SameRun
  <1>8. ASSUME NEW h \in left.handlers, Begin(h)
        PROVE  UnlockInv'
    <2>1. PICK t \in Tasks :
             /\ task[t].h = None /\ busy' = Takes(busy, t, h) /\ cur' = Counts(t, h)
             /\ task'[t].h = h /\ task'[t].at = route
             /\ task'[t].took = ~Handlers[h].late
             /\ \A u \in Tasks \ {t} : Alike(task[u], task'[u])
      BY <1>8, BeginDoes
    <2>2. h \in HandlerNames /\ FlagsFree(h) /\ route' = route
      BY <1>8, InvParts DEF LeftRecords, Begin
    <2>3. CancelsKept
      <3>1. load' = load \/ load' = Bumped(load)
        BY <1>8 DEF Begin
      <3> QED
        BY <3>1, BumpedCancels
    <2>4. \A u \in Tasks \ {t} : SameRun(task[u], task'[u])
      BY <2>1 DEF Alike, SameRun
    <2>5. CASE h = Unlocker
      <3>1. /\ Handlers[h].takes = "unlock" /\ ~Handlers[h].late
        BY <2>2, <2>5, FlagTable
      <3>2. busy'["unlock"] = t
        BY <1>a, <2>1, <3>1 DEF Takes, Flags
      <3> QED
        BY <2>1, <2>2, <2>5, <3>1, <3>2 DEF UnlockInv, UnlockFits
    <2>6. CASE h # Unlocker
      <3>1. Handlers[h].takes # "unlock"
        BY <2>2, <2>6, FlagTable
      <3>2. busy'["unlock"] = busy["unlock"]
        BY <1>a, <2>1, <3>1 DEF Takes, Flags
      <3>3. cur'["resource"] = cur["resource"] \/ cur'["resource"] = t
        BY <1>a, <2>1 DEF Counts, Groups
      <3>4. task[t].h \notin {Unlocker, "done"}
        BY <2>1 DEF None, Unlocker
      <3> QED
        BY <2>2, <2>3, <2>4, <3>2, <3>3, <3>4, UnlockOther
    <2> QED
      BY <2>5, <2>6
  <1>9. ASSUME NEW t \in Tasks, Served(t)
        PROVE  UnlockInv'
    <2>1. UNCHANGED <<route, load, busy, cur>> /\ Running(t)
      BY <1>9 DEF Served
    <2>2. \A u \in Tasks : SameRun(task[u], task'[u])
      BY <1>9, <1>a DEF Served, SameRun, TaskRecords
    <2> QED
      BY <1>a, <2>1, <2>2, UnlockFrame DEF CancelsKept
  <1>10. ASSUME NEW t \in Tasks, Chosen(t)
         PROVE  UnlockInv'
    <2> DEFINE h == Handlers[task[t].h]
    <2>1. /\ UNCHANGED <<route, load>> /\ Running(t)
          /\ busy' = IF h.late THEN [busy EXCEPT ![h.takes] = t] ELSE busy
          /\ cur' = IF h.late THEN [cur EXCEPT ![h.group] = t] ELSE cur
      BY <1>10 DEF Chosen
    <2>2. h.late => h.takes = "releases" /\ h.group = "asset"
      BY <2>1, FlagTable DEF Running
    <2>3. busy'["unlock"] = busy["unlock"] /\ cur'["resource"] = cur["resource"]
      BY <1>a, <2>1, <2>2 DEF Flags, Groups
    <2>4. \A u \in Tasks \ {t} : SameRun(task[u], task'[u])
      BY <1>10, <1>a DEF Chosen, SameRun
    <2>5. task'[t].h = task[t].h /\ task'[t].at = task[t].at /\ task'[t].took = TRUE
      BY <1>10, <1>a DEF Chosen, TaskRecords
    <2>6. CancelsKept
      BY <2>1 DEF CancelsKept
    <2> QED
      BY <1>a, <2>1, <2>3, <2>4, <2>5, <2>6 DEF UnlockInv, UnlockFits, SameRun
  <1>11. ASSUME NEW t \in Tasks, NotChosen(t) \/ RefreshEnds(t)
         PROVE  UnlockInv'
    <2>1. PICK lax \in BOOLEAN : Ends(t, lax, task)
      BY <1>11 DEF NotChosen, RefreshEnds
    <2>2. Running(t) /\ UNCHANGED <<route, load, cur>>
      BY <1>11 DEF NotChosen, RefreshEnds
    <2>3. CancelsKept
      BY <2>2 DEF CancelsKept
    <2> QED
      BY <1>a, <2>1, <2>2, <2>3, SameRuns, UnlockEnds
  <1>12. ASSUME NEW t \in Tasks, Answered(t)
         PROVE  UnlockInv'
    <2> DEFINE h == Handlers[task[t].h]
               T == IF Bumps(t) THEN RequestMoved(task)
                    ELSE IF task[t].h = "requestWorkItemResourceLibraryLink" /\ Current(t)
                    THEN LinkMoved(task) ELSE task
    <2>1. Running(t) /\ route' = route /\ (load' = load \/ load' = Bumped(load))
      BY <1>12 DEF Answered, MoveRequest
    <2>2. CancelsKept
      BY <2>1, BumpedCancels
    <2>3. Fewer(task, T)
      BY <1>a, MovedRuns
    <2>4. \/ GoesOn(t, task[t].pc + 1, T) /\ UNCHANGED cur
          \/ /\ h.ends \in HandlerNames /\ FlagsFree(h.ends)
             /\ task' = [T EXCEPT ![t] = Started(t, h.ends, task[t].at)]
             /\ busy' = Takes(busy, t, h.ends) /\ cur' = Counts(t, h.ends)
          \/ Ends(t, FALSE, T) /\ UNCHANGED cur
      BY <1>12 DEF Answered
    <2> HIDE DEF T
    <2>5. CASE GoesOn(t, task[t].pc + 1, T) /\ UNCHANGED cur
      BY <2>1, <2>2, <2>3, <2>5, UnlockGoesOn
    <2>6. CASE Ends(t, FALSE, T) /\ UNCHANGED cur
      BY <2>1, <2>2, <2>3, <2>6, UnlockEnds
    <2>7. CASE /\ h.ends \in HandlerNames /\ FlagsFree(h.ends)
               /\ task' = [T EXCEPT ![t] = Started(t, h.ends, task[t].at)]
               /\ busy' = Takes(busy, t, h.ends) /\ cur' = Counts(t, h.ends)
      <3>1. /\ h.ends = "uploadSelectedWorkItemAttachment"
            /\ task[t].h \notin {Unlocker, "done"}
        <4>1. task[t].h \in HandlerNames
          BY <2>1 DEF Running
        <4> QED
          BY <1>a, <2>7, <4>1, EndsTable, FlagTable, Names
      <3>2. Handlers[h.ends].takes # "unlock" /\ Handlers[h.ends].group # "resource"
        BY <3>1, HandlersListed DEF uploadSelectedWorkItemAttachment, AttachmentMutation,
           Handler
      <3>3. busy'["unlock"] = busy["unlock"] /\ cur'["resource"] = cur["resource"]
        BY <1>a, <2>7, <3>2 DEF Takes, Counts, Flags, Groups
      <3>4. \A u \in Tasks \ {t} : SameRun(task[u], task'[u])
        BY <2>3, <2>7 DEF Fewer, Alike, SameRun
      <3> QED
        BY <2>1, <2>2, <3>1, <3>3, <3>4, UnlockOther
    <2> QED
      BY <2>4, <2>5, <2>6, <2>7
  <1>13. ASSUME NEW t \in Tasks, Departs(t)
         PROVE  UnlockInv'
    <2> DEFINE h == Handlers[task[t].h]
               T == [task EXCEPT ![t] = DoneTask]
               B == BusyAfter(t, FALSE)
    <2>1. Running(t) /\ h.ends \in Pages
      BY <1>13 DEF Departs
    <2>2. h.takes # "unlock" /\ task[t].h \notin {Unlocker, "done"} /\ h.takes \in Flags
      <3>1. task[t].h \in HandlerNames /\ None \notin Pages
        BY <2>1, Names DEF Running
      <3> QED
        BY <1>a, <2>1, <3>1, FlagTable
    <2>3. /\ B \in [Flags -> Tasks \cup {None}] /\ B["unlock"] = busy["unlock"]
      BY <1>a, <2>2 DEF BusyAfter, Flags
    <2>4. /\ T \in [Tasks -> TaskRecords]
          /\ \A u \in Tasks \ {t} : SameRun(task[u], T[u])
      BY <1>a, BlankRecords DEF SameRun
    <2> HIDE DEF T, B
    <2>5. busy["unlock"] # t
      BY <1>a, <2>2 DEF UnlockInv, UnlockFits
    <2>6. UnlockFits(route, T, B, cur, load)
      BY <1>a, <2>3, <2>4, <2>5 DEF UnlockInv, UnlockFits, SameRun
    <2>7. CASE /\ task' = T /\ busy' = B /\ UNCHANGED <<route, load, cur>>
      BY <2>6, <2>7 DEF UnlockInv
    <2>8. CASE StartLoad(route, "refresh", None, T, B) /\ route' = route
      BY <1>a, <2>3, <2>4, <2>6, <2>8, UnlockLoads
    <2>9. CASE \E r \in Routes : r.page # "resource" /\ GoTo(r, T, B)
      <3>1. PICK r \in Routes : r.page # "resource" /\ GoTo(r, T, B)
        BY <2>9
      <3> QED
        BY <2>3, <2>4, <2>6, <3>1, UnlockLoads DEF GoTo
    <2> QED
      BY <1>13, <2>7, <2>8, <2>9, DepartsTo DEF T, B
  <1>14. ASSUME NEW t \in Tasks, Failed(t)
         PROVE  UnlockInv'
    <2>1. /\ Running(t) /\ route' = route /\ UNCHANGED cur
          /\ load' = load \/ load' = Bumped(load)
      BY <1>14 DEF Failed
    <2>2. CancelsKept
      BY <2>1, BumpedCancels
    <2>3. Fewer(task, task) /\ Fewer(task, RequestMoved(task))
      BY <1>a, MovedRuns
    <2>4. \/ GoesOn(t, task[t].pc + 1, task)
          \/ \E lax \in BOOLEAN : Ends(t, lax, task) \/ Ends(t, lax, RequestMoved(task))
      BY <1>14 DEF Failed
    <2> QED
      BY <2>1, <2>2, <2>3, <2>4, UnlockGoesOn, UnlockEnds
  <1>15. ASSUME NEW t \in Tasks, RefreshBegins(t)
         PROVE  UnlockInv'
    <2> DEFINE y == [task[t] EXCEPT !.served = TRUE]
               T == [task EXCEPT ![t] = y]
    <2>1. StartLoad(route, "refresh", t, T, busy) /\ route' = route
      BY <1>15 DEF RefreshBegins
    <2>a. /\ y \in TaskRecords /\ y.h = task[t].h /\ y.at = task[t].at
          /\ y.took = task[t].took
      <3>1. task[t] \in TaskRecords
        BY <1>a
      <3> QED
        BY <3>1 DEF TaskRecords
    <2> HIDE DEF y
    <2>2. /\ T \in [Tasks -> TaskRecords]
          /\ \A u \in Tasks : SameRun(task[u], T[u])
      BY <1>a, <2>a DEF SameRun
    <2> HIDE DEF T
    <2>3. UnlockFits(route, T, busy, cur, load)
      BY <1>a, <2>2 DEF UnlockInv, UnlockFits, SameRun
    <2> QED
      BY <1>a, <2>1, <2>2, <2>3, UnlockLoads
  <1>16. CASE UNCHANGED vars
    BY <1>16 DEF vars, UnlockInv, UnlockFits
  <1> QED
    BY <1>1, <1>2, <1>3, <1>4, <1>5, <1>6, <1>7, <1>8, <1>9, <1>10, <1>11, <1>12,
       <1>13, <1>14, <1>15, <1>16 DEF Next

LEMMA NextShell == ShellInv /\ [Next]_vars => ShellInv'
  <1> SUFFICES ASSUME ShellInv, [Next]_vars
               PROVE  ShellInv'
    OBVIOUS
  <1>1. CASE Navigate
    BY <1>1, NavigateKeeps
  <1>2. CASE RefreshPage
    BY <1>2, RefreshPageKeeps
  <1>3. CASE EventArrives
    BY <1>3, EventArrivesKeeps
  <1>4. CASE OthersWrite
    BY <1>4, OthersWriteKeeps
  <1>5. CASE releaseProjectAttachmentPreview
    BY <1>5, ReleaseKeeps
  <1>6. ASSUME NEW l \in Loads,
               DraftCancelled(l) \/ LoadServed(l) \/ LoadAnswered(l) \/ LoadFailed(l)
        PROVE  ShellInv'
    BY <1>6, DraftCancelledKeeps, LoadServedKeeps, LoadAnsweredKeeps, LoadFailedKeeps
  <1>7. ASSUME NEW h \in left.handlers, Begin(h)
        PROVE  ShellInv'
    BY <1>7, BeginKeeps
  <1>8. ASSUME NEW t \in Tasks,
               \/ Served(t) \/ Chosen(t) \/ NotChosen(t) \/ Answered(t) \/ Departs(t)
               \/ Failed(t) \/ RefreshBegins(t) \/ RefreshEnds(t)
        PROVE  ShellInv'
    BY <1>8, ServedKeeps, ChosenKeeps, NotChosenKeeps, AnsweredKeeps, DepartsKeeps,
       FailedKeeps, RefreshBeginsKeeps, RefreshEndsKeeps
  <1>9. CASE UNCHANGED vars
    BY <1>9 DEF vars, ShellInv, ShapesInv, RunsInv, Running, FlagsInv, CapsInv,
       VersionsInv, PageInv
  <1> QED
    BY <1>1, <1>2, <1>3, <1>4, <1>5, <1>6, <1>7, <1>8, <1>9 DEF Next

\* The invariant of the shell holds in every behaviour of app.jsx's handlers,
\* loads and events, for any number of them: a flag that is set has an owner
\* that will clear it, a capability is in use or being opened, what is known of
\* a version never exceeds the server's, and the page is clean or about to be.
THEOREM ShellInvariance == Spec => []ShellInv
  BY InitShell, NextShell, PTL DEF Spec

\* The flag of a resource's unlock button, which submitProjectResourceUnlock()
\* clears only while its answer is wanted, is left set by a run that is over on
\* a resource page only if another action on resources has begun since or a
\* load that will clear it waits.
THEOREM UnlockInvariance == Spec => []UnlockInv
  <1>1. Init => UnlockInv
    BY DEF Init, UnlockInv, UnlockFits, Flags
  <1>2. ShellInv /\ UnlockInv /\ [Next]_vars => UnlockInv'
    BY NextUnlock
  <1> QED
    BY <1>1, <1>2, ShellInvariance, PTL DEF Spec

\* The flags that disable the page's buttons and the capabilities of previews
\* have one holder each, in every order of answers, failures and page changes:
\* outside five flags no two mutations that exclude each other run together;
\* of those five a run may be robbed, by the handlers named in Robbers only,
\* and whoever was not robbed is alone; no flag but the unlock button's is left
\* set by a run that is over, and no capability stays open that nobody will
\* release.
THEOREM HoldersKept == Spec => []OneHolderEach
  <1>1. ShellInv /\ UnlockInv => OneHolderEach
    <2> SUFFICES ASSUME ShellInv, UnlockInv
                 PROVE  OneHolderEach
      OBVIOUS
    <2>1. FlagsFit(task, busy, cur, robbed) /\ CapsFit(task, cur, cap, caps)
      BY InvParts
    <2>2. Exclusive
      <3>1. ASSUME NEW f \in Flags \ {"none"},
                   NEW S \in SUBSET Holders(f), S \subseteq {busy[f]}
            PROVE  Cardinality(S) <= 1
        <4>1. IsFiniteSet({busy[f]}) /\ Cardinality({busy[f]}) = 1
          BY FS_Singleton
        <4> QED
          BY <3>1, <4>1, FS_Subset
      <3>2. \A f \in Flags \ ({"none"} \cup Contested) : Holders(f) \subseteq {busy[f]}
        BY <2>1 DEF Holders, Running, FlagsFit, HoldsIt
      <3>3. \A f \in Flags \ {"none"} : Holders(f) \ Robbed \subseteq {busy[f]}
        BY <2>1 DEF Holders, Running, FlagsFit, HoldsIt, Robbed
      <3>4. Contested \subseteq Flags \ {"none"}
        BY ContestedFlags DEF Flags
      <3>5. \A r \in robbed : r[2] \in Robbers
        BY <2>1 DEF FlagsFit
      <3> QED
        BY <3>1, <3>2, <3>3, <3>4, <3>5 DEF Exclusive
    <2>3. FlagsHaveHolders
      <3>1. \A f \in Flags \ {"none", "unlock"} : busy[f] # None => Running(busy[f])
        BY <2>1 DEF FlagsFit, Owned, Running
      <3>2. busy["unlock"] # None => Running(busy["unlock"]) \/ UnlockLeftSet
        BY Names DEF UnlockInv, UnlockFits, UnlockLeftSet, Running
      <3> QED
        BY <3>1, <3>2 DEF FlagsHaveHolders
    <2>4. NoCapabilityLeaks
      BY <2>1, Names DEF NoCapabilityLeaks, CapsFit, Running
    <2> QED
      BY <2>2, <2>3, <2>4 DEF OneHolderEach
  <1> QED
    BY <1>1, ShellInvariance, UnlockInvariance, PTL

\* What a page with a key in its path shows is of that key, the post and the
\* schedule aside, unless the load that will reset it waits for the
\* cancellation of a draft (loadRouteState()).
THEOREM PartsKept == Spec => []PartsOfRoute
  <1>1. ShellInv => PartsOfRoute
    <2> SUFFICES ASSUME ShellInv, route.page \in PathKeyed,
                        shown[PartsOf[route.page][1]].of = route.key,
                        \A l \in Loads : load[l].stage # "cancel",
                        NEW p \in (Parts \ Unchecked) \cap OnPage(route.page)
                 PROVE  shown[p].of \in {route.key, None}
      BY DEF PartsOfRoute, PageShowsItsKey
    <2>1. Clean(shown, route)
      BY InvParts DEF PageFits
    <2>2. CASE route.page = "resource"
      <3>1. p \in {"resource", "project", "files"}
        BY <2>2, PageParts DEF OnPage
      <3>2. shown["resource"].of = route.key
        BY <2>2 DEF PartsOf
      <3> QED
        BY <2>1, <2>2, <3>1, <3>2 DEF Clean
    <2>3. CASE route.page # "resource"
      BY <2>1, <2>3 DEF Clean
    <2> QED
      BY <2>2, <2>3
  <1> QED
    BY <1>1, ShellInvariance, PTL

\* Once a mutation has shown the item or its comments with its change, no slow
\* load shows an older version: showing the change gives up the loads that were
\* under way (workItemActionRef and requestRef).
THEOREM WritesKept == Spec => []WritesSurviveLoads
  <1>1. ShellInv => WritesSurviveLoads
    BY InvParts DEF VersionsFit, ShownFits, WritesSurviveLoads, Tracked
  <1> QED
    BY <1>1, ShellInvariance, PTL

=============================================================================
