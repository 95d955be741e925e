------------------------------ MODULE AppShell ------------------------------
(***************************************************************************)
(* The application shell of the web and desktop front ends, app-shell's    *)
(* app.jsx: a route, the data shown for it, and several dozen handlers     *)
(* that await the server while the user goes on working.  What keeps them  *)
(* apart are refs: a counter of page loads (requestRef), counters of       *)
(* actions (workItemActionRef and the like), flags of mutations under way, *)
(* and comparisons of the route after an await.                            *)
(*                                                                         *)
(* Every handler is a record that says where it can be started, which      *)
(* flags it needs and takes, how it decides that its answer is still       *)
(* wanted and how it frees its flag, with the awaits it makes; the actions *)
(* below run any of them.  The data of a page is split into parts, a part  *)
(* is known by its version, and the server counts versions up.  What a     *)
(* form contains, the wording and the layout are left out.                 *)
(***************************************************************************)
EXTENDS Naturals, Sequences, FiniteSets, Functions

CONSTANTS
    Keys,      \* what a page shows: item keys, project keys, page numbers
    TaskSeq,   \* runs of handlers, each used once, in this order
    Realtime,  \* refreshes the event stream may have under way together
    Loads,     \* page loads that may be under way together
    Scenarios  \* bounds: pages and handlers at work, how many starts, page
               \* loads, failures, events and changes made by other users

None == "none"
Tasks == Range(TaskSeq) \cup Realtime

-----------------------------------------------------------------------------
\* The pages and what they show.

\* The parts a load reads and replaces.  The first is the one without which
\* nothing of the page is rendered.
PartsOf ==
    [item     |-> <<"item", "post", "comments", "attachments", "link">>,
     project  |-> <<"project", "cycles", "schedule">>,
     library  |-> <<"project", "resources">>,
     resource |-> <<"resource", "project", "files">>,
     cycle    |-> <<"cycle", "project">>,
     projects |-> <<"projects">>,
     list     |-> <<"list">>,
     time     |-> <<"time">>,
     profile  |-> <<"profile", "tokens">>,
     messages |-> <<"messages">>,
     users    |-> <<"users">>,
     roles    |-> <<"roles">>,
     storage  |-> <<"storage">>,
     openapi  |-> <<"openapi">>,
     releases |-> <<"releases">>,
     stats    |-> <<"stats">>]
Pages == DOMAIN PartsOf
Routes == [page : Pages, key : Keys]
Parts == (UNION {Range(PartsOf[p]) : p \in Pages}) \cup {"reveal", "candidates"}

\* Pages whose key is in the pathname; elsewhere it is in the query string.
PathKeyed == {"item", "project", "library", "resource", "cycle"}
SamePath(r, s) == r.page = s.page /\ (r.page \in PathKeyed => r.key = s.key)

\* What a load of another pathname resets before it asks the server.
Reset(page) ==
    CASE page = "item" ->
           [groups |-> {"item", "attach"}, flags |-> {"item", "attach"},
            parts |-> Range(PartsOf.item) \cup {"reveal"}]
      [] page \in {"project", "library"} ->
           [groups |-> {"resource", "resourceFile"},
            flags |-> {"resourceFile", "members"},
            parts |-> {"project", "cycles", "resources", "files", "candidates"}]
      [] page = "time" ->
           [groups |-> {"resource"}, flags |-> {},
            parts |-> {"project", "resources"}]
      [] page = "resource" ->
           [groups |-> {"resource"}, flags |-> {"unlock"},
            parts |-> {"project", "resource"}]
      [] page = "cycle" ->
           [groups |-> {}, flags |-> {}, parts |-> {"cycle", "project"}]
      [] OTHER -> [groups |-> {}, flags |-> {}, parts |-> {}]

-----------------------------------------------------------------------------
\* The awaits of a handler.  `parts' are written or read at the server,
\* `shows' are put on the page when the answer comes, `bumps' makes page loads
\* under way obsolete.

Await(do, parts, shows, bumps) ==
    [do |-> do, parts |-> parts, shows |-> shows, bumps |-> bumps]
Pick == Await("pick", {}, {}, FALSE)
Host == Await("host", {}, {}, FALSE)
Write(parts, shows) == Await("write", parts, shows, FALSE)
WriteBumping(parts, shows) == Await("write", parts, shows, TRUE)
Read(parts) == Await("read", parts, parts, FALSE)
EnsureDraft == Await("draft", {}, {}, FALSE)
Refresh == Await("refresh", {}, {}, FALSE)

Groups == {"item", "attach", "resource", "resourceFile", "preview", "profile",
           "asset", "none"}
Flags == {"item", "attach", "resource", "resourceFile", "unlock", "project",
          "members", "projects", "account", "users", "roles", "storage",
          "openapi", "releases", "stats", "restore", "create", "paste",
          "batch", "switch", "messages", "none"}

\* on     the pages where it can be started
\* needs  the flags that must be free;  takes  the flag it sets
\* group  the counter whose new value is its action id
\* check  how it decides that an answer is wanted: "action" (route and id),
\*        "id", "route", "request" (route and no page load since) or "never"
\* frees  when its flag is cleared: "owner" (it still holds it), "live" (its
\*        id is the newest), "current" (the answer is wanted), "always"
\* lax    the flag is cleared whoever holds it until the file is chosen
\* late   the flag is taken only once the file is chosen
\* persists  an unwanted answer does not keep it from its next request
\* rereads   if its last but one request fails, the last is still made
\* salvages  if it fails, what earlier requests returned is shown
\* now    its last request is for the page that is open by then
\* ends   what follows: nothing, another handler, another page
Handler ==
    [on |-> {}, needs |-> {}, takes |-> "none", group |-> "none",
     check |-> "never", frees |-> "always", lax |-> FALSE, late |-> FALSE,
     persists |-> FALSE, rereads |-> FALSE, salvages |-> FALSE, now |-> FALSE, ends |-> None,
     script |-> <<>>]

-----------------------------------------------------------------------------
\* Work item detail page.

\* refreshWorkItemCompanionState(): the committed item is kept.
Companion == Read({"post", "comments"})

ItemMutation(script) ==
    [Handler EXCEPT !.on = {"item"}, !.needs = {"item", "attach"},
        !.takes = "item", !.group = "item", !.check = "action",
        !.frees = "owner", !.script = script]

submitWorkItemEdit ==
    [ItemMutation(<<Write({"item"}, {}),
                    WriteBumping({"post"}, {"item", "post"}), Companion>>)
        EXCEPT !.persists = TRUE, !.salvages = TRUE]
submitWorkItemHandoff ==
    ItemMutation(<<WriteBumping({"item"}, {"item"}), Companion>>)
confirmWorkItemLifecycleAction ==
    ItemMutation(<<WriteBumping({"item"}, {"item"}), Companion>>)
requestWorkItemResourceLibraryLink ==
    ItemMutation(<<Write({"link"}, {"link"})>>)

\* With and without the draft's attachments, and with the hand-off that
\* follows when the comment or the reply is posted and assigned.
submitWorkItemComment ==
    ItemMutation(<<WriteBumping({"comments"}, {"comments"}), Companion>>)
submitWorkItemCommentAssign ==
    [ItemMutation(<<WriteBumping({"comments"}, {"comments"}),
                    WriteBumping({"item"}, {"item"}), Companion>>)
        EXCEPT !.persists = TRUE]
submitWorkItemCommentReply ==
    ItemMutation(<<WriteBumping({"comments"}, {"comments"}), Companion>>)
submitWorkItemCommentReplyAssign == submitWorkItemCommentAssign
submitWorkItemCommentEdit ==
    ItemMutation(<<WriteBumping({"comments"}, {"comments"}), Companion>>)

\* The flag is set without an action id, and cleared whoever holds it.
cancelWorkItemCommentDraft ==
    [Handler EXCEPT !.on = {"item"}, !.needs = {"item", "attach"},
        !.takes = "item", !.script = <<Await("cancel", {}, {}, FALSE)>>]

AttachmentMutation(script) ==
    [Handler EXCEPT !.on = {"item"}, !.needs = {"item", "attach"},
        !.takes = "attach", !.group = "attach", !.check = "action",
        !.frees = "live", !.script = script]

confirmWorkItemCommentAttachmentDelete ==
    AttachmentMutation(<<Write({"attachments"}, {"attachments"})>>)

\* Choosing the file, uploadAttachment() up to the signature, the transfer
\* with its confirmation, and the list.
uploadSelectedWorkItemAttachment ==
    [AttachmentMutation(<<Pick, Write({"attachments"}, {"attachments"}),
                          WriteBumping({"attachments"}, {"attachments"}),
                          Read({"attachments"})>>)
        EXCEPT !.lax = TRUE, !.rereads = TRUE]
uploadSelectedWorkItemCommentAttachment ==
    [AttachmentMutation(<<Pick, EnsureDraft,
                          Write({"attachments"}, {"attachments"}),
                          WriteBumping({"attachments"}, {"attachments"}),
                          Read({"attachments"})>>)
        EXCEPT !.lax = TRUE, !.rereads = TRUE]

\* Pasting into an item without a primary post: a placeholder is saved first,
\* without a flag, and shown without a look at the route.
pasteWorkItemPrimaryPostFile ==
    [Handler EXCEPT !.on = {"item"}, !.needs = {"item", "attach"},
        !.script = <<Write({"post"}, {"post"})>>,
        !.ends = "uploadSelectedWorkItemAttachment"]

downloadWorkItemAttachment ==
    [Handler EXCEPT !.on = {"item"}, !.check = "route",
        !.script = <<[Host EXCEPT !.shows = {"reveal"}]>>]

\* Started by the event stream: the link is shown if its generation is the
\* one the read began with.
refreshWorkItemRealtimeState ==
    [Handler EXCEPT !.check = "route", !.script = <<Read(Range(PartsOf.item))>>]

\* The attachment previews of items, comments and resources.
openAttachmentPreview ==
    [Handler EXCEPT !.on = {"item", "resource"}, !.group = "preview",
        !.check = "action", !.script = <<Host>>]

-----------------------------------------------------------------------------
\* Projects, cycles, time and lists.

runProjectMutation ==
    [Handler EXCEPT !.on = {"project"}, !.needs = {"project"},
        !.takes = "project", !.check = "route", !.persists = TRUE,
        !.script = <<Write({"project"}, {}), Read({"project"})>>]
runCycleMutation(page, part) ==
    [Handler EXCEPT !.on = {page}, !.needs = {"project"},
        !.takes = "project", !.check = "route", !.persists = TRUE,
        !.script = <<Write({"cycles", "cycle"}, {}), Read({part})>>]
openProjectMemberDialog ==
    [Handler EXCEPT !.on = {"project"}, !.needs = {"project", "members"},
        !.takes = "members", !.check = "route", !.script = <<Read({"candidates"})>>]
submitProjectCreate ==
    [Handler EXCEPT !.on = {"projects"}, !.needs = {"projects"},
        !.takes = "projects",
        !.script = <<Write({"projects"}, {}), Read({"projects"})>>]

persistTime ==
    [Handler EXCEPT !.on = {"time"},
        !.script = <<Write({"time"}, {}), Read({"time"})>>]
persistTimeSave ==
    [Handler EXCEPT !.on = {"time"},
        !.script = <<Write({"time"}, {}), Write({"time"}, {}), Read({"time"})>>]
confirmTimeChangeRestore ==
    [Handler EXCEPT !.on = {"time"}, !.needs = {"restore"},
        !.takes = "restore",
        !.script = <<Write({"time"}, {}), Read({"time"}), Read({})>>]
persistProjectTime ==
    [Handler EXCEPT !.on = {"project"},
        !.script = <<Write({"schedule"}, {}), Read({"schedule"})>>]

\* A new work item, with the primary post when there is one to save.
submitWorkItemCreate ==
    [Handler EXCEPT !.on = {"list"}, !.needs = {"create", "paste"},
        !.takes = "create", !.ends = "item",
        !.script = <<Write({"list", "item"}, {}), Write({"post"}, {})>>]
pasteWorkItemCreateFile ==
    [Handler EXCEPT !.on = {"list"}, !.needs = {"create", "paste"},
        !.takes = "paste",
        !.script = <<Pick, Write({"list", "item"}, {}), Write({"post"}, {}),
                     Write({"attachments"}, {}), Write({"post"}, {})>>]
confirmWorkItemBatchUpdate ==
    [Handler EXCEPT !.on = {"list"}, !.needs = {"batch"}, !.takes = "batch",
        !.script = <<Write({"list", "item"}, {}), Refresh>>]

\* The load under way is given up at once; another follows the answer.
handleSetCurrentProject ==
    [Handler EXCEPT !.on = Pages, !.needs = {"switch"}, !.takes = "switch",
        !.script = <<Write({}, {})>>, !.ends = "project"]

\* createNotificationActionCoordinator() joins repeated calls.
handleMarkAllRead ==
    [Handler EXCEPT !.on = {"messages"}, !.needs = {"messages"},
        !.takes = "messages", !.script = <<Write({"messages"}, {}), Refresh>>]

-----------------------------------------------------------------------------
\* The resource library.

loadFilteredProjectResources ==
    [Handler EXCEPT !.on = {"library"}, !.group = "resource",
        !.check = "action", !.script = <<Read({"resources"})>>]
submitProjectResourceUnlock ==
    [Handler EXCEPT !.on = {"resource"}, !.needs = {"unlock"},
        !.takes = "unlock", !.group = "resource", !.check = "action",
        !.frees = "current", !.persists = TRUE,
        !.script = <<Await("read", {"resource"}, {}, FALSE),
                     Await("read", {"files"}, {"resource", "files"}, FALSE)>>]

ResourceMutation(page, script) ==
    [Handler EXCEPT !.on = {page}, !.needs = {"resource", "resourceFile"},
        !.takes = "resource", !.group = "resource", !.check = "action",
        !.frees = "owner", !.script = script]

\* Saving a resource deletes the attachments its text no longer names.
submitProjectResourceEdit ==
    ResourceMutation("resource", <<Write({"resource", "resources"}, {}),
                                   Write({"files"}, {"resource", "files"})>>)
submitProjectResourceCreate ==
    ResourceMutation("library", <<Write({"resources"}, {}),
                                  Read({"resources"})>>)
confirmProjectResourceArchive ==
    [ResourceMutation("resource", <<Write({"resource", "resources"}, {})>>)
        EXCEPT !.ends = "library"]
submitProjectResourcePasswordReset ==
    [ResourceMutation("resource", <<Write({"resource"}, {}),
        Await("read", {"files"}, {"resource", "files"}, FALSE)>>)
        EXCEPT !.persists = TRUE]
uploadSelectedProjectResourceAttachment ==
    [Handler EXCEPT !.on = {"resource"}, !.needs = {"resourceFile", "resource"},
        !.takes = "resourceFile", !.group = "resourceFile",
        !.check = "action", !.frees = "live",
        !.script = <<Pick, Write({"files"}, {"files"}),
                     Write({"files"}, {"files"}), Read({"files"})>>]

\* Pasting into a resource that is being written: it is created first.
pasteProjectResourceFile ==
    [Handler EXCEPT !.on = {"library"}, !.needs = {"resourceFile", "resource"},
        !.takes = "resourceFile", !.check = "route", !.persists = TRUE,
        !.script = <<Pick, Write({"resources", "resource"}, {}),
                     Write({"files"}, {})>>]

-----------------------------------------------------------------------------
\* The account and the administration.

submitProfile ==
    [Handler EXCEPT !.on = {"profile"}, !.group = "profile", !.check = "id",
        !.script = <<Write({"profile"}, {"profile"})>>]
runAccountSecurity ==
    [Handler EXCEPT !.on = {"profile"}, !.needs = {"account"},
        !.takes = "account",
        !.script = <<Write({"tokens"}, {}), Read({"tokens"})>>]

\* The view is read again whether or not the request succeeded.
SystemMutation(page) ==
    [Handler EXCEPT !.on = {page}, !.needs = {page}, !.takes = page,
        !.check = "route", !.persists = TRUE, !.rereads = TRUE, !.now = TRUE,
        !.script = <<Write({page}, {}), Read({page})>>]
runSystemUserMutation == SystemMutation("users")
runSystemRoleMutation == [SystemMutation("roles") EXCEPT !.rereads = FALSE]
runSystemStorageMutation == SystemMutation("storage")
runSystemApiTokenMutation == SystemMutation("openapi")
runSystemReleaseMutation == SystemMutation("releases")

\* The flag is looked at before the file is chosen, and set after it.
uploadSelectedSystemReleaseAsset ==
    [SystemMutation("releases") EXCEPT !.group = "asset", !.check = "action",
        !.frees = "live", !.late = TRUE, !.persists = FALSE,
        !.script = <<Pick, Write({"releases"}, {}), Write({"releases"}, {}),
                     Read({"releases"})>>]
refreshSystemDatabaseStats ==
    [Handler EXCEPT !.on = {"stats"}, !.needs = {"stats"}, !.takes = "stats",
        !.check = "request", !.script = <<Read({"stats"})>>]

Handlers ==
    [submitWorkItemEdit |-> submitWorkItemEdit,
     submitWorkItemHandoff |-> submitWorkItemHandoff,
     confirmWorkItemLifecycleAction |-> confirmWorkItemLifecycleAction,
     requestWorkItemResourceLibraryLink |-> requestWorkItemResourceLibraryLink,
     submitWorkItemComment |-> submitWorkItemComment,
     submitWorkItemCommentAssign |-> submitWorkItemCommentAssign,
     submitWorkItemCommentReply |-> submitWorkItemCommentReply,
     submitWorkItemCommentReplyAssign |-> submitWorkItemCommentReplyAssign,
     submitWorkItemCommentEdit |-> submitWorkItemCommentEdit,
     cancelWorkItemCommentDraft |-> cancelWorkItemCommentDraft,
     confirmWorkItemCommentAttachmentDelete |-> confirmWorkItemCommentAttachmentDelete,
     uploadSelectedWorkItemAttachment |-> uploadSelectedWorkItemAttachment,
     uploadSelectedWorkItemCommentAttachment |-> uploadSelectedWorkItemCommentAttachment,
     pasteWorkItemPrimaryPostFile |-> pasteWorkItemPrimaryPostFile,
     downloadWorkItemAttachment |-> downloadWorkItemAttachment,
     refreshWorkItemRealtimeState |-> refreshWorkItemRealtimeState,
     openAttachmentPreview |-> openAttachmentPreview,
     runProjectMutation |-> runProjectMutation,
     submitProjectCycle |-> runCycleMutation("project", "cycles"),
     confirmProjectCycleClose |-> runCycleMutation("cycle", "cycle"),
     openProjectMemberDialog |-> openProjectMemberDialog,
     submitProjectCreate |-> submitProjectCreate,
     persistTime |-> persistTime,
     persistTimeSave |-> persistTimeSave,
     confirmTimeChangeRestore |-> confirmTimeChangeRestore,
     persistProjectTime |-> persistProjectTime,
     submitWorkItemCreate |-> submitWorkItemCreate,
     pasteWorkItemCreateFile |-> pasteWorkItemCreateFile,
     confirmWorkItemBatchUpdate |-> confirmWorkItemBatchUpdate,
     handleSetCurrentProject |-> handleSetCurrentProject,
     handleMarkAllRead |-> handleMarkAllRead,
     loadFilteredProjectResources |-> loadFilteredProjectResources,
     submitProjectResourceUnlock |-> submitProjectResourceUnlock,
     submitProjectResourceEdit |-> submitProjectResourceEdit,
     submitProjectResourceCreate |-> submitProjectResourceCreate,
     confirmProjectResourceArchive |-> confirmProjectResourceArchive,
     submitProjectResourcePasswordReset |-> submitProjectResourcePasswordReset,
     uploadSelectedProjectResourceAttachment |-> uploadSelectedProjectResourceAttachment,
     pasteProjectResourceFile |-> pasteProjectResourceFile,
     submitProfile |-> submitProfile,
     runAccountSecurity |-> runAccountSecurity,
     runSystemUserMutation |-> runSystemUserMutation,
     runSystemRoleMutation |-> runSystemRoleMutation,
     runSystemStorageMutation |-> runSystemStorageMutation,
     runSystemApiTokenMutation |-> runSystemApiTokenMutation,
     runSystemReleaseMutation |-> runSystemReleaseMutation,
     uploadSelectedSystemReleaseAsset |-> uploadSelectedSystemReleaseAsset,
     refreshSystemDatabaseStats |-> refreshSystemDatabaseStats]
HandlerNames == DOMAIN Handlers

-----------------------------------------------------------------------------

VARIABLES
    route,   \* the open page
    server,  \* versions of the parts at the server
    shown,   \* the parts in the shell's state: of which key, which version,
             \* put there by a page load, the event stream or another run;
             \* history: the last version a run wrote itself and showed
    spin,    \* loading and refreshing
    load,    \* the loads under way; `live': requestRef is still theirs
    task,    \* the runs of handlers
    busy,    \* the flags: who set them last
    cur,     \* the counters of actions: whose id is the newest
    draft,   \* workItemCommentDraftRef
    drafts,  \* the comment drafts at the server
    cap,     \* the preview's capability
    caps,    \* the capabilities the host keeps open
    event,   \* the event stream: [due: an event is on its way,
             \*   by: the refresh under way, again: another is to follow]
    retry,   \* workItemPrimaryPostRetryRef: the item saved without its post
    robbed,  \* history: a run, and the handler that cleared or took over the
             \* flag the run held
    left     \* what is left of the scenario's bounds

vars == <<route, server, shown, spin, load, task, busy, cur, draft, drafts,
          cap, caps, event, retry, robbed, left>>

Nowhere == [page |-> None, key |-> None]
NoDraft == [key |-> None, id |-> None]
NoPart == [of |-> None, ver |-> 0, by |-> None, own |-> 0]
NoGot == [p \in Parts |-> 0]
NoLoad == [stage |-> "idle", to |-> Nowhere, mode |-> "load", live |-> FALSE,
           id |-> None, by |-> None, got |-> NoGot]
NoTask == [h |-> None, at |-> Nowhere, pc |-> 0, served |-> FALSE,
           took |-> FALSE, holds |-> FALSE, fresh |-> FALSE, id |-> None,
           got |-> NoGot]
DoneTask == [NoTask EXCEPT !.h = "done"]
Running(t) == task[t].h \in HandlerNames

TypeOK ==
    /\ route \in Routes
    /\ server \in [Keys -> [Parts -> Nat]]
    /\ shown \in [Parts -> [of : Keys \cup {None}, ver : Nat,
                           by : {None, "load", "event", "run"}, own : Nat]]
    /\ spin \in [loading : BOOLEAN, refreshing : BOOLEAN]
    /\ \A l \in Loads :
         load[l] \in [stage : {"idle", "cancel", "sent", "read"},
                      to : Routes \cup {Nowhere}, mode : {"load", "refresh"},
                      live : BOOLEAN, id : Tasks \cup {None},
                      by : Tasks \cup {None}, got : [Parts -> Nat]]
    /\ \A t \in Tasks :
         task[t] \in [h : HandlerNames \cup {None, "done"},
                      at : Routes \cup {Nowhere}, pc : 0 .. 5, served : BOOLEAN,
                      took : BOOLEAN, holds : BOOLEAN, fresh : BOOLEAN,
                      id : Tasks \cup {None}, got : [Parts -> Nat]]
    /\ busy \in [Flags -> Tasks \cup {None}]
    /\ cur \in [Groups -> Tasks \cup {None}]
    /\ draft \in [key : Keys \cup {None}, id : Tasks \cup {None}]
    /\ drafts \subseteq Tasks /\ caps \subseteq Tasks
    /\ cap \in Tasks \cup {None}
    /\ event \in [due : BOOLEAN, by : Tasks \cup {None}, again : BOOLEAN]
    /\ retry \in Keys \cup {None}
    /\ robbed \subseteq (Tasks \X HandlerNames)

ASSUME ShellAssumption ==
    /\ TaskSeq \in Seq(Range(TaskSeq)) /\ IsInjective(TaskSeq)
    /\ Range(TaskSeq) \cap Realtime = {}
    /\ Keys # {} /\ Loads # {} /\ None \notin Tasks \cup Keys
    /\ Scenarios \subseteq
         [pages : (SUBSET Pages) \ {{}}, handlers : SUBSET HandlerNames,
          tasks : 0 .. Len(TaskSeq), loads : Nat, faults : Nat, others : Nat,
          events : Nat]

\* The shell starts with the load of a page of the scenario.
Init ==
    /\ left \in Scenarios
    /\ route \in [page : left.pages, key : {CHOOSE k \in Keys : TRUE}]
    /\ server = [k \in Keys |-> [p \in Parts |-> 1]]
    /\ shown = [p \in Parts |-> NoPart]
    /\ spin = [loading |-> TRUE, refreshing |-> FALSE]
    /\ load = [[l \in Loads |-> NoLoad] EXCEPT ![CHOOSE l \in Loads : TRUE] =
                 [NoLoad EXCEPT !.stage = "sent", !.to = route, !.live = TRUE]]
    /\ task = [t \in Tasks |-> NoTask]
    /\ busy = [f \in Flags |-> None] /\ cur = [g \in Groups |-> None]
    /\ draft = NoDraft /\ drafts = {} /\ cap = None /\ caps = {}
    /\ event = [due |-> FALSE, by |-> None, again |-> FALSE]
    /\ retry = None /\ robbed = {}

Fault == left.faults > 0 /\ left' = [left EXCEPT !.faults = @ - 1]

-----------------------------------------------------------------------------
\* Page loads.

\* requestRef moves on: the loads under way and a run that compares it lose
\* interest.
Bumped(L) == [l \in Loads |-> [L[l] EXCEPT !.live = FALSE]]
RequestMoved(T) ==
    [t \in Tasks |-> IF T[t].h \in HandlerNames /\ Handlers[T[t].h].check = "request"
                     THEN [T[t] EXCEPT !.fresh = FALSE] ELSE T[t]]

\* workItemResourceLibraryLinkGenerationRef moves on.
LinkMoved(T) ==
    [t \in Tasks |-> IF T[t].h = "refreshWorkItemRealtimeState"
                     THEN [T[t] EXCEPT !.fresh = FALSE] ELSE T[t]]

\* The resets of a load to another pathname, given what the step has already
\* made of the loads, the runs and the flags.
Resets(l, to, T, B) ==
    LET z == Reset(to.page)
        U == IF to.page = "item" THEN LinkMoved(T) ELSE T
    IN  /\ spin' = [spin EXCEPT !.loading = TRUE]
        /\ shown' = [p \in Parts |-> IF p \in z.parts THEN NoPart ELSE shown[p]]
        /\ busy' = [f \in Flags |-> IF f \in z.flags THEN None ELSE B[f]]
        /\ cur' = [g \in Groups |->
                     IF g \in z.groups \cup {"preview"} THEN None ELSE cur[g]]
        /\ task' = [t \in Tasks |->
                     IF T[t].h \in HandlerNames /\ Handlers[T[t].h].takes \in z.flags
                     THEN [U[t] EXCEPT !.holds = FALSE] ELSE U[t]]
        /\ cap' = None /\ caps' = caps \ {cap}

\* loadRouteState(): a draft of another item is cancelled before anything else.
StartLoad(to, mode, by, T, B) ==
    /\ left.loads > 0 /\ left' = [left EXCEPT !.loads = @ - 1]
    /\ \E l \in Loads :
         /\ load[l].stage = "idle"
         /\ l = CHOOSE m \in Loads : load[m].stage = "idle"
         /\ LET U == RequestMoved(T)
                foreign == /\ mode = "load" /\ draft # NoDraft
                           /\ ~(to.page = "item" /\ draft.key = to.key)
                new(stage) == [Bumped(load) EXCEPT ![l] =
                    [NoLoad EXCEPT !.stage = stage, !.to = to, !.mode = mode,
                        !.live = TRUE, !.by = by,
                        !.id = IF stage = "cancel" THEN draft.id ELSE None]]
            IN  \/ /\ foreign
                   /\ load' = new("cancel") /\ task' = U /\ busy' = B
                   /\ UNCHANGED <<spin, shown, cur, cap, caps>>
                \/ /\ ~foreign /\ mode = "load"
                   /\ load' = new("sent") /\ Resets(l, to, U, B)
                \/ /\ mode = "refresh"
                   /\ load' = new("sent") /\ task' = U /\ busy' = B
                   /\ spin' = [spin EXCEPT !.refreshing = TRUE]
                   /\ UNCHANGED <<shown, cur, cap, caps>>

\* The draft's cancellation is answered: the load goes on even if another has
\* begun since.  A failure is reported, and the draft kept in mind.
DraftCancelled(l) ==
    /\ load[l].stage = "cancel"
    /\ load' = [load EXCEPT ![l] = [@ EXCEPT !.stage = "sent", !.id = None]]
    /\ \/ /\ drafts' = drafts \ {load[l].id}
          /\ draft' = IF draft.id = load[l].id THEN NoDraft ELSE draft
          /\ UNCHANGED left
       \/ /\ Fault /\ drafts' \in {drafts, drafts \ {load[l].id}}
          /\ UNCHANGED draft
    /\ Resets(l, load[l].to, task, busy)
    /\ UNCHANGED <<route, server, event, retry, robbed>>

\* The server reads the page's parts.
LoadServed(l) ==
    /\ load[l].stage = "sent"
    /\ load' = [load EXCEPT ![l] = [@ EXCEPT !.stage = "read", !.got =
         [p \in Parts |-> IF p \in Range(PartsOf[load[l].to.page])
                          THEN server[load[l].to.key][p] ELSE 0]]]
    /\ UNCHANGED <<route, server, shown, spin, task, busy, cur, draft, drafts,
                   cap, caps, event, retry, robbed, left>>

Own(p, k) == IF shown[p].of = k THEN shown[p].own ELSE 0

Wanted(l) == load[l].live

\* Its answer is shown, and the page no longer loading, if it is the newest.
LoadAnswered(l) ==
    /\ load[l].stage = "read"
    /\ load' = [load EXCEPT ![l] = NoLoad]
    /\ IF Wanted(l)
       THEN /\ shown' = [p \in Parts |->
                 IF p \in Range(PartsOf[load[l].to.page])
                 THEN [of |-> load[l].to.key, ver |-> load[l].got[p], by |-> "load",
                       own |-> Own(p, load[l].to.key)]
                 ELSE shown[p]]
            /\ spin' = [loading |-> FALSE, refreshing |-> FALSE]
       ELSE UNCHANGED <<shown, spin>>
    /\ UNCHANGED <<route, server, task, busy, cur, draft, drafts, cap, caps,
                   event, retry, robbed, left>>

LoadFailed(l) ==
    /\ load[l].stage \in {"sent", "read"} /\ Fault
    /\ load' = [load EXCEPT ![l] = NoLoad]
    /\ spin' = IF Wanted(l) THEN [loading |-> FALSE, refreshing |-> FALSE]
               ELSE spin
    /\ UNCHANGED <<route, server, shown, task, busy, cur, draft, drafts, cap,
                   caps, event, retry, robbed>>

\* navigate() and the browser's history, with the effects of a new route: the
\* load, and another subscription to the item's events.
GoTo(r, T, B) ==
    /\ route' = r
    /\ event' = IF r = route THEN event
                ELSE [due |-> FALSE, by |-> None, again |-> FALSE]
    /\ StartLoad(r, IF SamePath(r, route) THEN "refresh" ELSE "load", None, T, B)

Navigate ==
    /\ \E r \in [page : left.pages, key : Keys] :
         r # route /\ GoTo(r, task, busy)
    /\ UNCHANGED <<server, draft, drafts, retry, robbed>>

\* The retry button, and the events that ask for a new look at the page.
RefreshPage ==
    /\ StartLoad(route, "refresh", None, task, busy)
    /\ UNCHANGED <<route, server, draft, drafts, event, retry, robbed>>

-----------------------------------------------------------------------------
\* Runs of handlers.

Script(t) == Handlers[task[t].h].script
StepOf(t) == Script(t)[task[t].pc]
AtLast(t) == task[t].pc = Len(Script(t))

Here(t) ==
    LET h == Handlers[task[t].h] IN
    IF h.now /\ ~AtLast(t) THEN route.page = task[t].at.page
    ELSE route = task[t].at

\* isCurrent(), isCurrentWorkItemDetailRoute() and their like.
Current(t) ==
    LET h == Handlers[task[t].h]
        newest == cur[h.group] = t
    IN  CASE h.check = "never" -> TRUE
          [] h.check = "route" -> Here(t)
          [] h.check = "id" -> newest
          [] h.check = "action" -> Here(t) /\ newest
          [] OTHER -> Here(t) /\ task[t].fresh

\* Handlers start from what the page shows.
Rendered ==
    LET of == shown[PartsOf[route.page][1]].of IN
    IF route.page \in {"item", "project", "library"} THEN of = route.key
    ELSE of # None

UsesDraft == {"submitWorkItemComment", "submitWorkItemCommentAssign",
              "cancelWorkItemCommentDraft"}

\* A mistake a property below refuses: a flag that is set does not matter.
FlagsIgnored(h) == TRUE

FlagsFree(h) == \A f \in Handlers[h].needs : busy[f] = None

\* A run begins, at place r: flag, action id, first request.
Started(t, h, r) ==
    [NoTask EXCEPT !.h = h, !.at = r, !.pc = 1, !.fresh = TRUE,
        !.took = ~Handlers[h].late, !.holds = ~Handlers[h].late,
        !.id = IF h \in UsesDraft /\ (draft.key = r.key \/ h = "cancelWorkItemCommentDraft")
               THEN draft.id ELSE None]

Takes(B, t, h) ==
    IF Handlers[h].takes = "none" \/ Handlers[h].late THEN B
    ELSE [B EXCEPT ![Handlers[h].takes] = t]
Counts(t, h) ==
    IF Handlers[h].group = "none" \/ Handlers[h].late THEN cur
    ELSE [cur EXCEPT ![Handlers[h].group] = t]

Begin(h) ==
    /\ left.tasks > 0 /\ left' = [left EXCEPT !.tasks = @ - 1]
    /\ h \in left.handlers /\ route.page \in Handlers[h].on /\ Rendered
    /\ FlagsFree(h)
    /\ h = "cancelWorkItemCommentDraft" => draft # NoDraft
    /\ LET t == TaskSeq[Len(TaskSeq) - left.tasks + 1]
           x == Started(t, h, route)
           switch == h = "handleSetCurrentProject"
           saved == [x EXCEPT !.pc = 2,
                              !.got = [@ EXCEPT !["item"] = shown["item"].ver]]
       IN  \E y \in {x} \cup
             (IF h = "submitWorkItemEdit" /\ retry = route.key THEN {saved} ELSE {}) :
             LET new == [task EXCEPT ![t] = y] IN
             /\ task' = IF switch THEN RequestMoved(new)
                        ELSE IF h = "requestWorkItemResourceLibraryLink"
                        THEN LinkMoved(new) ELSE new
             /\ load' = IF switch THEN Bumped(load) ELSE load
             /\ busy' = Takes(busy, t, h) /\ cur' = Counts(t, h)
    /\ IF h = "openAttachmentPreview"
       THEN caps' = caps \ {cap} /\ cap' = None
       ELSE UNCHANGED <<cap, caps>>
    /\ UNCHANGED <<route, server, shown, spin, draft, drafts, event, retry,
                   robbed>>

\* The server or the host does what a run asked for.
Served(t) ==
    LET x == task[t]
        step == StepOf(t)
    IN  /\ Running(t) /\ ~x.served /\ step.do \notin {"pick", "refresh"}
        /\ server' = IF step.do # "write" THEN server ELSE
             [server EXCEPT ![x.at.key] = [p \in Parts |->
                IF p \in step.parts THEN @[p] + 1 ELSE @[p]]]
        /\ event' = [event EXCEPT !.due = @ \/
             /\ left.events > 0 /\ step.do = "write" /\ route = [page |-> "item", key |-> x.at.key]
             /\ step.parts \cap Range(PartsOf.item) # {}]
        /\ LET retained == draft.key = x.at.key IN
           /\ drafts' = IF step.do = "draft"
                        THEN IF retained THEN drafts
                             ELSE (drafts \ {draft.id}) \cup {t}
                        ELSE IF x.h \in UsesDraft THEN drafts \ {x.id} ELSE drafts
           /\ task' = [task EXCEPT ![t] = [x EXCEPT !.served = TRUE,
                !.id = IF step.do # "draft" THEN @
                       ELSE IF retained THEN draft.id ELSE t,
                !.got = [p \in Parts |-> IF p \in step.parts
                         THEN server'[x.at.key][p] ELSE @[p]]]]
        /\ caps' = IF x.h = "openAttachmentPreview" THEN caps \cup {t} ELSE caps
        /\ UNCHANGED <<route, shown, spin, load, busy, cur, draft, cap, retry,
                       robbed, left>>

\* A mistake a property below refuses: only a run whose answer is wanted clears
\* its flag.
FreesWhenWanted(t, lax) ==
    task[t].took /\ Handlers[task[t].h].takes # "none" /\ Current(t)

\* The finally clauses.
FreesFlag(t, lax) ==
    LET h == Handlers[task[t].h] IN
    /\ task[t].took /\ h.takes # "none"
    /\ \/ lax /\ h.lax
       \/ h.frees = "always"
       \/ h.frees = "owner" /\ busy[h.takes] = t
       \/ h.frees = "live" /\ cur[h.group] = t
       \/ h.frees = "current" /\ Current(t)
BusyAfter(t, lax) ==
    IF FreesFlag(t, lax) THEN [busy EXCEPT ![Handlers[task[t].h].takes] = None]
    ELSE busy
RobbedAfter(t, lax) ==
    LET f == Handlers[task[t].h].takes IN
    IF FreesFlag(t, lax) /\ busy[f] \notin {t, None}
    THEN robbed \cup {<<busy[f], task[t].h>>} ELSE robbed

\* A run ends.  One that the event stream began is followed by another if an
\* event came meanwhile.
Ends(t, lax, T) ==
    LET again == event.by = t /\ event.again IN
    /\ task' = [T EXCEPT ![t] =
         IF again THEN Started(t, task[t].h, task[t].at)
         ELSE IF t \in Realtime THEN NoTask ELSE DoneTask]
    /\ busy' = BusyAfter(t, lax) /\ robbed' = RobbedAfter(t, lax)
    /\ event' = IF event.by # t THEN event
                ELSE [event EXCEPT !.by = IF again THEN t ELSE None,
                                   !.again = FALSE]

\* The next request, for the page of the run or for the one open by now.
GoesOn(t, pc, T) ==
    LET h == Handlers[task[t].h]
        at == IF h.now /\ pc = Len(h.script) THEN route ELSE task[t].at
    IN  IF at.page \in h.on \cup {"item"}
        THEN /\ task' = [T EXCEPT ![t] = [@ EXCEPT !.pc = pc, !.served = FALSE,
                                                   !.at = at]]
             /\ UNCHANGED <<busy, event, robbed>>
        ELSE Ends(t, FALSE, T)

\* A file is chosen, and the run still wanted; or it is not, and it ends.
Chosen(t) ==
    LET h == Handlers[task[t].h] IN
    /\ Running(t) /\ StepOf(t).do = "pick"
    /\ Current(t) \/ h.persists \/ h.late
    /\ task' = [task EXCEPT ![t] = [@ EXCEPT !.pc = 2, !.took = TRUE,
                                            !.holds = task[t].holds \/ h.late]]
    /\ busy' = IF h.late THEN [busy EXCEPT ![h.takes] = t] ELSE busy
    /\ robbed' = IF h.late /\ busy[h.takes] # None
                 THEN robbed \cup {<<busy[h.takes], task[t].h>>} ELSE robbed
    /\ cur' = IF h.late THEN [cur EXCEPT ![h.group] = t] ELSE cur
    /\ UNCHANGED <<route, server, shown, spin, load, draft, drafts, cap, caps,
                   event, retry, left>>

NotChosen(t) ==
    /\ Running(t) /\ StepOf(t).do = "pick"
    /\ Ends(t, TRUE, task)
    /\ UNCHANGED <<route, server, shown, spin, load, cur, draft, drafts, cap,
                   caps, retry, left>>

\* A mistake a property below refuses: answers are shown wherever the user is.
ShowsAnywhere(t) == StepOf(t).shows

\* What the answer puts on the page.
Shows(t) ==
    {p \in StepOf(t).shows :
        /\ Current(t)
        /\ p = "post" /\ "item" \notin StepOf(t).shows => shown["item"] # NoPart
        /\ p = "link" /\ task[t].h = "refreshWorkItemRealtimeState" => task[t].fresh}

Show(S, t) ==
    LET by == IF t \in Realtime THEN "event" ELSE "run" IN
    [p \in Parts |-> IF p \notin S THEN shown[p]
         ELSE [of |-> task[t].at.key, ver |-> task[t].got[p], by |-> by,
               own |-> IF StepOf(t).do = "write" THEN task[t].got[p]
                       ELSE Own(p, task[t].at.key)]]

\* A mistake a property below refuses: loads under way are not given up.
NeverBumps(t) == FALSE

Bumps(t) == StepOf(t).bumps /\ Current(t)

\* requestRef += 1 and setRefreshing(false).
MoveRequest(yes) ==
    /\ load' = IF yes THEN Bumped(load) ELSE load
    /\ spin' = IF yes THEN [spin EXCEPT !.refreshing = FALSE] ELSE spin

\* The answer to a request arrives.
Answered(t) ==
    LET x == task[t]
        h == Handlers[x.h]
        T == IF Bumps(t) THEN RequestMoved(task)
             ELSE IF x.h = "requestWorkItemResourceLibraryLink" /\ Current(t)
             THEN LinkMoved(task) ELSE task
    IN  /\ Running(t) /\ x.served /\ StepOf(t).do \notin {"pick", "refresh"}
        /\ AtLast(t) => h.ends \notin Pages
        /\ shown' = Show(Shows(t), t)
        /\ MoveRequest(Bumps(t))
        /\ draft' = IF StepOf(t).do = "draft" THEN [key |-> x.at.key, id |-> x.id]
                    ELSE IF x.h \in UsesDraft /\ x.id # None /\ draft.id = x.id
                    THEN NoDraft ELSE draft
        /\ retry' = IF x.h = "submitWorkItemEdit" /\ x.pc = 2 THEN None ELSE retry
        /\ IF x.h # "openAttachmentPreview" THEN UNCHANGED <<cap, caps>>
           ELSE IF Current(t) THEN cap' = t /\ UNCHANGED caps
           ELSE caps' = caps \ {t} /\ UNCHANGED cap
        /\ IF ~AtLast(t) /\ (Current(t) \/ h.persists)
           THEN GoesOn(t, x.pc + 1, T) /\ UNCHANGED cur
           ELSE IF h.ends \in HandlerNames /\ FlagsFree(h.ends)
           THEN /\ task' = [T EXCEPT ![t] = Started(t, h.ends, x.at)]
                /\ busy' = Takes(busy, t, h.ends) /\ cur' = Counts(t, h.ends)
                /\ UNCHANGED <<event, robbed>>
           ELSE Ends(t, FALSE, T) /\ UNCHANGED cur
        /\ UNCHANGED <<route, server, drafts, left>>

\* The last answer of a run that opens another page: the new item, the library
\* of an archived resource, what is open for another project.
Departs(t) ==
    LET x == task[t]
        h == Handlers[x.h]
        target == IF h.ends # "project" THEN h.ends
                  ELSE CASE route.page = "list" -> "list"
                         [] route.page \in {"library", "resource"} -> "library"
                         [] route.page \in {"project", "cycle"} -> "project"
                         [] OTHER -> None
        T == [task EXCEPT ![t] = DoneTask]
    IN  /\ Running(t) /\ x.served /\ AtLast(t) /\ h.ends \in Pages
        /\ robbed' = RobbedAfter(t, FALSE)
        /\ \/ /\ Current(t) /\ target # None
              /\ \E k \in IF h.ends = "library" THEN {x.at.key} ELSE Keys :
                   GoTo([page |-> target, key |-> k], T, BusyAfter(t, FALSE))
           \/ /\ Current(t) /\ target = None
              /\ StartLoad(route, "refresh", None, T, BusyAfter(t, FALSE))
              /\ UNCHANGED <<route, event>>
           \/ /\ ~Current(t)
              /\ task' = T /\ busy' = BusyAfter(t, FALSE)
              /\ UNCHANGED <<route, event, load, spin, shown, cur, cap, caps, left>>
        /\ UNCHANGED <<server, draft, drafts, retry>>

\* A request fails, before or after the server acted on it.
Failed(t) ==
    LET x == task[t]
        h == Handlers[x.h]
        step == StepOf(t)
        salvage == h.salvages /\ x.pc = 2 /\ Current(t)
        reread == /\ h.rereads /\ x.pc + 1 = Len(h.script)
                  /\ h.now \/ Current(t)
    IN  /\ Running(t) /\ step.do \notin {"pick", "refresh"} /\ Fault
        /\ step.do = "host" => ~x.served
        /\ shown' = IF salvage THEN Show({"item"}, t) ELSE shown
        /\ load' = IF salvage THEN Bumped(load) ELSE load
        /\ retry' = IF salvage THEN x.at.key ELSE retry
        /\ IF reread
           THEN GoesOn(t, x.pc + 1, task)
           ELSE Ends(t, step.do = "draft", IF salvage THEN RequestMoved(task) ELSE task)
        /\ UNCHANGED <<route, server, spin, cur, draft, drafts, cap, caps>>

\* The refresh some runs wait for.
RefreshBegins(t) ==
    /\ Running(t) /\ StepOf(t).do = "refresh" /\ ~task[t].served
    /\ StartLoad(route, "refresh", t, [task EXCEPT ![t] = [@ EXCEPT !.served = TRUE]], busy)
    /\ UNCHANGED <<route, server, draft, drafts, event, retry, robbed>>

RefreshEnds(t) ==
    /\ Running(t) /\ StepOf(t).do = "refresh" /\ task[t].served
    /\ \A l \in Loads : load[l].by # t
    /\ Ends(t, FALSE, task)
    /\ UNCHANGED <<route, server, shown, spin, load, cur, draft, drafts, cap,
                   caps, retry, left>>

-----------------------------------------------------------------------------
\* The event stream and other users.

\* createWorkItemEventCoordinator(): events that come during a refresh are
\* followed by one more.
EventArrives ==
    /\ event.due /\ route.page = "item"
    /\ left.events > 0 /\ left' = [left EXCEPT !.events = @ - 1]
    /\ \/ /\ event.by # None
          /\ event' = [event EXCEPT !.due = FALSE, !.again = TRUE]
          /\ UNCHANGED task
       \/ /\ event.by = None
          /\ \E t \in Realtime :
               /\ task[t] = NoTask
               /\ t = CHOOSE u \in Realtime : task[u] = NoTask
               /\ task' = [task EXCEPT ![t] =
                    Started(t, "refreshWorkItemRealtimeState", route)]
               /\ event' = [event EXCEPT !.due = FALSE, !.by = t]
    /\ UNCHANGED <<route, server, shown, spin, load, busy, cur, draft, drafts,
                   cap, caps, retry, robbed>>

OthersWrite ==
    /\ left.others > 0 /\ left' = [left EXCEPT !.others = @ - 1]
    /\ \E p \in Range(PartsOf[route.page]) :
         /\ server' = [server EXCEPT ![route.key] =
                          [@ EXCEPT ![p] = server[route.key][p] + 1]]
         /\ event' = [event EXCEPT !.due = @ \/ (left.events > 0 /\ route.page = "item")]
    /\ UNCHANGED <<route, shown, spin, load, task, busy, cur, draft, drafts,
                   cap, caps, retry, robbed>>

\* A mistake a property below refuses: the capability is forgotten, not released.
ForgetsPreview ==
    /\ cap # None
    /\ cap' = None
    /\ cur' = [cur EXCEPT !["preview"] = None]
    /\ UNCHANGED <<route, server, shown, spin, load, task, busy, draft, drafts,
                   caps, event, retry, robbed, left>>

\* The preview is closed.
releaseProjectAttachmentPreview ==
    /\ cap # None
    /\ caps' = caps \ {cap} /\ cap' = None
    /\ cur' = [cur EXCEPT !["preview"] = None]
    /\ UNCHANGED <<route, server, shown, spin, load, task, busy, draft, drafts,
                   event, retry, robbed, left>>

Next ==
    \/ Navigate \/ RefreshPage \/ EventArrives \/ OthersWrite
    \/ releaseProjectAttachmentPreview
    \/ \E l \in Loads :
         DraftCancelled(l) \/ LoadServed(l) \/ LoadAnswered(l) \/ LoadFailed(l)
    \/ \E h \in left.handlers : Begin(h)
    \/ \E t \in Tasks :
         \/ Served(t) \/ Chosen(t) \/ NotChosen(t) \/ Answered(t) \/ Departs(t)
         \/ Failed(t) \/ RefreshBegins(t) \/ RefreshEnds(t)

Spec == Init /\ [][Next]_vars

-----------------------------------------------------------------------------

Holders(f) ==
    {t \in Tasks : Running(t) /\ task[t].holds /\ Handlers[task[t].h].takes = f}

\* The handlers that may take a flag away from the run that holds it.  The
\* first six clear what the load of a page has already cleared for them and
\* another run has taken since: in a finally clause that asks nothing (a
\* comment's draft, a paste into a resource, the candidates of a project), on a
\* return before the file is chosen (the uploads of an item), or by an action
\* id that the other run does not use (the upload of a resource).  The last two
\* need no page load: the flag of the releases is looked at before the file is
\* chosen and set after it.
Robbers ==
    {"cancelWorkItemCommentDraft", "pasteProjectResourceFile",
     "openProjectMemberDialog", "uploadSelectedWorkItemAttachment",
     "uploadSelectedWorkItemCommentAttachment",
     "uploadSelectedProjectResourceAttachment",
     "uploadSelectedSystemReleaseAsset", "runSystemReleaseMutation"}
Contested == {Handlers[h].takes : h \in Robbers}
Robbed == {r[1] : r \in robbed}

\* Mutations that share a flag exclude each other.  The code breaks this for
\* the flags in Contested, and nowhere else: there a run loses its flag to one
\* of the Robbers, and only a run that lost it has another beside it.
Exclusive ==
    /\ \A f \in Flags \ ({"none"} \cup Contested) : Cardinality(Holders(f)) <= 1
    /\ \A f \in Contested : Cardinality(Holders(f) \ Robbed) <= 1
    /\ \A r \in robbed : r[2] \in Robbers

\* The unlock button of a resource stays disabled by a run that ended, because
\* the run clears it only while its answer is wanted.  On a resource page that
\* takes another action on resources, or a load that has yet to clear it.
UnlockLeftSet ==
    \/ cur["resource"] # busy["unlock"] \/ route.page # "resource"
    \/ \E l \in Loads : load[l].stage = "cancel"

\* A flag that disables the page's buttons belongs to a run under way: no
\* order of answers, page changes and failures leaves one set for ever, but
\* for the unlock button's.
FlagsHaveHolders ==
    \A f \in Flags \ {"none"} :
        busy[f] # None => Running(busy[f]) \/ (f = "unlock" /\ UnlockLeftSet)

\* A page shows its parts; the button that reveals a download is an item's.
OnPage(page) ==
    Range(PartsOf[page]) \cup (IF page = "item" THEN {"reveal"} ELSE {})

\* What a page shows is of the key in its address, unless the load that will
\* reset it still waits for the cancellation of a comment's draft.
PageShowsItsKey(parts) ==
    /\ route.page \in PathKeyed /\ shown[PartsOf[route.page][1]].of = route.key
    /\ \A l \in Loads : load[l].stage # "cancel"
    =>
        \A p \in parts \cap OnPage(route.page) :
            shown[p].of \in {route.key, None}
Unchecked == {"post", "schedule"}
PartsOfRoute == PageShowsItsKey(Parts \ Unchecked)
AllPartsOfRoute == PageShowsItsKey(Parts)

\* Once a mutation has shown the item or the comments with its change, no page
\* load puts an older version back: loads that read before are given up.
WritesSurviveLoads ==
    \A p \in {"item", "comments"} :
        /\ route.page = "item" /\ shown[p].of = route.key
        /\ shown[p].by = "load"
        => shown[p].ver >= shown[p].own

\* Every capability the host keeps open is the one in use or is being opened.
NoCapabilityLeaks ==
    \A t \in caps : t = cap \/ (Running(t) /\ task[t].served)

\* Busy flags and preview capabilities have one holder each and are let go by
\* it, in every order of answers, failures and page changes.  The exceptions
\* of app.jsx are part of the statement: five flags of which a run can be
\* robbed by the handlers in Robbers, and the unlock button, which stays
\* disabled after an answer that was no longer wanted.
OneHolderEach == Exclusive /\ FlagsHaveHolders /\ NoCapabilityLeaks

=============================================================================
