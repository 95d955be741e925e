----------------------------- MODULE ClientParts -----------------------------
(***************************************************************************)
(* The parts of the clients that share no state with one another, explored *)
(* in one run: Init chooses a part, Next takes the steps of that part.     *)
(* The variables of the others are Off.  The parts:                        *)
(*                                                                         *)
(*   store     CredentialStore        the credential file                  *)
(*   pending   AuthorizationStore     the file of a pending sign-in        *)
(*   signin    DeviceAuthorization    signing in on the desktop            *)
(*   polling   AuthorizationPolling   how often it asks the server         *)
(*   gateway   ApiGateway             requests through the two tables      *)
(*   routes    Routes                 addresses and pages                  *)
(*   live      LiveUpdates            the page, the topbar, new releases   *)
(*   item      WorkItemLive           the discussion of a work item        *)
(*   schedule  TimeSchedule           the plan of a project's time         *)
(*   editor    RichTextEditor         pasted files in a text               *)
(*   toolbar   RichTextToolbar        its menus                            *)
(*   content   RichTextContent        a text that is shown                 *)
(*   preview   AttachmentPreview      the dialog that shows a file         *)
(*   browser   BrowserFiles           uploads and downloads in the browser *)
(*   lifecycle DesktopLifecycle       starting, the window, quitting       *)
(*   prefs     PreferenceStore        small files of the desktop shell     *)
(***************************************************************************)
EXTENDS CredentialStore, Routes, Integers, Sequences, FiniteSets

\* Sets, sizes and bounds of the parts; each module says what its own are.
CONSTANTS  \* editor
    Batches, MaxDefers, MaxTexts, MaxRetries, MaxPosts
CONSTANTS  \* toolbar
    Dropdowns, Places, MaxMoves
CONSTANTS  \* content
    Media, Texts, Widths, MinWidth, MaxWidth, DefaultWidth, Pointers, MaxDrags
CONSTANTS  \* schedule
    Members, LastDay, Spans, Deltas, Notes, Loaded, Modes, MaxEdits,
    MaxLostSaves, MaxSaves
CONSTANTS  \* live
    Hosts, ServedRelease, Releases, LiveChannel, LiveBudgets
CONSTANTS  \* item
    Items, Typed, ItemChannel, Renewal, IdleAfter, TTL, ItemBudgets
CONSTANTS  \* preview
    Attachments, Viewports, Drags, PreviewBudgets
CONSTANTS  \* browser
    Tabs, Contents, ChunkSize, Sealings, BrowserBudgets
CONSTANTS  \* signin
    MaxPresses, MaxLostAnswers, MaxStops
CONSTANTS  \* polling
    Interval, Lifetime, Horizon, MaxRestarts
CONSTANTS  \* pending
    Records, Absent, MaxTrouble
CONSTANTS  \* lifecycle
    Windows, Troubles
CONSTANTS  \* prefs
    Users, Snapshots, NoEntry, Limit, MaxWrites, MaxMishaps

\* A transaction is neither the lack of a file nor the mark of a removal.
ASSUME PendingAssumption ==
    Absent \notin Records \cup {"delete"} /\ Records \cap {"saved", "removed"} = {}

\* As many entries are read as there are users of one installation.
ASSUME PreferenceAssumption ==
    Limit \in Nat /\ IsFiniteSet(Users) /\ Cardinality(Users) <= Limit

VARIABLE part

VARIABLES  \* editor
    mounted, doc, editorValue, reading, up, flag, fate, editorBehind,
    unsaid, editorUsed
VARIABLES  \* toolbar
    open, timer, pointer, range, bySection, sections, sel, astray, moves
VARIABLES  \* content
    text, source, width, stored, contentDrag, drags
VARIABLES  \* gateway
    gatewayStage, call, fields, job, sent, applied, outcome
VARIABLES  \* schedule
    mode, items, undo, redo, base, scheduleDrag, draft, confirm, save,
    scheduleRuns, scheduleServer, clean, touched, flipped, theirs,
    strewn, scheduleUsed
VARIABLES  \* live
    host, liveChanged, release, liveLink, liveAdapter, liveCo, load, livePage,
    badge, liveFailed, livePoll, check, update, liveLeft
VARIABLES  \* item
    itemChanged, item, shown, itemLink, itemAdapter, itemCo, itemRuns, seen,
    gap, itemFailed, itemBehind, ctl, posts, presence, doubt, itemLeft
VARIABLES  \* preview
    file, asks, url, live, mounts, controller, alive, previewMade, view, size,
    previewStage, previewLeft
VARIABLES  \* browser
    tab, row, object, drawn, handed, overwritten, browserLeft
VARIABLES  \* signin
    running, status, epoch, credential, signInDisk, flow, online, discard,
    signInServer, withdrawn, refused, signInLeft
VARIABLES  \* polling
    clock, gate, pollingPoll, expires, stray, slowed, restarts
VARIABLES  \* pending
    win, pendingDisk, lasting, doing, at, aside, found, possible,
    lost, pendingTrouble
VARIABLES  \* lifecycle
    mac, boot, activating, window, mainWindow, tracker, flags, hostState,
    networkState, init, generation, lifecycleMade, global, quit,
    lifecycleTrouble
VARIABLES  \* prefs
    onWindows, content, temporary, queue, preferenceStage, held,
    preferenceMay, writes, mishaps

editorVars ==
    <<mounted, doc, editorValue, reading, up, flag, fate, editorBehind,
    unsaid, editorUsed>>
toolbarVars ==
    <<open, timer, pointer, range, bySection, sections, sel, astray, moves>>
contentVars ==
    <<text, source, width, stored, contentDrag, drags>>
gatewayVars ==
    <<gatewayStage, call, fields, job, sent, applied, outcome>>
scheduleVars ==
    <<mode, items, undo, redo, base, scheduleDrag, draft, confirm, save,
    scheduleRuns, scheduleServer, clean, touched, flipped, theirs,
    strewn, scheduleUsed>>
liveVars ==
    <<host, liveChanged, release, liveLink, liveAdapter, liveCo, load,
    livePage, badge, liveFailed, livePoll, check, update, liveLeft>>
itemVars ==
    <<itemChanged, item, shown, itemLink, itemAdapter, itemCo, itemRuns, seen,
    gap, itemFailed, itemBehind, ctl, posts, presence, doubt, itemLeft>>
previewVars ==
    <<file, asks, url, live, mounts, controller, alive, previewMade, view,
    size, previewStage, previewLeft>>
browserVars ==
    <<tab, row, object, drawn, handed, overwritten, browserLeft>>
authorizationVars ==
    <<running, status, epoch, credential, signInDisk, flow, online, discard,
    signInServer, withdrawn, refused, signInLeft>>
pollVars ==
    <<clock, gate, pollingPoll, expires, stray, slowed, restarts>>
storeVars ==
    <<win, pendingDisk, lasting, doing, at, aside, found, possible,
    lost, pendingTrouble>>
lifecycleVars ==
    <<mac, boot, activating, window, mainWindow, tracker, flags, hostState,
    networkState, init, generation, lifecycleMade, global, quit,
    lifecycleTrouble>>
preferenceVars ==
    <<onWindows, content, temporary, queue, preferenceStage, held,
    preferenceMay, writes, mishaps>>

-----------------------------------------------------------------------------
\* The instances.

Editor == INSTANCE RichTextEditor WITH
    value <- editorValue, behind <- editorBehind, used <- editorUsed

Toolbar == INSTANCE RichTextToolbar

Content == INSTANCE RichTextContent WITH drag <- contentDrag

Gateway == INSTANCE ApiGateway WITH stage <- gatewayStage

Schedule == INSTANCE TimeSchedule WITH
    MaxFaults <- MaxLostSaves,
    drag <- scheduleDrag, runs <- scheduleRuns, server <- scheduleServer,
    used <- scheduleUsed

Live == INSTANCE LiveUpdates WITH
    Running <- ServedRelease, ChannelSize <- LiveChannel,
    Budgets <- LiveBudgets,
    changed <- liveChanged, link <- liveLink, adapter <- liveAdapter,
    co <- liveCo, page <- livePage, failed <- liveFailed, poll <- livePoll,
    left <- liveLeft

Item == INSTANCE WorkItemLive WITH
    ChannelSize <- ItemChannel, Budgets <- ItemBudgets,
    changed <- itemChanged, link <- itemLink, adapter <- itemAdapter,
    co <- itemCo, runs <- itemRuns, failed <- itemFailed,
    behind <- itemBehind, left <- itemLeft

Preview == INSTANCE AttachmentPreview WITH
    Files <- Attachments, Budgets <- PreviewBudgets,
    made <- previewMade, stage <- previewStage, left <- previewLeft

Browser == INSTANCE BrowserFiles WITH
    Budgets <- BrowserBudgets, left <- browserLeft

SignIn == INSTANCE DeviceAuthorization WITH
    MaxFaults <- MaxLostAnswers,
    disk <- signInDisk, server <- signInServer, left <- signInLeft

Polling == INSTANCE AuthorizationPolling WITH poll <- pollingPoll

Pending == INSTANCE AuthorizationStore WITH
    disk <- pendingDisk, trouble <- pendingTrouble

Lifecycle == INSTANCE DesktopLifecycle WITH
    made <- lifecycleMade, trouble <- lifecycleTrouble

Prefs == INSTANCE PreferenceStore WITH
    stage <- preferenceStage, may <- preferenceMay

-----------------------------------------------------------------------------
\* What the proofs use of the values of the parts.

\* The clipboard's files come in an order, uploads have names of their own, and
\* the text's bound is a number.
ASSUME EditorAssumption ==
    /\ MaxTexts \in Nat
    /\ Batches \in Seq(Editor!Range(Batches))
    /\ \A b \in Editor!Range(Batches) : DOMAIN b \subseteq Nat
    /\ {Editor!Nobody, Editor!Post} \cap Editor!Uploads = {}

\* Bounds are numbers.
ASSUME SignInAssumption ==
    MaxPresses \in Nat /\ MaxLostAnswers \in Nat /\ MaxStops \in Nat

\* Intervals and lifetimes are whole seconds.
ASSUME PollingAssumption == Interval \in Nat /\ Lifetime \in Nat

\* An entry is valid for as long as two reports can be apart, and a channel holds
\* at least one message.
ASSUME ItemAssumption ==
    /\ ItemChannel \in Nat \ {0} /\ Typed \in Items /\ Item!Away \notin Items
    /\ Renewal \in Nat \ {0} /\ IdleAfter \in Nat \ {0} /\ TTL \in Nat
    /\ Renewal + IdleAfter <= TTL

\* Images and stages have a size.
ASSUME PreviewAssumption ==
    /\ "none" \notin DOMAIN Attachments
    /\ \A f \in DOMAIN Attachments :
        Attachments[f].kind = "image" =>
            Attachments[f].w \in Nat \ {0} /\ Attachments[f].h \in Nat \ {0}
    /\ Viewports \subseteq [w : Nat \ {0}, h : Nat \ {0}]
    /\ Drags \subseteq Int

\* A file is a sequence of bytes, sealed in chunks that are not empty.
ASSUME BrowserAssumption ==
    /\ \A c \in Contents : c \in Seq({c[n] : n \in DOMAIN c})
    /\ ChunkSize \in Nat \ {0} /\ Sealings \subseteq BOOLEAN

\* Windows are numbered, from 1.
ASSUME LifecycleAssumption == Windows \subseteq Nat \ {0}

\* The limits of the table of contents, and pointers known by their numbers.
ASSUME ContentAssumption ==
    /\ MinWidth \in Nat \ {0} /\ DefaultWidth \in Nat /\ MaxWidth \in Nat
    /\ MinWidth <= DefaultWidth /\ DefaultWidth <= MaxWidth
    /\ Widths \subseteq Int /\ Content!None \notin Pointers

-----------------------------------------------------------------------------
Off == "off"

\* The variables of the parts that are not explored.
StoreOff ==
    /\ windows = Off /\ fs = Off /\ durable = Off /\ persisted = Off
    /\ op = Off /\ pc = Off /\ value = Off /\ made = Off /\ committed = Off
    /\ answer = Off /\ may = Off /\ faults = Off
EditorOff ==
    /\ mounted = Off /\ doc = Off /\ editorValue = Off /\ reading = Off
    /\ up = Off /\ flag = Off /\ fate = Off /\ editorBehind = Off
    /\ unsaid = Off /\ editorUsed = Off
ToolbarOff ==
    /\ open = Off /\ timer = Off /\ pointer = Off /\ range = Off
    /\ bySection = Off /\ sections = Off /\ sel = Off /\ astray = Off
    /\ moves = Off
ContentOff ==
    /\ text = Off /\ source = Off /\ width = Off /\ stored = Off
    /\ contentDrag = Off /\ drags = Off
GatewayOff ==
    /\ gatewayStage = Off /\ call = Off /\ fields = Off /\ job = Off
    /\ sent = Off /\ applied = Off /\ outcome = Off
ScheduleOff ==
    /\ mode = Off /\ items = Off /\ undo = Off /\ redo = Off /\ base = Off
    /\ scheduleDrag = Off /\ draft = Off /\ confirm = Off /\ save = Off
    /\ scheduleRuns = Off /\ scheduleServer = Off /\ clean = Off
    /\ touched = Off /\ flipped = Off /\ theirs = Off /\ strewn = Off
    /\ scheduleUsed = Off
LiveOff ==
    /\ host = Off /\ liveChanged = Off /\ release = Off /\ liveLink = Off
    /\ liveAdapter = Off /\ liveCo = Off /\ load = Off /\ livePage = Off
    /\ badge = Off /\ liveFailed = Off /\ livePoll = Off /\ check = Off
    /\ update = Off /\ liveLeft = Off
ItemOff ==
    /\ itemChanged = Off /\ item = Off /\ shown = Off /\ itemLink = Off
    /\ itemAdapter = Off /\ itemCo = Off /\ itemRuns = Off /\ seen = Off
    /\ gap = Off /\ itemFailed = Off /\ itemBehind = Off /\ ctl = Off
    /\ posts = Off /\ presence = Off /\ doubt = Off /\ itemLeft = Off
RouteOff ==
    /\ asked = Off /\ address = Off /\ page = Off
PreviewOff ==
    /\ file = Off /\ asks = Off /\ url = Off /\ live = Off /\ mounts = Off
    /\ controller = Off /\ alive = Off /\ previewMade = Off /\ view = Off
    /\ size = Off /\ previewStage = Off /\ previewLeft = Off
BrowserOff ==
    /\ tab = Off /\ row = Off /\ object = Off /\ drawn = Off /\ handed = Off
    /\ overwritten = Off /\ browserLeft = Off
SignInOff ==
    /\ running = Off /\ status = Off /\ epoch = Off /\ credential = Off
    /\ signInDisk = Off /\ flow = Off /\ online = Off /\ discard = Off
    /\ signInServer = Off /\ withdrawn = Off /\ refused = Off
    /\ signInLeft = Off
PollingOff ==
    /\ clock = Off /\ gate = Off /\ pollingPoll = Off /\ expires = Off
    /\ stray = Off /\ slowed = Off /\ restarts = Off
PendingOff ==
    /\ win = Off /\ pendingDisk = Off /\ lasting = Off /\ doing = Off
    /\ at = Off /\ aside = Off /\ found = Off /\ possible = Off
    /\ lost = Off /\ pendingTrouble = Off
LifecycleOff ==
    /\ mac = Off /\ boot = Off /\ activating = Off /\ window = Off
    /\ mainWindow = Off /\ tracker = Off /\ flags = Off /\ hostState = Off
    /\ networkState = Off /\ init = Off /\ generation = Off
    /\ lifecycleMade = Off /\ global = Off /\ quit = Off
    /\ lifecycleTrouble = Off
PrefsOff ==
    /\ onWindows = Off /\ content = Off /\ temporary = Off /\ queue = Off
    /\ preferenceStage = Off /\ held = Off /\ preferenceMay = Off
    /\ writes = Off /\ mishaps = Off

Parts ==
    {"store", "editor", "toolbar", "content", "gateway", "schedule", "live",
    "item", "routes", "preview", "browser", "signin", "polling", "pending",
    "lifecycle", "prefs"}

PartsInit ==
    /\ part \in Parts
    /\ IF part = "store" THEN Init ELSE StoreOff
    /\ IF part = "editor" THEN Editor!Init ELSE EditorOff
    /\ IF part = "toolbar" THEN Toolbar!Init ELSE ToolbarOff
    /\ IF part = "content" THEN Content!Init ELSE ContentOff
    /\ IF part = "gateway" THEN Gateway!GatewayInit ELSE GatewayOff
    /\ IF part = "schedule" THEN Schedule!ScheduleInit ELSE ScheduleOff
    /\ IF part = "live" THEN Live!LiveInit ELSE LiveOff
    /\ IF part = "item" THEN Item!ItemInit ELSE ItemOff
    /\ IF part = "routes" THEN RouteInit ELSE RouteOff
    /\ IF part = "preview" THEN Preview!PreviewInit ELSE PreviewOff
    /\ IF part = "browser" THEN Browser!Init ELSE BrowserOff
    /\ IF part = "signin" THEN SignIn!AuthorizationInit ELSE SignInOff
    /\ IF part = "polling" THEN Polling!PollInit ELSE PollingOff
    /\ IF part = "pending" THEN Pending!StoreInit ELSE PendingOff
    /\ IF part = "lifecycle" THEN Lifecycle!LifecycleInit ELSE LifecycleOff
    /\ IF part = "prefs" THEN Prefs!PreferenceInit ELSE PrefsOff

\* Every part but one stands still.
Still(one) ==
    /\ UNCHANGED part
    /\ IF one = "store" THEN TRUE ELSE UNCHANGED vars
    /\ IF one = "editor" THEN TRUE ELSE UNCHANGED editorVars
    /\ IF one = "toolbar" THEN TRUE ELSE UNCHANGED toolbarVars
    /\ IF one = "content" THEN TRUE ELSE UNCHANGED contentVars
    /\ IF one = "gateway" THEN TRUE ELSE UNCHANGED gatewayVars
    /\ IF one = "schedule" THEN TRUE ELSE UNCHANGED scheduleVars
    /\ IF one = "live" THEN TRUE ELSE UNCHANGED liveVars
    /\ IF one = "item" THEN TRUE ELSE UNCHANGED itemVars
    /\ IF one = "routes" THEN TRUE ELSE UNCHANGED routeVars
    /\ IF one = "preview" THEN TRUE ELSE UNCHANGED previewVars
    /\ IF one = "browser" THEN TRUE ELSE UNCHANGED browserVars
    /\ IF one = "signin" THEN TRUE ELSE UNCHANGED authorizationVars
    /\ IF one = "polling" THEN TRUE ELSE UNCHANGED pollVars
    /\ IF one = "pending" THEN TRUE ELSE UNCHANGED storeVars
    /\ IF one = "lifecycle" THEN TRUE ELSE UNCHANGED lifecycleVars
    /\ IF one = "prefs" THEN TRUE ELSE UNCHANGED preferenceVars

PartsNext ==
    \/ part = "store" /\ Next /\ Still("store")
    \/ part = "editor" /\ Editor!Next /\ Still("editor")
    \/ part = "toolbar" /\ Toolbar!Next /\ Still("toolbar")
    \/ part = "content" /\ Content!Next /\ Still("content")
    \/ part = "gateway" /\ Gateway!GatewayNext /\ Still("gateway")
    \/ part = "schedule" /\ Schedule!ScheduleNext /\ Still("schedule")
    \/ part = "live" /\ Live!LiveNext /\ Still("live")
    \/ part = "item" /\ Item!ItemNext /\ Still("item")
    \/ part = "routes" /\ RouteNext /\ Still("routes")
    \/ part = "preview" /\ Preview!PreviewNext /\ Still("preview")
    \/ part = "browser" /\ Browser!Next /\ Still("browser")
    \/ part = "signin" /\ SignIn!AuthorizationNext /\ Still("signin")
    \/ part = "polling" /\ Polling!PollNext /\ Still("polling")
    \/ part = "pending" /\ Pending!StoreNext /\ Still("pending")
    \/ part = "lifecycle" /\ Lifecycle!LifecycleNext /\ Still("lifecycle")
    \/ part = "prefs" /\ Prefs!PreferenceNext /\ Still("prefs")

partsVars ==
    <<part, vars, editorVars, toolbarVars, contentVars, gatewayVars,
    scheduleVars, liveVars, itemVars, routeVars, previewVars, browserVars,
    authorizationVars, pollVars, storeVars, lifecycleVars, preferenceVars>>

\* The uploads of the editor go on, the timer of the topbar ticks, and requests
\* of a sign-in are answered or time out.
PartsFairness ==
    /\ WF_editorVars(part = "editor" /\ Editor!Proceed)
    /\ WF_liveVars(part = "live" /\ Live!Polls)
    /\ WF_authorizationVars(part = "signin" /\ SignIn!Flows)
    /\ WF_authorizationVars(part = "signin" /\ SignIn!Discards)
    /\ WF_authorizationVars(part = "signin" /\ SignIn!Expires)

PartsSpec == PartsInit /\ [][PartsNext]_partsVars /\ PartsFairness

-----------------------------------------------------------------------------
\* Whenever the program stops, the files hold what was saved last or what was
\* being written, and nothing whose removal was answered (the credential file,
\* credential-store.mjs; a pending sign-in, the transaction store of
\* credential-coordinator.mjs, but for a save that fails in its last flush), and
\* no write loses the entry of another user (the statistics cache,
\* database-stats-cache-store.mjs).
RecordsKnown ==
    /\ part = "store" => RecordKnown
    /\ part = "pending" => Pending!TransactionKnown
    /\ part = "prefs" => Prefs!EntriesKept

\* Credentials the server handed out are kept through crashes, lost answers and
\* failed writes, or asked for again (runAuthorization, resumeAuthorization);
\* and a desktop that polls too early is told to wait, and then it is served:
\* put off twice in a row at most for each time it was started again
\* (enforce_poll_gate).
SignInsServed ==
    /\ part = "signin" => SignIn!IssuedIsKept
    /\ part = "polling" => Polling!SoonServed

\* A quit leaves nothing running whatever it interrupts, a window is on the
\* screen as soon as it has something to show and not before, and a loaded page
\* has missed no state (main.mjs and the readiness trackers).
WindowsKept ==
    part = "lifecycle" =>
        /\ Lifecycle!QuitTakesAll
        /\ Lifecycle!ShownInTime
        /\ Lifecycle!PageInformed

\* Waiting for the approval of a sign-in comes to an end.
AuthorizationSettles ==
    (part = "signin" /\ status = "authorizing") ~> (status # "authorizing")

\* What the desktop sends for a call of the client is what the call asked for,
\* and the tables of the renderer and of the main process agree on it.
SentAsAsked ==
    part = "gateway" => Gateway!SentAsAsked /\ Gateway!TablesAgree

\* The page shown is the one that was asked for, with everything it was asked
\* with (buildPath functions and parseAppRoute of routes.js), but for the two
\* exceptions that LandsWhereAsked names.
PagesLand == part = "routes" => LandsWhereAsked

\* A page that is connected and at rest shows what the server has, a prompt
\* offers only a release that is wanted, a discussion misses no change while it
\* is subscribed, and whoever keeps typing is shown (the event coordinators).
ScreensFollowEvents ==
    /\ part = "live" => Live!PageFresh /\ Live!PromptWanted
    /\ part = "item" => Item!DiscussionFresh /\ Item!TypingShown

\* The numbers of the browser's topbar come right in the end, with the stream
\* down and every refresh of the page failed.
BadgeCatchesUp ==
    <>[](part = "live" /\ host = "web" => badge = liveChanged)

\* Blocks are shown once and in few rows, and end before they begin only if
\* they were resized out of view; undoing leads back to what was loaded; a save
\* saves what is shown, but for what failed ones left behind, and overwrites no
\* block of others that was not changed here (the gantt, persistTimeSave).
ScheduleKept ==
    part = "schedule" =>
        /\ Schedule!BlocksInOrder /\ Schedule!BlocksShown
        /\ Schedule!UndoLeadsBack /\ Schedule!SavedAsShown /\ Schedule!OthersKept

\* An upload runs once, lands in the text and owns its preview; a menu's range
\* does not outlive it; sources are open for the text that is shown only.
RichTextKept ==
    /\ part = "editor" =>
        Editor!OneRunPerUpload /\ Editor!UrlsOwned /\ Editor!UploadsLand
    /\ part = "toolbar" => Toolbar!RangeOfOpenMenu
    /\ part = "content" => Content!SourcesOfShownText

\* Every upload of the editor ends or fails visibly: pastes and retries are
\* finitely many, so it is enough that time and again none is under way.
UploadsSettle ==
    []<>(part = "editor" =>
        \A u \in Editor!Uploads : up[u].entry => up[u].ui # "uploading")

\* What a download, a preview or the dialog gives the user is the file that was
\* registered or asked for; a confirmed upload opens; nothing the dialog made
\* is left behind; and an image stays on its stage.
AttachmentsShown ==
    /\ part = "browser" => Browser!HandedAsRegistered /\ Browser!ConfirmedOpens
    /\ part = "preview" => Preview!PreviewOwned /\ Preview!Framed
=============================================================================
