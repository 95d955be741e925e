# TLA+ verification of yuance's clients and device sessions

yuance (元策) is a project-management system: a Rust service (`api/`, Axum and
SQLite), a web front end (`frontend/`, `web/`) and an Electron desktop client
(`desktop/`) that shares most of its pages with the web.  This project models the
parts of it whose correctness depends on interleavings, lost messages, failures and
crashes: how a desktop obtains, rotates, recovers and gives up its device
credentials, on the server and in the client; its network and file runtime; and the
application the two clients share, in which several dozen handlers await the server
while the user goes on working.

Paths below are relative to the repository's root; `app.jsx` is
`frontend/packages/app-shell/src/app.jsx`.

## 1. Inventory

| Component | State it keeps | Operations | Hard because | What makes it correct |
|---|---|---|---|---|
| Device sessions, server (`api/src/domains/device_sessions.rs`) | tables `device_authorizations`, `devices`, `device_credential_families`, `device_access_sessions`, `device_refresh_credentials`, `device_refresh_rotations` | start, review, approve, deny, exchange (= poll), authenticate, revalidate a stream's lease, rotate, revoke, hourly clean-up | requests repeated after a lost answer; `now` read before the write lock is awaited; decision, expiry, exchange and clean-up race for a row | one unbroken line of generations, one holder per generation, revocation final, results erased |
| User administration (`api/src/domains/users.rs`) | `users.status`, versions | change password, enable, disable | changes families behind the back of running sessions | a revoked family is refused by every reader |
| Device endpoints (`api/src/web/device_auth.rs`) | none | one handler per operation | the stamp is taken here | - |
| Credential coordinator (`desktop/src/auth/credential-coordinator.mjs`) | credential and access token in memory, public status, epoch, in-flight operations; credential record, pending authorization and revocation marker on disk | initialize, authorize, resume, refresh, logout, retry a pending revocation, discard, lock, dispose | async functions that interleave at every await; crash between two writes; time limits against late answers | never replays a credential, disk always suffices to go on, credentials that were handed out are kept, logout is believed only when the server has answered that the session is dead |
| Credential and pending-authorization store (`credential-store.mjs`, `createPendingAuthorizationStore`) | record, temporary file, backup, removal marker | save, load, remove | crash between two renames | one readable record, nothing deleted comes back |
| Credential runtime and client (`credential-runtime.mjs`, `device-auth-client.mjs`) | epoch, lease, proof of the pending request | lease, refresh, logout, retry, dispose; HTTP with a 15 s limit; polling | outcomes unknown after a time-out; the server's gate against early polls | every wait ends; a patient client is served |
| Network (`desktop/src/network/`, `notifications/`) | generation of the stream loop, back-off, controller, what was notified | connect, probe, reconnect, refresh once and repeat, suspend, resume, notify | answers of an older loop or session; power and window events | nothing of one session reaches another, mutations are sent once, the stream comes back |
| File runtime (`desktop/src/files/`, `ipc/file-state.mjs`) | spool and its byte count, capability, grant and preview vaults, queues, temporary files | capture, upload, download, preview, withdraw, restart | page, session, power and window changes between two awaits; retries | exact accounting, one owner per snapshot, whole files only, everything ends |
| Operation tables (`api-client/`, `renderer/platform/api-transport.js`, `operation-registry.mjs`) | none | well over a hundred operations, written three times | a field renamed, dropped or shadowed in one of the tables | what is sent is what was asked |
| Application shell (`app.jsx`) | route, data of the page, request counters, action counters, busy flags | page loads, 48 handlers, refreshes, events | answers that come after the page, the action or the data changed | answers stay on their page, flags have one holder (with the exceptions of section 5), a shown change survives slower loads |
| Addresses (`app-core/routes.js`) | none | build, parse, page | two sides written apart | the page that opens is the one that was asked for |
| Schedule (`time-allocation-gantt.jsx`) | blocks, undo and redo stacks, drag, save | draw, drag, resize, edit, undo, save | partial failure of a save; newer lists arriving | what is shown is what is saved |
| Rich text (`rich-text.jsx`) | document, pending uploads, timers, saved range, resolved sources | paste, upload, defer, retry, format, resolve | uploads run while text and value change | uploads end and land; URLs have owners |
| Preview and browser transfers (`attachment-preview.jsx`, `web/src/platform/browser/`) | shown file, object URLs, viewers, zoom | show, close, zoom, turn, drag; encrypt, upload, download | late sources; lengths at chunk boundaries | the file shown is the file asked for, as it was registered |
| Live updates (`platform/realtime.rs`, `notification-events.js`, `work-item-events.js`, `app-update.js`) | channels, connections, versions shown, typing presence, prompt | publish, lag, reconnect, refresh, poll, type, put off | events lost or merged while a refresh runs | the page at rest shows what the server has |
| Electron shell (`desktop/src/main.mjs`, `renderer/app.jsx`, `preload.cjs`, `ipc/renderer-ready.mjs`, `preferences/`) | windows and their pages, readiness of the renderer, the runtime that is built, its generation; theme and statistics cache | start, activate, load, reload, reveal, build the runtime, change of session, close, quit | the page, the window and the runtime become ready in any order; quitting interrupts any of them | a window is shown when it has something to show, a page misses no state, quitting leaves nothing running |
| Browser authentication (`auth.rs`), files and deletion jobs (`files.rs`, `storage.rs`) | sessions; upload rows, jobs with leases | login, rotate; begin, confirm, delete, work a job | object store and table cannot change together | - |
| Projects, resources, RBAC, API tokens, audit, bootstrap, statistics, releases (server) | their tables | row-by-row changes with permission checks | data-centred; SQLite serialises writers | - |

How they interact: the shell calls the API client, whose transport is HTTP in the
browser and, on the desktop, a message to the main process that is looked up in the
operation tables and sent with a lease of the credential runtime.  The runtime calls the
coordinator, which writes its files through a FIFO of mutations and talks HTTP to the
device endpoints; each endpoint takes a stamp and runs one `BEGIN IMMEDIATE` transaction.
The network loop keeps the event stream open, probes after a 401 and discards the session
on a verdict.  Session, power and window events withdraw file capabilities.  Every change
on the server is broadcast to the streams of the users concerned, which makes their pages
load again.

## 2. Modules

| Module | Models | Relation |
|---|---|---|
| `CredentialFamily` | what the server promises of one family: generations issued one after the other, each to one transaction, none after revocation | abstract specification |
| `DeviceSessions` | the tables and every operation of `device_sessions.rs` that changes them, the two operations of `users.rs` that do, and time | implements `CredentialFamily` for every family (`FamiliesRefine`) |
| `CredentialCoordinator` | refresh, logout, retry, discard, start and end of the desktop's session | uses `CredentialFamily` as the server it talks to |
| `DeviceAuthorization` | signing in: prepare, start, poll, exchange, save, resume after a restart | the coordinator's other half |
| `AuthorizationPolling` | the polling loop against `enforce_poll_gate` | the pace of `DeviceAuthorization`'s polls |
| `CredentialStore`, `AuthorizationStore` | the two files, call by call | what the coordinator's modules take as one step per operation |
| `DesktopNetwork` | stream loop, leases, refresh and repeat, notifications, power and window events | the coordinator reduced to status, token and one refresh |
| `DesktopFiles` | spool, vaults, uploads, downloads, previews and their withdrawal | - |
| `ApiClient`, `DesktopRoutes`, `DesktopOperations` | the three tables of operations | data of `ApiGateway` |
| `ApiGateway` | one call of the client, from its method to its result on the desktop | composes the three tables |
| `AppShell` | routes, page loads and the handlers of the shell | - |
| `Routes` | building and parsing addresses, and the handlers that go from page to page | - |
| `LiveUpdates`, `WorkItemLive` | the topbar's and an item's event stream with what the page does about it | - |
| `TimeSchedule` | the chart of allocated time and its saving | - |
| `RichTextEditor`, `RichTextToolbar`, `RichTextContent` | pasted files, menus, shown text | - |
| `AttachmentPreview`, `BrowserFiles` | the preview dialog; uploads and downloads in the browser with the server's row and object | - |
| `DesktopLifecycle` | start, windows and their pages, building of the runtime, quitting | the runtime reduced to whether it is made |
| `PreferenceStore` | the small files of the shell: the statistics cache, and the theme as the case of one key | - |
| `MCDeviceSessions`, `MCCredentialCoordinator`, `MCDesktopFiles`, `MCAppShell` | symmetry and scenarios for TLC | extend the module they are named after |
| `ClientParts` | sixteen of the modules above, composed | instantiates fourteen of them and extends `CredentialStore` and `Routes`; states the assumptions on their constants |
| `MCClientParts` | values and budgets for TLC | extends `ClientParts`, see section 3 |
| `DeviceSessions_proofs`, `CredentialStore_proofs`, `CredentialCoordinator_proofs`, `DesktopNetwork_proofs`, `DesktopFiles_proofs`, `AppShell_proofs` | theorems and proofs, see section 4 | each extends the module it is about |
| `ClientScreens_proofs`, `ClientParts_proofs` | theorems and proofs about `ClientParts`: what the screens and windows need, and the rest with the theorems | the second extends the first and `CredentialStore_proofs` |

The two halves of the credential protocol meet in `CredentialFamily`: what the
coordinator assumes of the server is what the tables are shown to provide.

### DeviceSessions and the code

A transaction is one action, because all writers take SQLite's write lock at its
start.  `now` is an argument that the handler reads *before* it waits for that lock;
so an action carries a stamp `t`, up to `MaxLag` older than the clock and possibly
older than stamps already committed.  A domain error commits what was written so far
(`transaction_should_commit`), hence `StartAuthorization` keeps its clean-up even if
the capacity is exhausted.  Paths that write nothing and hand nothing out are
stuttering steps and left out.

* `auth`, `family`, `access`, `refresh`, `rotation`, `devices`, `userActive` are the
  tables, cut to the columns that decide something.  A family is named by its
  authorization (a UNIQUE column), a token by its family and generation.
* `granted` is a history variable: which transaction was handed which generation.
* Secrets, hashes, PKCE and encryption are reduced to identity and to whether a stored
  result is readable; `RotateUnreadable` covers a result that cannot be decrypted.
* Each action stands for one path of its function: `exchange_in_transaction` is
  `ExchangeOverdue`, `ExchangeTooEarly`, `ExchangeNotReady`, `ExchangeIssue` and
  `ExchangeRecover`; `rotate_refresh_in_transaction` is the six disjuncts of `Rotate`.
* `last_seen_at` is not modelled: nothing here reads it.  No code changes a device's
  status or version, so these are a constant.

### CredentialCoordinator, DeviceAuthorization, AuthorizationPolling and the code

The coordinator is one object on one thread.  In `CredentialCoordinator`, `flow[f]` is
the activation of an async function, `f` one of init, refresh, logout, retry, discard; an
action runs from one await to the next.  `queue` is `credentialMutationTail`, `wire` the
requests in flight, `disk` and `marker` two files.  `operationEpoch` is only compared
with a captured value, so incrementing it marks the flows under way stale.

* `Refresh` is `getAccessLease` or `refreshAccess` without a usable token; when a token
  is about to expire is left to chance.
* The logout of the runtime on a locked session that has a marker is the retry, so
  `Retry` covers both.
* A save or a removal is one step here, and one that failed may have taken effect or not
  (`StoreFails`): `CredentialStore` shows that the file behaves like that.
* Failures (`Crash`, `Dispose`, `Timeout`, `InitFails`, `StoreFails`, `MarkerClearFails`,
  `LogoutMarkFails`, `AccessExpired`, `StreamBreaks`) are limited by the scenario.  A
  request given up by its sender stays on the wire and may be served later or never.

`DeviceAuthorization` is `runAuthorization`, `resumeAuthorization` and
`completeAuthorization` at the same grain, with the buttons the window offers in each
status, the user's decision in the browser, the server's authorization rows, and the
network's verdict (`Verdict`, `Discarded`), which runs beside a sign-in.  The loads of
`initialize()` are one step, and so are a logout and a refresh, which the other module
has in full.  A change of profile between two starts is not modelled.

`AuthorizationPolling` counts time in half seconds, because the server stores whole
seconds, cut down.  Requests and answers take any time; the program may be restarted.

### CredentialStore, AuthorizationStore and the code

An action is one file-system call, `pc` or `at` the next one.  In `CredentialStore`, `fs`
maps the four names the store uses (record, backup, temporary file, tombstone) to
contents.  What a power loss leaves is modelled too, because the code flushes files and
directories against it: `durable` is the directory with unflushed contents torn, and
`persisted` every directory since the last `syncDirectory`, of which a power loss picks
one (directory entries change in order).  On Windows, where the code does not sync
directories, entries are taken as durable at once.

* `Record(d)` is the record a directory stands for; `may` (and `possible`) are history
  variables: the record last reported saved or removed and those whose operation was cut
  short since.
* Each call of `finishPendingRemoval`, `recoverWindowsReplace`, `atomicReplace` and its
  catch and finally blocks is a disjunct; a failed call leads where the code's catch does.
* `AuthorizationStore` does the same for the pending authorization, whose file is moved
  aside on every platform and put back by a roll-back that drops its errors.  `lost` is a
  history variable: a save failed in its last call, the flush after the old record was
  deleted, and its roll-back took the new record away as well.
* The fields of a record are not modelled: contents are whole or torn.  Permissions and
  the profile's identity do not change between operations and are left out.

### DesktopNetwork and the code

A run is one call of the loop's `run(current)`, known by its generation.  The module
variable `controller` is shared by all runs, so a run's signal is *bound* while its
controller is still there, *detached* once it was replaced, or *aborted*.  Everything is
on one thread: the environment acts only when no continuation is ready (`Quiet`), as the
event loop drains its microtasks first.  Business calls are a read of the notification
list, a click on a notification and a write; each takes a lease, is sent, may find its
token expired and is repeated once if it is idempotent.  Back-off times are left out: a
timer fires at some time.  The bytes of the stream are reduced to how it ends.

### DesktopFiles and the code

Each pick, upload, download and preview is a job with a program counter; a step is the
code between two awaits.  A snapshot is one unit of the quota and one of `Contents`.
`ipc/file-state.mjs` is `chain`: withdrawals are queued as promises, and once one of them
is rejected the later ones are dropped.  Any call may fail, limited by the scenario.

* A removal whose failure the code swallows is a choice of its own.  After a failed capture
  it leaves a stray staging file, which nobody counts (`strays`); after a paste whose
  source cannot be removed, or at a full vault (`VaultLimit`), a snapshot that no
  capability names (`why` is "lost").  Both are there until the next start.
* An abort counts while the bytes move.  Once the answer of an upload has come (`Sent`,
  `Closed`, `Confirm`), or the body of a download is complete, nobody looks at the signal
  again, and the transfer finishes.

A grant is issued and consumed without an await by an
upload, so only downloads' grants are state.  AES-GCM, the Windows path guard, dialogs and
revealing a download are not modelled.

### The operation tables and ApiGateway

`ApiClient` gives the request of each method, `DesktopRoutes` the renderer's patterns in
their order, `DesktopOperations` the main process's operations with the input they take.
The value of a field is its own name, so that a value that ends up in another field
shows.  `ApiGateway` sends each call through the three tables, with every subset of its
optional fields as far as they matter, and through the answers and failures of
`rest-transport.mjs`.  Values are valid: limits of length, enumerations, the rule about a
batch's targets and the parsers of answers are left out.

### AppShell, Routes and the code

Every handler is a record: on which pages it can be started, which busy flags it needs
and takes, which action counter it raises, how it decides that its answer is still
wanted, how it frees its flag, and the awaits it makes, in order.  The actions (`Begin`,
`Served`, `Answered`, `Failed`, `RefreshBegins`, ...) run any of them.  The data of a page
is split into the parts the state has; a part is known by its key and version.

* A load reads all its parts at one instant; in the code they are requests sent together.
* Register and sign are one await, as are put and confirm, and the cancellation of a
  draft and its creation: nothing of the page is read in between.
* `pasteWorkItemPrimaryPostFile` goes on as an upload once its post exists; the version
  shown after an in-place append claims only the change of its own.
* The unlock button of a resource and the flags of pages whose loads clear them are as in
  the code, also where that leaves a flag set or lets two runs hold one; `robbed` records
  which handler took a flag from which run.
* `PartsOfRoute` speaks of the pages whose address has a key (`PathKeyed`): an
  item, a project, a library, a resource, a cycle.  The other pages have one address each.
* Following a notification, the selection on the analysis page and previews inside texts
  are not modelled.

`Routes` keeps builders and parsers apart as the code does.  Values are good ones, blanks,
ones with a slash and unknown ones; numbers are text.  A pager hands on what the address
has, except that of the roles, which hands on the role on the screen: the one asked for
or, if there is none such, the first of the list, as `get_system_roles_view` selects it
(`Selected`, `OnScreen`).

### LiveUpdates, WorkItemLive and the code

The data shown is a version number.  A connection has a greeting to come and broadcasts
not yet read; a channel holds `ChannelSize` of them and a connection that lags is told so.
`LiveUpdates` has the topbar's stream on both hosts, the merging of refreshes, the
browser's polling and the release prompt; `WorkItemLive` has an item's stream, its
subscription when the page changes, and typing with its renewal and time limit.

What the models show beside the properties: a second release heard of while a prompt is
open is noted as prompted and not shown by itself; a slow answer of the poll puts older
numbers back until the next one; the item's stream sends no refresh when it connects
again; focusing while already active does not renew the typing.

### TimeSchedule, RichText*, AttachmentPreview, BrowserFiles and the code

`TimeSchedule` counts days from the first in view; blocks may lie beyond it on either
side, are drawn at its edge all the same, and can be dragged, resized, edited and deleted.
`Replaced` is the arrival of a newer list, `SaveOperations` the difference that is saved,
call by call, each of which may fail, also because the server refuses a block that ends
before it begins or one it no longer has; project, hours and task of a block are one note.
Four history variables say what happened since the list was loaded: the blocks changed
or sent here (`touched`), those resized while outside the view (`flipped`), what others made of a
block (`theirs`), and what failed saves had written (`strewn`).

`RichTextEditor` knows the text by its version and an attachment by its upload; the
application is its busy flag.  A paste captures the selection when it begins; when its
files have been read, `startPasteUpload` deletes what is selected, attachments and pending
nodes included, without telling the application (`unsaid`).  `RichTextToolbar` has the menus' hover timers and the saved
range; `RichTextContent` the sources of the text shown and the width of the table of
contents.  The editing commands are the browser's.

`AttachmentPreview` counts scales in hundredths, rounded as `normalizeScale` does, sizes
and positions in pixels, with the steps of wheel (0.18) and buttons (0.25), the factor 0.98
of the stage and the tolerances of `resolveViewMode`.  Where the code compares doubles and
the exact difference is 0.08, either answer is allowed (`Tolerances`).  It turns by quarter
and treats videos and texts like images whose source is resolved.  `BrowserFiles` has tabs
that upload, retry, download and preview one attachment of a resource, with the server's
row and stored object; a digest is the content itself, a sealed chunk opens only under the
key, nonce and associated data it was sealed with (WebCrypto is external).  The detection
of content types and the comparison of HTTP headers are left out.

### DesktopLifecycle, PreferenceStore and the code

A window is a record of its life, the page in it and what the page's renderer shows;
`mainWindow`, `tracker` and `flags` are the module variables of `main.mjs` and the two
readiness trackers, `init` the activation of `initializeDesktopCredentialRuntime`, which
runs while the window loads.  Messages between the two processes arrive in order, so the
page's `dom-ready` reaches the main process before what the page's script sends; `Mount`
is therefore possible only from then on.  The window is hidden while `initialize()`
waits for a pending authorization.  The loop publishes its seven states, of which
`WORKSPACE_NETWORK_STATES` leave a workspace on the screen; the smoke-test modes are left
out.

`PreferenceStore` makes a call of the file system a step.  `writeQueue` is `queue`; an
entry is a user and a snapshot, and the order of the entries matters because only the
first `Limit` are read.

## 3. Runs

Bounds are constants of the modules or fields of scenarios (`Scenarios`, `Budgets`), of
which Init chooses one, so that each scenario can have its own mix of what happens and
what goes wrong.  In `DeviceSessions` a lifetime is one to three ticks, chosen so that
access tokens expire before results, results before credentials, and sliding before
absolute ends, within the clock's range.

| Run | Checks | Bounds and why they are enough |
|---|---|---|
| `rotation` | `TypeOK`, `Lineage`, `SupersededTokensDie`, `LivesItsTime`, `OneHolder`, `LeaseAgreement`, `RevocationFinal`, `FreshGrantsAreLive`, `FamiliesRefine` | one family, three transactions, two rotations, clock 0..4, lag 1: two rotations reach the absolute cap and a replay of an old and of the newest generation; three transactions are owner, successor and stranger |
| `authorization` | `CapacityRespected`, `ConsumedHasFamily`, `RefusalFinal` | two authorizations, two users, capacity 1, clean-up batches of 1, no rotation: the second start meets the limit, and a lagging stamp meets an expired row |
| `erasure` | `ResultsErased` | one family, two transactions, fair clean-up, batch of 1 with several results due |
| `coordinator` | `NeverReplays`, `RecordInStep`, `LogoutConfirmed` | up to four rotations and three faults under a revocation (a fault in the recovery of a fault), which is what `NeverReplays` is about; and all events but an early lease with two rotations and one fault |
| `settles` | `OperationsSettle` | fair, with logout and revocation, one fault |
| `network` | `SessionsKeptApart`, `MutationsSentOnce`, `Reconnects` | two sessions, any two of eleven disturbances in any order: a second one meets what the first left under way |
| `files` | `SpoolKept`, `TransfersEndWithTheirPage`, `FilesArriveWhole`, `Settles` | three picks and two of each kind of transfer, limits of 1 or 2 so that the last meets them; four operations with one fault, two with two faults of any kind, two previews with three, three picks with two failing copies or removals and a full vault |
| `shell` | `OneHolderEach`, `PartsOfRoute`, `WritesSurviveLoads` | two keys, two runs of handlers and one or two page loads beside the first, in scenes that each join the handlers sharing a flag, a counter or data; at most one failure, one change by someone else and one event; and two scenes with three runs, in which one loses its flag and a third takes it |
| `client` | thirteen properties of sixteen parts, below | below |
| `verdict`, `foreign`, `signin` | expected violations, see section 5 | the events each needs |

Deadlock is not checked: the server may have nothing left to do at the end of the bounded
clock, a client may sit idle, and a bounded scenario ends.

Symmetry is used in `rotation` and `authorization`, over sets of model values that no
definition orders; not in `erasure`, which is about liveness.

### The parts of the run `client`

The sixteen parts share no variable.  `ClientParts` instantiates each module, its Init
chooses one part, and the others stand still; so the run explores the disjoint union of
their state spaces, and each property speaks of its part.

| Part | Property | Bounds |
|---|---|---|
| `store` | `RecordsKnown`, `RecoveryNeutral` | both platforms, two records, three faults: in the operation, in its roll-back, in the next one's recovery |
| `pending` | `RecordsKnown` | both platforms, two records, three troubles |
| `signin` | `SignInsServed`, `AuthorizationSettles` | two presses of the button, one fault, one stop of the program |
| `polling` | `SignInsServed` | interval of a second, lifetime of six, thirteen seconds, one restart |
| `lifecycle` | `WindowsKept` | three windows; two activations, one with a failure, a reload with a change of the network or a failure, a sign-in beside a reload, a mismatched profile that becomes locked, an activation beside a change of session |
| `prefs` | `RecordsKnown` | both platforms, two users, two snapshots, a limit of two entries, three writes, one mishap |
| `gateway` | `SentAsAsked` | every method of the client with optional fields given or not, each answer |
| `routes` | `PagesLand` | every page with one field at a time and what pagers and forms pass on |
| `live` | `ScreensFollowEvents`, `BadgeCatchesUp` | both hosts, channel of one, two changes with a drop, a failure or a visit; three deployments of two releases with two checks |
| `item` | `ScreensFollowEvents` | two items, channel of one, up to three changes, a drop, a failure or several visits; typing for six ticks of a limit of six, or across a drop or a failure |
| `schedule` | `ScheduleKept` | two days in view, a block before them and dates typed in on both sides, two edits, two saves, one failure, both modes |
| `editor` | `RichTextKept`, `UploadsSettle` | three files pasted together, two alike in looks and one in bytes, one pasted later, each paste over any selection; two deferrals, one retry, one change from outside |
| `toolbar` | `RichTextKept` | two menus, two places of the text, four moves |
| `content` | `RichTextKept` | two texts with one medium; two drags with two pointers |
| `preview` | `AttachmentsShown` | a tall and a wide image and a document, three sizes of the stage (the tall one fits their width at 2.61, at 1.20, which is within reach of the steps, and not at all); four shows, or five moves of one image |
| `browser` | `AttachmentsShown` | two tabs, chunk of two bytes, files of one, two and three bytes, plain and sealed; two tries with a change of the file on disk or a fault |

`RecordsKnown`: whenever the program stops, a file holds what was saved last or what was
being written, and nothing whose removal was answered, with one exception for the pending
authorization (section 5), which Windows does not have; and no write of the statistics
cache loses the entry of another user.  `SignInsServed`: credentials the server handed out
are on disk or will be asked for again under the transaction on disk, and a client that keeps
to what it is told is put off by the polling gate only after a restart, and for each one
twice in a row at most.  `WindowsKept`: quitting leaves nothing
running, whatever it interrupts; a window is on screen as soon as it has something to
show and not before; a page that has loaded has missed no state of the two publishers.
`SentAsAsked`: method, path and fields at the server are those of the client's method,
and the tables agree.  `PagesLand`: an address leads to the page it was built for,
and turning a page keeps what is asked for, with the two exceptions of section 5.
`ScreensFollowEvents`: a page that is connected and at rest shows what the server has, a
prompt offers a release that is wanted, an item's discussion misses no change, whoever
keeps typing is shown.  `ScheduleKept` has five parts: no block ends before it begins,
but for one resized outside the view, and the server never holds such a one
(`BlocksInOrder`); blocks are shown once, none over another, in few rows (`BlocksShown`);
undo leads back to what was loaded (`UndoLeadsBack`); a block that nobody changed here
stays as others left it, through saves, failures and repetitions (`OthersKept`); a save
that nobody else's change meets leaves the server with what was shown when it was
confirmed, whatever is edited meanwhile, and repairs all that earlier failed saves did but
for the two things of section 5 (`SavedAsShown`).  `RichTextKept`: an
upload runs once, lands and owns its URL; the application's value is the document without
its pending nodes, and with what pastes have deleted since it was last told; a menu's range
ends with it; sources belong to the text shown.  `AttachmentsShown`: what is handed to the user is what was registered, a
confirmed upload opens, the dialog leaves nothing behind, an image stays on its stage, and the mode shown is the
one the scale has within the tolerances of the code.

### Fairness

* `DeviceSessions!Fairness`: the three steps of the clean-up.  `serve.rs` calls them one
  after the other in a loop for as long as the server runs, each whether or not the one
  before failed.  Nothing is assumed of clients or of users.
* `CredentialCoordinator!Fairness`: the event loop resumes a flow whose await is over, a
  file operation ends, a request that was not lost is answered (the client's 15 s limit
  ends it otherwise), a started process starts and a disposed one exits.  Users, crashes
  and the host's requests are not fair.  `RetryingSpec` adds a user who keeps pressing the
  retry button; no run uses it.
* `DesktopNetwork!FairSpec`: each continuation is run, each timer fires, and a request is
  answered in the end; disturbances are finitely many and not fair.
* `DesktopFiles!FairSpec`: some transfer or withdrawal proceeds as long as one can.  Every
  await there is a file operation, or a request with a time limit.
* `RichTextEditor`: uploads proceed (`Proceed`); typing, pasting and retrying are not fair.
* `LiveUpdates`: the interval timer of the topbar's poll ticks and its request ends
  (`Polls`).  Nothing is assumed of the stream.
* `DeviceAuthorization`: flows and discards go on (their requests have time limits) and an
  authorization expires in the end.  The user's decision is not fair.

## 4. Proofs

Eight modules hold theorems.  They speak of any finite or infinite sets of authorizations,
users, transactions, operations and contents, any lifetimes and any bounds, within the
assumptions named below.

| Module | Theorem | States |
|---|---|---|
| `DeviceSessions_proofs` | `Invariance` | `Spec => []IInv` |
| | `TypeCorrect` | `Spec => []TypeOK` |
| | `ExchangeSound` | `Spec => []ConsumedHasFamily` |
| | `OneLine` | `Spec => []Lineage` |
| | `SupersededDead` | `Spec => []SupersededTokensDie` |
| | `SingleHolder` | `Spec => []OneHolder` |
| | `ChecksAgree` | `Spec => []LeaseAgreement` |
| | `RevokedForGood` | `Spec => RevocationFinal` |
| | `GrantedLive` | `Spec => FreshGrantsAreLive` |
| | `CapacityKept` | `Spec => []CapacityRespected` |
| | `RefusedForGood` | `Spec => RefusalFinal` |
| | `LifeInvariance` | `Spec => [](IInv /\ LifeInv)` |
| | `LifetimesKept` | `Spec => []LivesItsTime` |
| | `FamiliesImplement` | `Spec => FamiliesRefine`: the tables implement `CredentialFamily` |
| `CredentialStore_proofs` | `StoreInvariance` | `Spec => []StoreInv` |
| | `RecordsKept` | `Spec => []RecordKnown` (the run `client` checks it in `RecordsKnown`) |
| | `RecoveryIsNeutral` | `Spec => RecoveryNeutral` |
| `CredentialCoordinator_proofs` | `CoordinatorInvariance` | `Spec => []CoordinatorInv` |
| | `ReplaysNever` | `Spec => []NeverReplays` |
| | `RecoverableAlways` | `Spec => []DiskRecoverable` |
| | `StepKept` | `Spec /\ Undisturbed => []RecordInStep` |
| | `LogoutIsConfirmed` | `Spec => []LogoutConfirmed` |
| `DesktopNetwork_proofs` | `ApartInvariance` | `Spec => []ApartInv` |
| | `KeptApart` | `Spec => []SessionsKeptApart` |
| | `SentOnce` | `Spec => []MutationsSentOnce` |
| `DesktopFiles_proofs` | `FilesInvariance` | `Spec => []FilesInv` |
| | `SpoolsKept` | `Spec => []SpoolKept` |
| | `TransfersEnd` | `Spec => []TransfersEndWithTheirPage` |
| | `ArriveWhole` | `Spec => []FilesArriveWhole` |
| `AppShell_proofs` | `ShellInvariance` | `Spec => []ShellInv` |
| | `UnlockInvariance` | `Spec => []UnlockInv` |
| | `HoldersKept` | `Spec => []OneHolderEach` |
| | `PartsKept` | `Spec => []PartsOfRoute` |
| | `WritesKept` | `Spec => []WritesSurviveLoads` |
| `ClientParts_proofs` | `FilesHoldWhatWasWritten` | `PartsSpec => []RecordsKnown` |
| | `SigningInIsServed` | `PartsSpec => []SignInsServed` |
| | `WindowsAreKept` | `PartsSpec => []WindowsKept` |
| | `ScreensFollow` | `PartsSpec => []ScreensFollowEvents` |
| | `RichTextStaysWhole` | `PartsSpec => []RichTextKept` |
| | `AttachmentsAreShown` | `PartsSpec => []AttachmentsShown` |
| `ClientScreens_proofs` | `SealedOpens` | `decryptFile(encryptFile(k, p)) = p` for every sequence p and every size of a chunk |

Each proof has the same form: a lemma per action that it keeps the inductive invariant, a
lemma that joins them along `Next`, and theorems that read the properties off.  TLC
checked every inductive invariant on the instance of its run before it was proved.

### Device sessions

Assumptions: `PolicyAssumption` (what `validate_policy` demands of the lifetimes, and
that they are natural numbers), `BoundAssumption` and `NullAssumption`.

The inductive invariant `IInv` joins `TypeOK`, `ConsumedHasFamily` and `Lineage` with
what they need to be inductive:

* `ApprovedHasUser`: an approved authorization has its user, without which the family
  created from it would have none;
* `SupersededAccessDead`: the access session of a rotated generation is not active.
  This is `SupersededTokensDie` without the stamps: the code revokes the row in the same
  transaction, so it need not rely on expiry;
* `GrantsRecorded`: whatever was handed out is recorded, generation 0 as the transaction
  of its authorization and generation g + 1 as that of the rotation of g.  A rotation row
  never changes its transaction and a generation has one such row, which gives
  `OneHolder`;
* `VersionsAgree`: an active family still has the version its access sessions carry;
  that is why the two differently written checks of `LeaseAgreement` agree although only
  one compares the family's version.

The two action properties rest on `OnlyIssuingIssues` (a step that hands out something
new is an exchange or a rotation that issues: the recovery paths hand out nothing the
history does not already hold, by `RecoverChangesNothing`).

`LifeInv` adds what lifetimes and the refinement need: `GenerationHasFamily`,
`OlderRotated` (a family has one newest generation) and `TxnsOfGrants` (a transaction is
on record only where credentials were issued to it).  Its proof splits the steps into
those that issue, and quiet ones (`QuietStep`), which move a status and never a lifetime;
the clock matters in one place only, where a lagging stamp marks a credential as overdue:
a stamp is never ahead of the clock, so what a stamp finds overdue is.  `CapacityInv`
needs the set of open authorizations to be finite before it can be counted.
`FamiliesImplement` maps a family to the generations that exist, their holders and its
status; every quiet step is a stutter of it or a revocation, every issuing one an issue.

### Credential store

Assumption: `StoreAssumption`; the records are told apart from the markers that stand for
their absence and for the answers.  `StoreInv` says what lies where before every call:
`FlushedAgrees` and `NeverTorn` (a record is flushed before it gets a name that is read),
`UnderTombstone` (a removal deletes under its tombstone, which goes last),
`NewRecordWritten`, and `OldRecordAtHand` (while a replacement may still be undone, the
old record is in the target, or in the backup with nothing in the target).  They are
needed because `RecordKnown` speaks of every directory a power loss may leave, which
depends on the order of calls several steps earlier.

### Credential coordinator

Assumption: `CoordinatorBounds`, for every bound and every set of scenarios.
`CoordinatorInv` describes a
coordinator of which only rotations are asked (`Undisturbed`: starts, refreshes,
expiries, kills, lost answers, failed writes and revocations by others, in any number):
there is a newest generation t such that the record on disk is t, or t - 1 with the
transaction t was issued to, and every request in flight, also those given up long ago,
asks for what its generation was or can only be rotated by (`InStepAt`).  It needs the
record in memory, the one write that may be queued and what a flow waits for tied to that
record (`RotationInv`, `QueueInv`, `WireInv`).

The premise is there because the proof failed without it: with a discard (a disabled
user, a stream that breaks off) or a lease asked for during `initialize()`, as with a
logout, `NeverReplays` and `DiskRecoverable` do not hold, and TLC shows how (section 5).
`RecordInStep` is the same statement with the memory at rest; in the other scenarios it
is model-checked.

`LogoutIsConfirmed` has no such premise.  It covers both ways in which a logout reports
success, the answer of `client.logout()` and `discardLocalSession()` in its catch, and the
discards of a retried revocation.  Its invariant `LogoutInv` is that a logout or retry
which has its answer, or has gone on to remove the record or the marker, finds the family
revoked, or the user refused by the server in this run of the process (`AnsweredLogout`,
`Confirmed`); no step of another flow brings a logout nearer to its success (`NotNearer`).

### Network

Assumption: `NetworkBounds`.  The theorems hold for every bound on sessions, generations
and faults.  `ApartInv` rests on three facts.  What was taken under an epoch (a stream, a request) belongs to the session
signed in for as long as that epoch lasts, because a session never ends without the epoch
moving.  Only the run of the current generation may speak, and what moves the epoch moves
the generation.  And an answer is used in the very turn it arrives in (`AnswerAlone`):
nothing else is ready then, so nothing can change the session in between.

### File runtime

Assumption: `FilesAssumption`: the sets of operations are disjoint and finite, the limits
positive.  `FilesInv` says, for every step of every operation, who owns a snapshot
(capture, vault, upload, scheduled or failed removal) or who was told that it stays.  The
keys are: an upload that took a snapshot left no entry in the vault, so no second one can
take it; before it confirms, the snapshot is gone from the spool; a withdrawal that finds a
transfer moving bytes or its save dialog open has aborted it or taken its grant before the
step that would complete it, and one that finds it later marks nothing (`UploadEnds`,
`DownloadEnds`); the epochs of
a preview are ordered, request, lease, today's (`PreviewFits`), so that an entry bound to
today's epoch was leased in it; and what an attachment was registered as never changes
(`ServerInv`), so that a retry with another file is refused before it is put.

### Application shell

Assumption: `ShellAssumption`: runs have distinct names, those of the event stream are
others, there is a key and a load, and a scenario names pages and handlers of the tables.
The theorems hold for any number of runs, loads, keys, faults and events and for every
scenario, hence for all handlers at once; TLC takes them a few at a time.

The handlers enter through the few facts about a row of their table (`HandlerFits`,
`StepFits`), which `HandlerTable` looks up for each of them; a handler added to the table
needs only these.  `ShellInv` has, besides the shapes of the variables, four parts:

* `FlagsInv`: a flag that is set belongs to a run that took it and will clear it when it
  ends, for one that clears only while wanted because its counter still names it; a run
  that holds a flag was the last to set it, unless the flag is in `Contested` and one of
  the eight handlers in `Robbers` took it; a run with any other flag holds it to its end.
  `UnlockInv` says the same of the unlock button as far as it is true: its run is under
  way, or over with another action on resources begun, or the page left, or the load that
  will clear it waiting.
* `CapsInv`: a capability is in use or its run is about to be answered, and the run whose
  answer would bring one into use finds none in use.
* `VersionsInv`: nothing shown or read is newer than the server, and a load that is still
  wanted has read at least the version of the last change shown, because showing a change
  gives up the loads under way.
* `PageInv`: the parts of the page are of its key, or a load that resets them waits for
  the cancellation of a draft; and a load that is still wanted is of the open page.

The proof attempt corrected the property, not the model: `PartsOfRoute` had counted a
revealed download among the parts of every page, and it is false for one of an item
revealed before going to a project, as TLC then showed.  The code renders it only on the
item page (`app.jsx:7190`, `app.jsx:7251`), which `OnPage` now says.

### The parts of the clients

Assumptions, in `ClientParts`: records, markers and names are told apart
(`PendingAssumption`, `EditorAssumption`); bounds, sizes and times are numbers, positive
where the code divides by them or counts with them (`SignInAssumption`,
`PollingAssumption`, `PreviewAssumption`, `BrowserAssumption`, `LifecycleAssumption`,
`ContentAssumption`); an entry of the typing table outlives the time between two reports
(`ItemAssumption`: renewal plus idle timer is at most the TTL, as the constants of
`work-item-events.js` and `realtime.rs` are); and an installation has no more users than
entries are read (`PreferenceAssumption`; beyond it the property is false, section 5).
Nothing is assumed of the budgets, so the theorems hold for any number of changes,
faults, drops, stops and windows.

`PartSteps` says that a step of the composition is a step of the chosen part and leaves
the others alone; each part then has an inductive invariant of its own.

* Files.  `PendingInv` gives for every call of the file system what lies in target,
  backup and marker before it (`PendingAt`), and that every directory a loss of power may
  leave has a possible record, or none after a save that took its own back (`lost`), which
  on Windows never happens.  `PrefsInv` says that no user has two entries and that a
  write under way has read the entries that are there.  The credential file's part is
  `StoreInv`, above.
* Signing in.  `SignInv`: what the authorization under way has on disk at each step
  (`FlowKept`), what a discard beside it has taken (`DiscardKept`), and what a session at
  rest leaves (`SessionKept`).  `PollInv` bounds how far a client is behind the gate: a
  debt `e` of at most two refusals, which only a request from before a restart (`stray`)
  can renew.
* Windows.  `WindowsInv`: quitting moves the generation past every start under way and
  leaves nothing (`QuitKept`); the program's own window is alone unless it was opened
  beside another (`WindowsApart`); the readiness flags and the tracker are those of its
  page (`FlagsKept`); a loaded page knows both states (`InformedKept`).
* Live updates.  `LiveInv` and `ItemInv` say where the word of a change is: still in the
  channel or the greeting, in a pending refresh, in a request that was not yet served or
  was served with the newest version, or on the screen (`Informed`, `ItemInformed`).
  `ReportedInTime` relates the age of the last report to the time left to the idle timer
  and the entry's time to live, `TypingKnown` the server's entry to what the page shows.
* Rich text.  `EditorInv`: calls and timers of an upload are one at most and none after
  an error, its URL goes with its entry, and what was shown or is pending is in the
  document or was selected when files were pasted over it; the document is the value handed
  out but for `unsaid`, unless the application set it.
  `ToolbarInv` and `ContentInv` add that at most one menu is open, and that a width is
  within its limits.
* Attachments.  `PreviewInv`: only the newest call may bring a source or a viewer, and
  there is none before it does (`CallsKept`); scales stay within the limits that the size of
  image and stage give, and within the tolerance of the mode they are in (`FitsStage`).  The
  proof that an image stays on its stage is integer arithmetic over all sizes.  `BrowserInv`: what a tab puts or confirms is a
  sealing of the file that was registered (`UploadKept`), what was confirmed is what is
  stored unless it was overwritten (`RowKept`).  It needs `SealedOpens`, which is proved
  from the layout of the chunks without induction: each byte of the sealed body is given
  by its position.

The proof attempts corrected the models.  The removals of a discard wait behind the writes
of an authorization, in the two FIFO queues of the coordinator (`Behind`); the model had
let them pass.  A page that cannot be loaded leaves a window that may still be listening,
and the stop of the network loop is published to it (`LoadFails`), without which a loaded
page misses a state.  A gap in an item's stream is over only when the answer that counts
comes while the stream is up.  A text can be posted only when it is not empty.  Of the
properties, `QuitTakesAll` is now unconditional, and `SoonServed` counts restarts instead
of assuming one.

### Only model-checked

* Liveness (`ResultsErased`, `OperationsSettle`, `Reconnects`, `Settles`,
  `AuthorizationSettles`, `BadgeCatchesUp`, `UploadsSettle`): the prover handles neither
  fairness nor ENABLED.
* `RecordInStep` with logouts and discards: there it says only that a session at rest
  has the record on disk, and the invariant it needs follows four flows at once.
* `ScheduleKept`: the rows of the chart are assigned by recursion over the sorted blocks,
  and a save compares the numbers of its calls; both need induction over sequences or the
  cardinality of sets built along them.
* `SentAsAsked` and `PagesLand`: statements about fixed tables, of which TLC enumerates
  every row; a proof would do the same by cases.

No module uses RECURSIVE, which the prover could not take.  The `TypeOK` of the client's
modules documents their state; it is an invariant of them, but no run lists it.

## 5. Where code and documentation disagree

Three runs are expected to fail, with the counterexample TLC finds.

1. `verdict` (`VerdictMeetsItsSession`).  After a 401 on the stream the loop awaits a
   probe and then acts on its verdict without comparing its generation again
   (`network-coordinator.mjs:97`).  A session signed in meanwhile is discarded.  The
   network plan says that late answers of an old generation must have no effect.
2. `foreign` (`AllPartsOfRoute`).  A file pasted into an item without primary post
   creates the post first and puts the answer into whatever item is open when it comes
   (`app.jsx:5259`).  The plan of the shared layer keeps the invariant that an outdated
   answer does not overwrite the current route.
3. `signin` (`OffersWork`).  After an authorization expired or was denied the window
   offers "开始授权", and `runAuthorization` throws unless the status is unauthenticated
   (`credential-coordinator.mjs:179`).  The plan says every such state has a way to
   recover.

The modules state more that is known not to hold.  No run lists these; adding the name to
the configuration given makes TLC print the trace.

| Statement | Where | What happens |
|---|---|---|
| `NeverReplays` with the event `early` | `CredentialCoordinator`, a scenario of that event, four transactions and a fault | `initialize()` recovers a rotation without registering it as the refresh in flight, and `main.mjs` publishes the runtime before it awaits `initialize()`; a lease asked for meanwhile uses a second transaction for the same generation and the server revokes the family |
| `NeverReplays` with the event `logout`, `deactivate` or `drop`, which its premise leaves out | `CredentialCoordinator` | the rotation of a logout without an access token is not the refresh in flight either, and a discard empties the memory beside a rotation: a second transaction is used for the same generation, and the server revokes a family that was being given up |
| `SuccessMeansRevoked` | `CCSafety.cfg` | `user_inactive` is one of `REVOKED_CODES`, so the logout of a disabled user discards the session and reports success (`credential-coordinator.mjs:521-523`) while the family stays active, and usable once the user is enabled |
| `LogoutHolds` | `CCSafety.cfg` | a logout without an access token rotates first; a concurrent refresh that ends after the logout failed leaves the session open |
| `DeletedRecordStaysDeleted` | `CCSafety.cfg` | while `discardLocalSession` awaits the removal, a refresh starts and its save is queued behind it |
| `LockedRecovers` | `CCSettles.cfg` under `RetryingSpec` | a session locked by a failed rotation has no marker, and the retry it offers refuses to run without one |
| `FaultsKeepTheSession` | scenario `Dropping` | a connection that breaks off is reported as `invalid_stream` or `invalid_utf8` and taken for a security failure; the credentials are deleted |
| `SuspendHolds` | `DNLifecycle.cfg` | `start()` clears `suspended` (`network-coordinator.mjs:50`), so a credential event during sleep connects again; the network plan's R14 says otherwise |
| `NothingLeftBehind` | `DFTransfers.cfg`, or `TwoDownloads` alone | a download refused at the concurrency limit (`download-executor.mjs:21`) leaves its temporary file and handles; so does a capture whose staging file cannot be removed (`file-spool.mjs:187-188`), until the next start |
| `WithdrawalsCarriedOut` | `DFTransfers.cfg` | a snapshot that cannot be removed twice rejects the chain of withdrawals, and `file-state.mjs:11` chains the later ones to it: they are dropped, and the capabilities of an ended page or session stay in the vaults |
| `UploadsStayInEpoch` | `DFTransfers.cfg` | the withdrawal that follows a refresh of the session is queued behind an earlier one; an upload that is signed meanwhile takes its snapshot although the epoch has moved |
| `ContractsGranted` | `DFTransfers.cfg` | `encryption` is missing from `CONTRACT_KEYS` (`transfer-grant-vault.mjs:6`), so the desktop refuses encrypted uploads, which `docs/plans/2026-08-28-file-encryption-plan.md:13` asks for |
| `UncertainTold` | `ApiGateway` | a write that was carried out is reported as a definite failure when its answer breaks in a way other than the four codes of `rest-transport.mjs:46`; `docs/reviews/2026-08-03-d2-u4-desktop-work-item-collaboration-review.md:28` |
| `ServedOnDesktop` | `ApiGateway` | some calls of the client have no operation on the desktop or give a field its table refuses |
| `FormatsSelection` | `RichTextToolbar` | a range saved for a link to a section stays and receives the next format |
| `ShownIsValue` | `RichTextEditor` | a value the application sets while uploads are pending is not built into the editor, which goes on showing its own document; and files pasted over a selection delete it without `publish()` (`rich-text.jsx:1494`, called at 985), so the application keeps the deleted text and attachments until something else is published |

Others that the models contain without a definition of their own: typists stay shown while
the item's stream is down (`docs/plans/2026-08-10-001-feat-work-item-sse-completion-plan.md:47`);
the pager of the project list drops the search text (`app.jsx:5393`, `Forgotten` in
`Routes`), and that of the roles adds a role to an address that named none
(`app.jsx:6375-6376`, `OnScreen`); a save of the pending authorization that fails in its last
call, the flush of the directory after the old record was deleted, removes the new record as
well and leaves neither (`credential-coordinator.mjs:771-775`, `lost` in
`AuthorizationStore`); a revocation retried without a credential on disk clears its marker
without asking the server; an upload signed in time can
overwrite an object that was confirmed meanwhile (`overwritten` in `BrowserFiles`,
`api/src/web/api/mod.rs:9355`), after which downloads are refused; the answer of a time
record or allocation is put into the schedule that is shown (`app.jsx:2336`), which is why
`PartsOfRoute` leaves out the post and the schedule.

Of transfers: one that a withdrawal finds when its answer or its whole body is there
finishes, and an upload that waits for its registration or its signed request fails only
because its capability is gone by then.  A pasted file whose source cannot be removed
(`file-spool.mjs:113-115`), and a pick at a full vault whose snapshot cannot be removed
(`file-dialog.mjs:47`), keep their share of the quota until the next start.

Of the flags of the shell, which `OneHolderEach` names as exceptions: a finally clause or a
return that clears a flag without asking whose it is, after the load of a page had cleared
it and another run taken it, lets two runs of one flag go on side by side (`Robbers`,
`Contested`; `app.jsx:5326`, `app.jsx:4536`, `app.jsx:4875-4906`, `app.jsx:3096`); and the
unlock button of a resource stays disabled after an answer that is no longer wanted
(`UnlockLeftSet`; `app.jsx:3404`, `app.jsx:3552`).

Of the schedule: a handle pulled on a block wholly outside the view gives a block that ends
before it begins (`time-allocation-gantt.jsx:437`), which the server refuses; edits made
while a save runs are replaced when it ends; a save repeated after one that failed half way
creates the same block again, leaves what was changed back since, and fails each time it
repeats a deletion that was carried out.  A preview may call itself fitted to the screen
when it is up to 0.04 off, and to the width up to 0.08.

And in the shell of the desktop: a navigation within the page reopens the IPC while
another navigation is pending; two activations while the theme is read open two windows,
of which the second may stay hidden; a start that ends after the window was closed (macOS)
runs the stream without a window; the renderer's reducer drops the change from a
mismatched profile to locked, so the button to clear the mismatched credentials stays and
its command is refused; a failed reload leaves the IPC closed; a failed clean-up of the
spool shows "fatal" over a live session.  Of the statistics cache, on Windows the entries
are lost between the unlink and the rename, the entry of the user after the fiftieth is
never read (`Limit`), and a torn temporary file, which is opened to be created, blocks
all later writes of that process.

## 6. Not modelled, and the plan

Not modelled, and why: rate limiting and audit rows of the endpoints (no state the
properties tell apart); projects, work items, resources, RBAC, API tokens, statistics on
the server (single-row changes whose logic is SQL and permission tables; the clients'
modules see them as a store of growing versions); rendering, layout, menus and forms of
the front end; the app: protocol, navigation rules, menus, smoke-test modes, packaging
and release tooling of the desktop; parsers of answers; test drivers and scripts.

Next, in this order:

1. Browser sessions (`auth.rs`): refresh rotation and recovery window, sharing
   `CredentialFamily` where the promise is the same.
2. Deletion jobs of `files.rs` with their leases and retries, composed with
   `BrowserFiles`' rows and objects.
3. `AppShell` with `LiveUpdates` as the source of its events.

Proofs planned: `RecordInStep` without its premise; `UndoLeadsBack`, the part of
`ScheduleKept` that needs no induction.

## 7. Running

    tlc -config MCRotation.cfg MCDeviceSessions
    tlc -config CCSafety.cfg MCCredentialCoordinator
    tlc -config DNLifecycle.cfg DesktopNetwork
    tlc -config DFTransfers.cfg MCDesktopFiles
    tlc -config ASShell.cfg MCAppShell
    tlc -config ClientParts.cfg MCClientParts
    tlapm DeviceSessions_proofs.tla
    tlapm CredentialStore_proofs.tla
    tlapm CredentialCoordinator_proofs.tla
    tlapm DesktopNetwork_proofs.tla
    tlapm DesktopFiles_proofs.tla
    tlapm AppShell_proofs.tla
    tlapm ClientScreens_proofs.tla
    tlapm ClientParts_proofs.tla

`PROJECT.json` lists the runs, the source lines of every definition, the hazards each
property is for and, for each property of a passing run, a plausible bug (a mutated
definition) under which TLC refutes it.
