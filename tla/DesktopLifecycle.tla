-------------------------- MODULE DesktopLifecycle --------------------------
(***************************************************************************)
(* The life of the desktop program: starting up, its window and the page   *)
(* in it, the runtime that is built while the window loads, and quitting   *)
(* (main.mjs, ipc/renderer-ready.mjs, ipc/sender-policy.mjs, the two state *)
(* publishers, preload.cjs and the renderer's presentation state).         *)
(*                                                                         *)
(* One process hosts everything; what interleaves are the continuations of *)
(* its awaits, the events of windows and pages, and messages between the   *)
(* two processes.  Windows are numbered in the order they are opened.      *)
(*                                                                         *)
(* A page is "none" before its first document, "navigating" from the start *)
(* of a navigation to its commit, then "loading", "dom", "loaded"; it is   *)
(* "stayed" when a navigation failed and "gone" when its process died.     *)
(***************************************************************************)
EXTENDS Naturals

CONSTANTS
    Windows,        \* 1 .. n, the windows there may be
    Troubles        \* how often each kind of trouble may happen, and the states
                    \* of the session (outcomes)

VARIABLES
    mac,            \* process.platform = "darwin"
    boot,           \* whenReady: "theme", "protocol", "up" or "failed"
    activating,     \* activate handlers that read the theme
    window,         \* the windows and the pages in them
    mainWindow,     \* the window the program calls its own, or 0
    tracker,        \* rendererReadiness and rendererPresentationReadiness
    flags,          \* mainWindowChromiumReady .. mainWindowRevealPending
    hostState, networkState,    \* what the two publishers hold
    init,           \* initializeDesktopCredentialRuntime
    generation,     \* credentialRuntimeGeneration
    made,           \* the runtime and the coordinator it made
    global,         \* module variables and handlers that are set
    quit,           \* "no", "started", "complete" or "exited"
    trouble

lifecycleVars ==
    <<mac, boot, activating, window, mainWindow, tracker, flags, hostState,
      networkState, init, generation, made, global, quit, trouble>>

\* Public states of the session are named by their status; "mismatch" is the
\* status locked with a reason.
Status(a) == IF a = "mismatch" THEN "locked" ELSE a
WorkspaceNetworkStates == {"idle", "connecting", "online", "offline", "suspended"}
NetworkStates == WorkspaceNetworkStates \cup {"reauthorization_required", "fatal"}

Happens(kind) ==
    trouble[kind] > 0 /\ trouble' = [trouble EXCEPT ![kind] = @ - 1]

Running == quit # "exited"
Open == {w \in Windows : window[w].life = "open"}
Fresh == {w \in Windows : window[w].life = "new"}
Documents == {"loading", "dom", "loaded", "stayed"}

-----------------------------------------------------------------------------
(* What the renderer shows. *)

Unmounted == [stage |-> "none", presentable |-> FALSE, auth |-> "starting",
              net |-> "idle"]

resolveDesktopPresentationState(p) ==
    LET in(stage, presentable) ==
            [p EXCEPT !.stage = stage, !.presentable = presentable]
    IN  IF p.auth = "starting" THEN in("bootstrap", FALSE)
        ELSE IF p.auth \in {"unauthenticated", "authorizing"} THEN in("authorization", TRUE)
        ELSE IF p.auth # "authenticated" THEN in("recovery", TRUE)
        ELSE IF \/ p.net = "online"
                \/ p.stage = "workspace" /\ p.net \in WorkspaceNetworkStates
             THEN in("workspace", TRUE)
        ELSE IF p.net \in {"idle", "connecting"} THEN in("bootstrap", TRUE)
        ELSE in("recovery", TRUE)

createDesktopPresentationState(auth, net) ==
    resolveDesktopPresentationState(
        [stage |-> "bootstrap", presentable |-> FALSE, auth |-> auth,
         net |-> net])

\* p after an update to q.  An update that changes neither stage nor statuses is
\* dropped.
reduceDesktopPresentationState(p, q) ==
    LET next == resolveDesktopPresentationState(q)
    IN  IF /\ next.stage = p.stage /\ next.presentable = p.presentable
           /\ Status(next.auth) = Status(p.auth) /\ next.net = p.net
        THEN p
        ELSE next

\* A state that is published reaches the document of the window, if there is
\* one: the preload script keeps it and hands it to a page that listens.
Listens(x) == x.life = "open" /\ x.page \in Documents \cup {"navigating"}
Follows(shows, q) ==
    IF shows = Unmounted THEN shows
    ELSE reduceDesktopPresentationState(shows, q)
HostReceived(x, a) ==
    IF ~Listens(x) THEN x
    ELSE [x EXCEPT !.auth = a, !.shows = Follows(@, [@ EXCEPT !.auth = a])]
NetworkReceived(x, n) ==
    IF ~Listens(x) THEN x
    ELSE [x EXCEPT !.net = n, !.shows = Follows(@, [@ EXCEPT !.net = n])]

\* publishTo(mainWindow)
HostPublished(ws, a) ==
    [w \in Windows |->
        IF w = mainWindow THEN HostReceived(ws[w], a) ELSE ws[w]]
NetworkPublished(ws, n) ==
    [w \in Windows |->
        IF w = mainWindow THEN NetworkReceived(ws[w], n) ELSE ws[w]]

-----------------------------------------------------------------------------
(* The window. *)

NoWindow == [life |-> "new", page |-> "none", auth |-> "starting",
             net |-> "idle", shows |-> Unmounted, sent |-> FALSE,
             mail |-> FALSE, painted |-> FALSE, visible |-> FALSE,
             presented |-> FALSE, crowded |-> FALSE]
NotReady == [ready |-> FALSE, committed |-> FALSE, consumed |-> FALSE]
Hidden == [chromium |-> FALSE, presentation |-> FALSE, shown |-> FALSE,
           pending |-> FALSE]

\* The flags are those of an earlier window.
createKeepingFlags ==
    LET w == CHOOSE v \in Fresh : \A x \in Fresh : v <= x
    IN  /\ Fresh # {}
        /\ tracker' = NotReady
        /\ flags' = [flags EXCEPT !.pending = TRUE]
        /\ window' = [window EXCEPT
               ![w] = [NoWindow EXCEPT !.life = "open",
                                       !.crowded = Open # {}]]
        /\ mainWindow' = w

\* A window that is opened while another one is there is "crowded": the
\* events of both work on the same flags.
createMainWindow ==
    LET w == CHOOSE v \in Fresh : \A x \in Fresh : v <= x
    IN  /\ Fresh # {}
        /\ tracker' = NotReady
        /\ flags' = [Hidden EXCEPT !.pending = TRUE]
        /\ window' = [window EXCEPT
               ![w] = [NoWindow EXCEPT !.life = "open",
                                       !.crowded = Open # {}]]
        /\ mainWindow' = w

\* The windows and flags after showMainWindowIfReady.
Showable(f) == mainWindow # 0 /\ f.chromium /\ f.presentation
showMainWindowIfReady(ws, f) ==
    /\ flags' = IF Showable(f) THEN [f EXCEPT !.shown = TRUE, !.pending = FALSE]
                ELSE f
    /\ window' = [w \in Windows |->
           IF Showable(f) /\ w = mainWindow
           THEN [ws[w] EXCEPT !.visible = TRUE]
           ELSE ws[w]]

rest == <<mac, boot, activating, hostState, networkState, init, generation,
          made, global, quit>>

\* The document is there and its preload script has run.
Commit(w) ==
    /\ Running /\ window[w].life = "open"
    /\ window[w].page \in {"none", "navigating"}
    /\ window' = [window EXCEPT
           ![w].page = "loading", ![w].auth = "starting", ![w].net = "idle",
           ![w].shows = Unmounted, ![w].sent = FALSE, ![w].mail = FALSE]
    /\ UNCHANGED <<rest, mainWindow, tracker, flags, trouble>>

DomReady(w) ==
    /\ Running /\ window[w].page = "loading" /\ window[w].life = "open"
    /\ window' = [window EXCEPT ![w].page = "dom"]
    /\ tracker' = [tracker EXCEPT !.committed = TRUE]
    /\ UNCHANGED <<rest, mainWindow, flags, trouble>>

\* Nothing is published when the page has loaded.
FinishQuietly(w) ==
    /\ Running /\ window[w].page = "dom" /\ window[w].life = "open"
    /\ tracker' = [tracker EXCEPT !.ready = TRUE]
    /\ window' = [window EXCEPT ![w].page = "loaded"]
    /\ UNCHANGED <<rest, mainWindow, flags, trouble>>

\* The states are published again: the page may have missed them.
FinishLoad(w) ==
    /\ Running /\ window[w].page = "dom" /\ window[w].life = "open"
    /\ tracker' = [tracker EXCEPT !.ready = TRUE]
    /\ window' = [window EXCEPT
           ![w] = NetworkReceived(
                      HostReceived([@ EXCEPT !.page = "loaded"], hostState),
                      networkState)]
    /\ UNCHANGED <<rest, mainWindow, flags, trouble>>

ReadyToShow(w) ==
    /\ Running /\ window[w].life = "open" /\ ~window[w].painted
    /\ window[w].page \in Documents
    /\ showMainWindowIfReady([window EXCEPT ![w].painted = TRUE],
                             [flags EXCEPT !.chromium = TRUE])
    /\ UNCHANGED <<rest, mainWindow, tracker, trouble>>

\* React mounts with what the preload script knows, after the document has
\* been read.
Mount(w) ==
    /\ Running /\ window[w].life = "open"
    /\ window[w].page \in {"dom", "loaded"} /\ window[w].shows = Unmounted
    /\ window' = [window EXCEPT
           ![w].shows = createDesktopPresentationState(window[w].auth,
                                                       window[w].net)]
    /\ UNCHANGED <<rest, mainWindow, tracker, flags, trouble>>

\* The layout effect: the first stage that can be shown is reported, once per
\* document.
Present(w) ==
    /\ Running /\ Listens(window[w])
    /\ window[w].shows.presentable /\ ~window[w].sent
    /\ window' = [window EXCEPT ![w].sent = TRUE, ![w].mail = TRUE,
                                ![w].presented = TRUE]
    /\ UNCHANGED <<rest, mainWindow, tracker, flags, trouble>>

\* Quitting removes the handler, and a report that comes later is not read.
accept(w) ==
    /\ quit = "no" /\ window[w].life = "open" /\ window[w].mail
    /\ LET taken == tracker.committed /\ ~tracker.consumed /\ w = mainWindow
           read == [window EXCEPT ![w].mail = FALSE]
       IN  IF taken
           THEN /\ tracker' = [tracker EXCEPT !.consumed = TRUE]
                /\ showMainWindowIfReady(read,
                       [flags EXCEPT !.presentation = TRUE])
           ELSE /\ window' = read
                /\ UNCHANGED <<tracker, flags>>
    /\ UNCHANGED <<rest, mainWindow, trouble>>

\* A route change within the document.
NavigateInPage(w) ==
    /\ Running /\ window[w].life = "open"
    /\ Listens(window[w]) /\ window[w].shows # Unmounted
    /\ tracker' = [tracker EXCEPT !.ready = TRUE]
    /\ UNCHANGED <<rest, mainWindow, window, flags, trouble>>

Reload(w) ==
    /\ Running /\ window[w].life = "open" /\ window[w].page \in Documents
    /\ Happens("reload")
    /\ window' = [window EXCEPT ![w].page = "navigating"]
    /\ tracker' = NotReady
    /\ UNCHANGED <<rest, mainWindow, flags>>

\* Only a commit opens the channel again (didCancelOrFail).
NavigationFails(w) ==
    /\ Running /\ window[w].life = "open" /\ window[w].page = "navigating"
    /\ Happens("fault")
    /\ window' = [window EXCEPT ![w].page = "stayed"]
    /\ UNCHANGED <<rest, mainWindow, tracker, flags>>

RenderProcessGone(w) ==
    /\ Running /\ window[w].life = "open" /\ window[w].page \in Documents
    /\ Happens("fault")
    /\ window' = [window EXCEPT ![w].page = "gone", ![w].mail = FALSE,
                                ![w].shows = Unmounted]
    /\ tracker' = NotReady
    /\ UNCHANGED <<rest, mainWindow, flags>>

\* app.on("second-instance"): the window comes to the front, or will.
revealWindow ==
    /\ Running /\ boot = "up" /\ mainWindow # 0
    /\ IF flags.chromium /\ flags.presentation
       THEN /\ window' = [window EXCEPT ![mainWindow].visible = TRUE]
            /\ UNCHANGED flags
       ELSE /\ flags' = [flags EXCEPT !.pending = TRUE]
            /\ UNCHANGED window
    /\ UNCHANGED <<rest, mainWindow, tracker, trouble>>

-----------------------------------------------------------------------------
(* Runtime, coordinator and files. *)

Off == [runtime |-> FALSE, network |-> FALSE, business |-> FALSE,
        notifications |-> FALSE, files |-> FALSE, commands |-> FALSE,
        power |-> FALSE]
NotMade == [runtime |-> "none", coordinator |-> "none"]

Stopped(m) ==
    [m EXCEPT !.coordinator = IF @ = "running" THEN "stopped" ELSE @]
Disposed(m) ==
    [Stopped(m) EXCEPT !.runtime = IF @ = "live" THEN "disposed" ELSE @]
Started(m) ==
    [m EXCEPT !.coordinator = IF @ = "stopped" THEN "running" ELSE @]
\* The first thing a loop that is started publishes.
StartedState ==
    IF made.coordinator = "stopped" THEN "connecting" ELSE networkState

\* onPublicState and onNetworkInvalidated for a state the runtime publishes.
Publishes(a) ==
    LET net == IF a = "authenticated" THEN StartedState ELSE "idle"
    IN  /\ hostState' = a
        /\ networkState' = net
        /\ window' = HostPublished(NetworkPublished(window, net), a)
        /\ made' = IF a = "authenticated" THEN Started(made) ELSE Stopped(made)

\* The catch of the caller, after the coordinator has published n.
PublishesFatal(n) ==
    /\ hostState' = "fatal" /\ networkState' = n
    /\ window' = HostPublished(NetworkPublished(window, n), "fatal")

Stale == init.generation # generation

\* Everything up to the first await.
initializeDesktopCredentialRuntime ==
    /\ generation' = generation + 1
    /\ init' = [at |-> "enroll", generation |-> generation + 1]

InitOver == init' = [init EXCEPT !.at = "over"]

Enrolled ==
    /\ Running /\ init.at = "enroll"
    /\ IF ~Stale
       THEN /\ made' = [runtime |-> "live", coordinator |-> "stopped"]
            /\ global' = [global EXCEPT !.runtime = TRUE, !.network = TRUE]
            /\ init' = [init EXCEPT !.at = "restore"]
       ELSE InitOver /\ UNCHANGED <<made, global>>
    /\ UNCHANGED <<mac, boot, activating, window, mainWindow, tracker, flags,
                   hostState, networkState, generation, quit, trouble>>

EnrollFails ==
    /\ Running /\ init.at = "enroll" /\ Happens("fault")
    /\ InitOver /\ PublishesFatal(networkState)
    /\ UNCHANGED <<mac, boot, activating, mainWindow, tracker, flags,
                   generation, made, global, quit>>

\* The state that was restored, a sign-in that is taken up again being over, is
\* published before initialize() returns, and no await separates that from the
\* rest.
Restored(a) ==
    /\ Running /\ init.at = "restore" /\ made.runtime = "live" /\ a # "authorizing"
    /\ Publishes(a)
    /\ global' = [global EXCEPT !.notifications = TRUE, !.business = TRUE]
    /\ init' = [init EXCEPT !.at = "spool"]
    /\ UNCHANGED <<mac, boot, activating, mainWindow, tracker, flags,
                   generation, quit, trouble>>

\* Reading the credentials failed, or the runtime was disposed meanwhile.
RestoreFails ==
    /\ Running /\ init.at = "restore"
    /\ IF made.runtime = "live" THEN Happens("fault") ELSE UNCHANGED trouble
    /\ made' = Disposed(made)
    /\ global' = [global EXCEPT !.runtime = FALSE, !.network = FALSE]
    /\ InitOver /\ PublishesFatal("idle")
    /\ UNCHANGED <<mac, boot, activating, mainWindow, tracker, flags,
                   generation, quit>>

\* The generation is looked at once only, after the first spool.
ClearedUnseen ==
    /\ Running /\ init.at \in {"spool", "preview"}
    /\ IF Stale /\ init.at = "spool" THEN InitOver /\ UNCHANGED global
       ELSE IF init.at = "spool"
       THEN init' = [init EXCEPT !.at = "preview"] /\ UNCHANGED global
       ELSE /\ InitOver
            /\ global' = [global EXCEPT !.files = TRUE, !.commands = TRUE]
    /\ UNCHANGED <<mac, boot, activating, window, mainWindow, tracker, flags,
                   hostState, networkState, generation, made, quit, trouble>>

\* initializeFileRuntime clears the two spools and then sets up everything.
Cleared ==
    /\ Running /\ init.at \in {"spool", "preview"}
    /\ IF Stale THEN InitOver /\ UNCHANGED global
       ELSE IF init.at = "spool"
       THEN init' = [init EXCEPT !.at = "preview"] /\ UNCHANGED global
       ELSE /\ InitOver
            /\ global' = [global EXCEPT !.files = TRUE, !.commands = TRUE]
    /\ UNCHANGED <<mac, boot, activating, window, mainWindow, tracker, flags,
                   hostState, networkState, generation, made, quit, trouble>>

ClearFails ==
    /\ Running /\ init.at \in {"spool", "preview"} /\ Happens("fault")
    /\ InitOver /\ PublishesFatal(networkState)
    /\ UNCHANGED <<mac, boot, activating, mainWindow, tracker, flags,
                   generation, made, global, quit>>

\* The session changes: signed in or out, locked, or other credentials removed
\* (discardMismatchedProfile).
SessionChanges(a) ==
    /\ Running /\ made.runtime = "live"
    /\ init.at \in {"spool", "preview", "over"}
    /\ a \notin {"mismatch", hostState}
    /\ Happens("change")
    /\ Publishes(a)
    /\ UNCHANGED <<mac, boot, activating, mainWindow, tracker, flags, init,
                   generation, global, quit>>

NetworkChanges(n) ==
    /\ Running /\ made.coordinator = "running" /\ n # networkState
    /\ Happens("net")
    /\ networkState' = n
    /\ window' = NetworkPublished(window, n)
    /\ UNCHANGED <<mac, boot, activating, mainWindow, tracker, flags,
                   hostState, init, generation, made, global, quit>>

-----------------------------------------------------------------------------
(* Starting, closing and quitting. *)

LifecycleInit ==
    /\ mac \in BOOLEAN
    /\ boot = "theme" /\ activating = 0
    /\ window = [w \in Windows |-> NoWindow] /\ mainWindow = 0
    /\ tracker = NotReady /\ flags = Hidden
    /\ hostState = "starting" /\ networkState = "idle"
    /\ init = [at |-> "none", generation |-> 0] /\ generation = 0
    /\ made = NotMade /\ global = Off
    /\ quit = "no"
    /\ trouble \in Troubles

ThemeRead ==
    /\ Running /\ boot = "theme" /\ boot' = "protocol"
    /\ UNCHANGED <<mac, activating, window, mainWindow, tracker, flags,
                   hostState, networkState, init, generation, made, global,
                   quit, trouble>>

\* The resources were verified: window, power events and runtime.
Launch ==
    /\ Running /\ boot = "protocol" /\ boot' = "up"
    /\ createMainWindow
    /\ global' = [global EXCEPT !.power = TRUE]
    /\ initializeDesktopCredentialRuntime
    /\ UNCHANGED <<mac, activating, hostState, networkState, made, quit,
                   trouble>>

\* before-quit.  With no file runtime the rest follows at once, and with no
\* window the program ends there.
CleanUp(open) ==
    IF global.files THEN "started"
    ELSE IF open = {} THEN "exited" ELSE "complete"
IdleIfMade == IF made.coordinator = "none" THEN networkState ELSE "idle"

BeforeQuit(after) ==
    /\ quit = "no" /\ quit' = CleanUp(Open)
    /\ generation' = generation + 1
    /\ global' = Off /\ made' = Disposed(made)
    /\ networkState' = IdleIfMade
    /\ window' = IF made.coordinator = "none" THEN window
                 ELSE NetworkPublished(window, "idle")
    /\ boot' = after
    /\ UNCHANGED <<mac, activating, mainWindow, tracker, flags, hostState,
                   init>>

Quit == Running /\ BeforeQuit(boot) /\ UNCHANGED trouble

\* The resources are not the ones of the manifest.
LaunchFails ==
    /\ Running /\ boot = "protocol" /\ Happens("fault")
    /\ BeforeQuit("failed")

WindowAllClosed ==
    /\ Running /\ ~mac /\ boot = "up" /\ Open = {}
    /\ BeforeQuit(boot) /\ UNCHANGED trouble

FilesInvalidated ==
    /\ quit = "started"
    /\ quit' = IF Open = {} THEN "exited" ELSE "complete"
    /\ UNCHANGED <<mac, boot, activating, window, mainWindow, tracker, flags,
                   hostState, networkState, init, generation, made, global,
                   trouble>>

\* A window is closed by its user, or because the program quits.
Closed(w) ==
    /\ window' = [window EXCEPT ![w] = [NoWindow EXCEPT !.life = "closed"]]
    /\ flags' = Hidden /\ tracker' = NotReady
    /\ IF mainWindow # w THEN UNCHANGED <<mainWindow, made, networkState>>
       ELSE /\ mainWindow' = 0
            /\ made' = IF global.network THEN Stopped(made) ELSE made
            /\ networkState' = IF global.network THEN "idle" ELSE networkState
    /\ quit' = IF quit = "complete" /\ Open = {w} THEN "exited" ELSE quit
    /\ UNCHANGED <<mac, boot, activating, hostState, init, generation, global>>

Close(w) ==
    /\ Running /\ window[w].life = "open"
    /\ Closed(w) /\ UNCHANGED trouble

\* A page that cannot be loaded takes its window with it, and the program
\* quits: a window that is left hears that the stream has stopped.
LoadFails(w) ==
    /\ Running /\ quit = "no" /\ window[w].life = "open"
    /\ window[w].page = "none" /\ Happens("fault")
    /\ LET left == [window EXCEPT ![w] = [NoWindow EXCEPT !.life = "closed"]]
       IN  window' = IF made.coordinator = "none" THEN left
                     ELSE NetworkPublished(left, "idle")
    /\ flags' = Hidden /\ tracker' = NotReady
    /\ mainWindow' = IF mainWindow = w THEN 0 ELSE mainWindow
    /\ generation' = generation + 1
    /\ global' = Off /\ made' = Disposed(made)
    /\ networkState' = IdleIfMade
    /\ quit' = CleanUp(Open \ {w})
    /\ UNCHANGED <<mac, boot, activating, hostState, init>>

\* The handler looks for a window before it reads the theme, not after.
Activate ==
    /\ Running /\ mac /\ boot = "up" /\ mainWindow = 0
    /\ Happens("activate")
    /\ activating' = activating + 1
    /\ UNCHANGED <<mac, boot, window, mainWindow, tracker, flags, hostState,
                   networkState, init, generation, made, global, quit>>

Activated ==
    /\ Running /\ activating > 0 /\ activating' = activating - 1
    /\ createMainWindow
    /\ made' = IF global.network THEN Started(made) ELSE made
    /\ networkState' = IF global.network THEN StartedState ELSE networkState
    /\ UNCHANGED <<mac, boot, hostState, init, generation, global, quit,
                   trouble>>

LifecycleNext ==
    \/ ThemeRead \/ Launch \/ LaunchFails
    \/ \E w \in Windows :
          \/ Commit(w) \/ DomReady(w) \/ FinishLoad(w) \/ ReadyToShow(w)
          \/ Mount(w) \/ Present(w) \/ accept(w) \/ NavigateInPage(w)
          \/ Reload(w) \/ NavigationFails(w) \/ RenderProcessGone(w)
          \/ Close(w) \/ LoadFails(w)
    \/ revealWindow
    \/ Enrolled \/ EnrollFails \/ RestoreFails \/ Cleared \/ ClearFails
    \/ \E a \in trouble.outcomes : Restored(a) \/ SessionChanges(a)
    \/ \E n \in NetworkStates \ {"idle"} : NetworkChanges(n)
    \/ Activate \/ Activated
    \/ Quit \/ WindowAllClosed \/ FilesInvalidated

LifecycleSpec == LifecycleInit /\ [][LifecycleNext]_lifecycleVars

-----------------------------------------------------------------------------
\* However quitting meets the awaits of the start, nothing is set up behind
\* it: no handler and no transport comes back, and neither session nor stream
\* is left running (before-quit and the generation checks of the two initialize
\* functions).
QuitTakesAll ==
    quit # "no" =>
        /\ global = Off
        /\ made.runtime # "live" /\ made.coordinator # "running"

\* A window is on the screen once its page has painted and reported, whichever
\* came first, and never before it had something to show.  A window that was
\* opened beside another one may stay hidden.
ShownInTime ==
    /\ \A w \in Windows : window[w].visible => window[w].presented
    /\ \A w \in {mainWindow} \ {0} :
          /\ ~window[w].crowded /\ window[w].page \in {"dom", "loaded"}
          /\ window[w].painted /\ window[w].sent /\ ~window[w].mail
          => window[w].visible

\* A page that is loaded knows the session and the network as they are, and
\* may call the main process: nothing published while it was loading is lost.
PageInformed ==
    \A w \in {mainWindow} \ {0} : window[w].page = "loaded" =>
        /\ window[w].auth = hostState /\ window[w].net = networkState
        /\ window[w].crowded \/ tracker.ready
        /\ window[w].shows # Unmounted =>
              /\ Status(window[w].shows.auth) = Status(hostState)
              /\ window[w].shows.net = networkState
=============================================================================
