--------------------------- MODULE DesktopNetwork ---------------------------
(***************************************************************************)
(* The network side of the desktop's main process: the credential          *)
(* runtime's epochs and leases (auth/credential-runtime.mjs), the event    *)
(* stream loop (network/network-coordinator.mjs, network/sse-client.mjs),  *)
(* REST calls (network/rest-transport.mjs), native notifications           *)
(* (notifications/notification-controller.mjs), and what main.mjs makes of *)
(* the window's, the power monitor's and the user's events.                *)
(*                                                                         *)
(* Everything runs on one thread.  A step of the environment (a timer, an  *)
(* answer, a click) is taken only when no continuation is ready, as the    *)
(* event loop drains its microtasks first: see Quiet.                      *)
(*                                                                         *)
(* A run is one call of the coordinator's run(current); it is known by its *)
(* generation.  The module variable `controller' is shared by all runs, so *)
(* a run's abort signal is modelled by whether the controller it was given *)
(* is still the one in the variable ("bound"), has been replaced there     *)
(* ("detached"), or has been aborted.                                      *)
(*                                                                         *)
(* The credential coordinator is reduced to what this side sees of it: its *)
(* status, its access token and its single refresh flight.                 *)
(***************************************************************************)
EXTENDS Naturals, FiniteSets

CONSTANTS
    MaxGen,      \* bound: generations of the network coordinator
    MaxSessions, \* bound: device sessions ever authorized
    MaxFaults,   \* bound: disturbances by the user, the network, the host
    Disturbances \* which disturbances this run's environment causes

AllDisturbances ==
    {"suspend", "close", "logout", "revoke", "expire", "eof", "unauthorized",
     "invalid", "network", "click", "write"}

ASSUME NetworkBounds ==
    /\ MaxGen \in Nat \ {0} /\ MaxSessions \in Nat \ {0} /\ MaxFaults \in Nat
    /\ Disturbances \subseteq AllDisturbances

Gens == 1 .. MaxGen
Sessions == 1 .. MaxSessions
NoSession == 0

\* Who calls the REST transport: the probe of a run, the notification
\* controller's list query and click handler, and the renderer's mutation.
ListCall == MaxGen + 1
ClickCall == MaxGen + 2
WriteCall == MaxGen + 3
Callers == 1 .. WriteCall

VARIABLES
    auth,      \* the credential coordinator: status, session, access, flight
    dead,      \* the sessions the server has revoked
    epoch,     \* the credential runtime's epoch
    net,       \* the network coordinator and its runs
    call,      \* the REST calls under way
    notes,     \* the notification controller; used: whose answer it last
               \* showed or navigated to, and who was signed in then
    window,    \* "front", "back" (unfocused or minimized) or "closed"
    asleep,    \* the power monitor has reported suspend and not yet resume
    faults     \* disturbances so far

vars == <<auth, dead, epoch, net, call, notes, window, asleep, faults>>

-----------------------------------------------------------------------------

Live == {"authenticated", "refreshing"}
InvalidatingStates == {"unauthenticated", "locked", "revoked"}

Waiting == {"lease", "refresh"}
RunSteps == {"off", "loop", "lease", "leased", "stream", "refresh",
             "refreshed", "probe", "backoff"}
CallSteps == {"idle", "begin", "lease", "leased", "fetch", "refresh", "done"}

\* Continuations that are ready to run: nothing else happens before them.
ReadyRun == {"loop", "leased", "refreshed"}
ReadyCall == {"begin", "leased", "done"}

\* Why a run probes, or how the flight it waited for ended.
Reasons == {"none", "eof", "expiry", "unauthorized", "ok", "revoked", "error"}

NoRun == [pc |-> "off", epoch |-> 0, session |-> NoSession, sig |-> "none",
          why |-> "none"]

NoCall == [pc |-> "idle", epoch |-> 0, session |-> NoSession, first |-> TRUE,
           out |-> "none", sent |-> 0, gen |-> 0, fact |-> 0,
           of |-> NoSession, stage |-> "none"]

TypeOK ==
    /\ auth \in [status : Live \cup InvalidatingStates,
                 session : Sessions \cup {NoSession},
                 issued : 0 .. MaxSessions,
                 access : {"none", "fresh", "stale"},
                 flight : {"none", "saving", "sent"}, dropped : BOOLEAN,
                 of : Sessions \cup {NoSession}, leaving : BOOLEAN]
    /\ dead \subseteq Sessions
    /\ epoch \in Nat
    /\ net.status \in {"idle", "connecting", "online", "offline", "suspended",
                       "reauthorization_required"}
    /\ net.gen \in 0 .. MaxGen /\ net.running \in {0, net.gen}
    /\ net.suspended \in BOOLEAN /\ net.ctl \in {"none", "live", "aborted"}
    /\ net.run \in [Gens -> [pc : RunSteps, epoch : Nat,
                             session : Sessions \cup {NoSession},
                             sig : {"none", "bound", "detached", "aborted"},
                             why : Reasons]]
    /\ call \in [Callers -> [pc : CallSteps, epoch : Nat,
                             session : Sessions \cup {NoSession},
                             first : BOOLEAN,
                             out : {"none", "ok", "revoked", "error"},
                             sent : 0 .. 2, gen : Nat, fact : Nat,
                             of : Sessions \cup {NoSession},
                             stage : {"none", "target", "read"}]]
    /\ notes.gen \in Nat /\ notes.delivered \subseteq Nat
    /\ notes.open \in BOOLEAN
    /\ notes.used \in [by : Sessions \cup {NoSession},
                      of : Sessions \cup {NoSession}]
    /\ window \in {"front", "back", "closed"} /\ asleep \in BOOLEAN
    /\ faults \in 0 .. MaxFaults

Init ==
    /\ auth = [status |-> "unauthenticated", session |-> NoSession,
               issued |-> 0, access |-> "none", flight |-> "none", dropped |-> FALSE,
               of |-> NoSession, leaving |-> FALSE]
    /\ dead = {} /\ epoch = 0
    /\ net = [status |-> "idle", gen |-> 0, running |-> 0,
              suspended |-> FALSE, ctl |-> "none",
              run |-> [r \in Gens |-> NoRun]]
    /\ call = [c \in Callers |-> NoCall]
    /\ notes = [gen |-> 0, delivered |-> {}, open |-> FALSE,
                used |-> [by |-> NoSession, of |-> NoSession]]
    /\ window = "front" /\ asleep = FALSE /\ faults = 0

Disturb(d) == /\ d \in Disturbances /\ faults < MaxFaults
              /\ faults' = faults + 1

Quiet ==
    /\ \A r \in Gens : /\ net.run[r].pc \notin ReadyRun
                       /\ net.run[r].sig # "aborted"
    /\ \A c \in Callers : call[c].pc \notin ReadyCall

-----------------------------------------------------------------------------
\* The network coordinator: functions from its state to its next state.

\* controller?.abort(): whoever was given that controller sees its signal.
Abort(n) ==
    [n EXCEPT !.ctl = IF @ = "live" THEN "aborted" ELSE @,
              !.run = [r \in Gens |->
                  IF n.ctl = "live" /\ n.run[r].sig = "bound"
                  THEN [n.run[r] EXCEPT !.sig = "aborted"] ELSE n.run[r]]]

\* controller = new AbortController()
NewController(n) ==
    [n EXCEPT !.ctl = "live",
              !.run = [r \in Gens |->
                  IF n.run[r].sig = "bound"
                  THEN [n.run[r] EXCEPT !.sig = "detached"] ELSE n.run[r]]]

start(n) ==
    IF n.running # 0 THEN n
    ELSE [n EXCEPT !.suspended = FALSE, !.gen = @ + 1, !.running = n.gen + 1,
                   !.run[n.gen + 1] = [NoRun EXCEPT !.pc = "loop"]]

Halt(n, status) ==
    [Abort(n) EXCEPT !.gen = @ + 1, !.ctl = "none", !.running = 0,
                     !.status = status]

invalidate(n) == Halt(n, "idle")
suspend(n) == [Halt(n, "suspended") EXCEPT !.suspended = TRUE]
\* A mistake a property below refuses.
ResumeWithoutStart(n) == [n EXCEPT !.suspended = FALSE]

resume(n) == IF n.suspended THEN start([n EXCEPT !.suspended = FALSE]) ELSE n

\* run() returned: finally() clears `running' only for the current generation.
EndRun(n, r) ==
    [n EXCEPT !.run[r] = NoRun, !.running = IF r = n.gen THEN 0 ELSE @]

\* The tail of the loop: offline, then sleep under a controller of its own.
Backoff(n, r) ==
    IF r # n.gen THEN EndRun(n, r)
    ELSE [NewController(n) EXCEPT
            !.status = "offline",
            !.run[r] = [NoRun EXCEPT !.pc = "backoff", !.sig = "bound"]]

-----------------------------------------------------------------------------
\* The credential runtime.

\* A mistake a property below refuses.
NotificationsKeepGeneration(m) ==
    [m EXCEPT !.delivered = {}, !.open = FALSE]

\* notificationController.invalidate(), and its native notifications closed.
invalidateNotifications(m) ==
    [m EXCEPT !.gen = @ + 1, !.delivered = {}, !.open = FALSE]

\* A mistake a property below refuses.
InvalidateLeavesStream(n) ==
    /\ epoch' = epoch + 1
    /\ net' = n
    /\ notes' = invalidateNotifications(notes)

\* invalidateNetwork(): the epoch moves, main.mjs stops the event stream and
\* forgets the notifications.
InvalidateNetwork(n) ==
    /\ epoch' = epoch + 1
    /\ net' = invalidate(n)
    /\ notes' = invalidateNotifications(notes)

\* A mistake a property below refuses.
PublishIgnoresLocked(status, n) ==
    IF status \in InvalidatingStates \ {"locked"}
    THEN InvalidateNetwork(n)
    ELSE net' = n /\ UNCHANGED <<epoch, notes>>

\* publishCoordinatorState() and main.mjs's onPublicState, for a coordinator
\* that moved to `status' while the network coordinator's state was n.
Publish(status, n) ==
    IF status \in InvalidatingStates
    THEN InvalidateNetwork(n)
    ELSE net' = start(n) /\ UNCHANGED <<epoch, notes>>

\* getAccessLease(): "no" when it throws at once, "now" when the token in
\* memory is good, "wait" when a refresh has to finish first.
Lease == IF auth.status \notin Live \/ auth.session = NoSession THEN "no"
         ELSE IF auth.access = "fresh" THEN "now" ELSE "wait"

\* coordinator.refresh(): single flight.
refresh(a) == IF a.flight # "none" THEN a
              ELSE [a EXCEPT !.flight = "saving", !.of = a.session]

\* What a caller of rotate() learns when the flight ends with outcome o.
ResumedRun(run, o) ==
    CASE run.pc = "lease" -> [run EXCEPT !.pc = "leased", !.why = o]
      [] run.pc = "refresh" -> [run EXCEPT !.pc = "refreshed", !.why = o]
      [] OTHER -> run

ResumedCall(c, o) ==
    CASE o # "ok" /\ c.pc \in Waiting -> [c EXCEPT !.pc = "done", !.out = o]
      [] o = "ok" /\ c.pc = "lease" -> [c EXCEPT !.pc = "leased"]
      [] o = "ok" /\ c.pc = "refresh" -> [c EXCEPT !.pc = "begin",
                                                   !.first = FALSE]
      [] OTHER -> c

EndFlight(n, o) ==
    [n EXCEPT !.run = [r \in Gens |-> ResumedRun(n.run[r], o)]]

-----------------------------------------------------------------------------
\* Runs of the network coordinator, from one await to the next.

\* The lease callback: it subscribes with the controller that is in the shared
\* variable by then.
Subscribe(n, r) ==
    IF n.ctl # "live" THEN EndRun(n, r)
    ELSE [n EXCEPT !.run[r] = [pc |-> "stream", epoch |-> epoch,
                               session |-> auth.session, sig |-> "bound",
                               why |-> "none"]]

\* onReauthorizationRequired: runtime.discardLocalSession(), whose file
\* operations are one step here.  Its transition to unauthenticated has
\* invalidated the network when the run has the last word on the status.
Discard(n, r) ==
    /\ auth' = [auth EXCEPT !.status = "unauthenticated", !.session = NoSession,
                            !.access = "none", !.dropped = auth.flight # "none"]
    /\ epoch' = epoch + 1
    /\ net' = [EndRun(invalidate(n), r)
                 EXCEPT !.status = "reauthorization_required"]
    /\ notes' = invalidateNotifications(notes)

\* The catch block of run(), for an error with this code.
Catch(n, r, code) ==
    IF r = n.gen /\ code = "revoked" THEN Discard(n, r)
    ELSE net' = Backoff(n, r) /\ UNCHANGED <<auth, epoch, notes>>

Loop(r) ==
    /\ net.run[r].pc = "loop"
    /\ LET n == [NewController(net) EXCEPT !.status = "connecting"] IN
       IF r # net.gen \/ net.suspended
       THEN net' = EndRun(net, r) /\ UNCHANGED auth
       ELSE CASE Lease = "no" -> net' = Backoff(n, r) /\ UNCHANGED auth
              [] Lease = "now" -> net' = Subscribe(n, r) /\ UNCHANGED auth
              [] OTHER ->
                    /\ net' = [n EXCEPT !.run[r] = [NoRun EXCEPT !.pc = "lease",
                                                    !.epoch = epoch]]
                    /\ auth' = refresh(auth)
    /\ UNCHANGED <<dead, epoch, call, notes, window, asleep, faults>>

Leased(r) ==
    /\ net.run[r].pc = "leased"
    /\ IF net.run[r].why # "ok" THEN Catch(net, r, net.run[r].why)
       ELSE IF net.run[r].epoch # epoch \/ auth.access # "fresh"
       THEN Catch(net, r, "error")
       ELSE net' = Subscribe(net, r) /\ UNCHANGED <<auth, epoch, notes>>
    /\ UNCHANGED <<dead, call, window, asleep, faults>>

\* handleFact() for a topbar fact; a fact that comes while the list query is
\* under way would only repeat it.
HandleFact(r) ==
    call' = IF call[ListCall].pc # "idle" THEN call
            ELSE [call EXCEPT ![ListCall] =
                    [NoCall EXCEPT !.pc = "begin", !.gen = notes.gen,
                                   !.fact = net.run[r].epoch]]

\* onControl: connected, then topbar facts.
Control(r) ==
    /\ Quiet
    /\ net.run[r].pc = "stream" /\ net.run[r].session \notin dead
    /\ r = net.gen
    /\ net' = [net EXCEPT !.status = "online"]
    /\ HandleFact(r)
    /\ UNCHANGED <<auth, dead, epoch, notes, window, asleep, faults>>

StartProbe(n, r, why) ==
    /\ net' = [n EXCEPT !.run[r] = [@ EXCEPT !.pc = "probe", !.sig = "none",
                                             !.why = why]]
    /\ call' = [call EXCEPT ![r] = [NoCall EXCEPT !.pc = "begin"]]

\* The stream broke off: EOF, a 401, an unreadable event, a network error.
\* The race's finally aborts whatever controller the variable holds.
StreamEnds(r, how) ==
    /\ Quiet
    /\ net.run[r].pc = "stream"
    /\ IF how \in {"eof", "unauthorized"} /\ net.run[r].session \in dead
       THEN UNCHANGED faults ELSE Disturb(how)
    /\ LET n == Abort(net) IN
       IF /\ r = net.gen
          /\ \/ how = "unauthorized"
             \/ how = "eof" /\ net.run[r].epoch = epoch
       THEN StartProbe(n, r, how) /\ UNCHANGED <<auth, epoch, notes>>
       ELSE /\ Catch(n, r, IF how = "invalid" THEN "revoked" ELSE "error")
            /\ UNCHANGED call
    /\ UNCHANGED <<dead, window, asleep>>

\* The access token is about to expire: refreshAccess() by the current run.
StreamExpires(r) ==
    /\ Quiet
    /\ net.run[r].pc = "stream"
    /\ LET n == Abort(net) IN
       IF r # net.gen \/ net.run[r].epoch # epoch
       THEN /\ net' = Backoff(n, r)
            /\ UNCHANGED <<auth, epoch, notes, faults>>
       ELSE /\ Disturb("expire")
            /\ InvalidateNetwork([n EXCEPT !.run[r] =
                                    [@ EXCEPT !.pc = "refresh", !.sig = "none"]])
            /\ auth' = refresh(auth)
    /\ UNCHANGED <<dead, call, window, asleep>>

\* The controller it was given was aborted: a sleeping run returns; a
\* streaming one gets the expiry timer's codeless "aborted" error first.
RunAborted(r) ==
    /\ net.run[r].sig = "aborted"
    /\ net' = IF net.run[r].pc = "backoff" THEN EndRun(net, r)
              ELSE Backoff(Abort(net), r)
    /\ UNCHANGED <<auth, dead, epoch, call, notes, window, asleep, faults>>

Refreshed(r) ==
    /\ net.run[r].pc = "refreshed"
    /\ IF net.run[r].why = "ok"
       THEN StartProbe(net, r, "expiry") /\ UNCHANGED <<auth, epoch, notes>>
       ELSE Catch(net, r, net.run[r].why) /\ UNCHANGED call
    /\ UNCHANGED <<dead, window, asleep, faults>>

\* The probe answered.  After a 401 its verdict is acted on whether or not the
\* run is still current; elsewhere a superseded run returns.
Probed(r) ==
    /\ net.run[r].pc = "probe" /\ call[r].pc = "done"
    /\ LET out == call[r].out IN
       CASE net.run[r].why = "unauthorized" /\ out = "revoked" ->
                Discard(net, r)
         [] net.run[r].why = "expiry" /\ out = "ok" ->
                /\ net' = [net EXCEPT !.run[r] = [NoRun EXCEPT !.pc = "loop"]]
                /\ UNCHANGED <<auth, epoch, notes>>
         [] OTHER -> Catch(net, r, out)
    /\ call' = [call EXCEPT ![r] = NoCall]
    /\ UNCHANGED <<dead, window, asleep, faults>>

WakeUp(r) ==
    /\ Quiet
    /\ net.run[r].pc = "backoff"
    /\ net' = [net EXCEPT !.run[r].pc = "loop"]
    /\ UNCHANGED <<auth, dead, epoch, call, notes, window, asleep, faults>>

-----------------------------------------------------------------------------
\* REST calls.

\* A mistake a property below refuses.
EverythingIdempotent(c) == TRUE

\* The session probe and the reads are idempotent; marking a notification
\* read and the renderer's mutation are not.
Idempotent(c) == c # WriteCall /\ call[c].stage # "read"

Fetching(c) == [call[c] EXCEPT !.pc = "fetch", !.epoch = epoch,
                               !.session = auth.session, !.sent = @ + 1]
Done(c, out) == [call[c] EXCEPT !.pc = "done", !.out = out]

\* executeOnce() up to the request, with the refresh it may have to wait for.
Begin(c) ==
    /\ call[c].pc = "begin"
    /\ call' = [call EXCEPT ![c] =
            CASE Lease = "no" -> Done(c, "error")
              [] Lease = "now" -> Fetching(c)
              [] OTHER -> [@ EXCEPT !.pc = "lease", !.epoch = epoch]]
    /\ auth' = IF Lease = "wait" THEN refresh(auth) ELSE auth
    /\ UNCHANGED <<dead, epoch, net, notes, window, asleep, faults>>

CallLeased(c) ==
    /\ call[c].pc = "leased"
    /\ call' = [call EXCEPT ![c] =
            IF @.epoch = epoch /\ auth.access = "fresh" THEN Fetching(c)
            ELSE Done(c, "error")]
    /\ UNCHANGED <<auth, dead, epoch, net, notes, window, asleep, faults>>

\* A mistake a property below refuses.
LeaseUnchecked(c, out) == out

\* withAccessLease() hands a result on only within the epoch of its lease.
withAccessLease(c, out) == IF call[c].epoch = epoch THEN out ELSE "error"

Answer(c, how) ==
    /\ Quiet
    /\ call[c].pc = "fetch"
    /\ how = "revoked" => call[c].session \in dead
    /\ how = "ok" => call[c].session \notin dead
    /\ IF how \in {"ok", "revoked"} THEN UNCHANGED faults ELSE Disturb(how)
    /\ IF /\ how = "expire" /\ call[c].first /\ Idempotent(c)
          /\ call[c].epoch = epoch
       THEN /\ call' = [call EXCEPT ![c].pc = "refresh"]
            /\ InvalidateNetwork(net)
            /\ auth' = refresh(auth)
       ELSE /\ call' = [call EXCEPT ![c] =
                    Done(c, CASE how = "ok" -> withAccessLease(c, "ok")
                              [] how = "revoked" -> "revoked"
                              [] OTHER -> "error")]
            /\ UNCHANGED <<auth, epoch, net, notes>>
    /\ UNCHANGED <<dead, window, asleep>>

-----------------------------------------------------------------------------
\* Notifications and the renderer.

\* The answer of the list query: shown natively unless the window has the
\* focus, once per epoch of the fact that asked for it.
ListDone ==
    /\ call[ListCall].pc = "done"
    /\ LET c == call[ListCall]
           show == /\ c.out = "ok" /\ c.gen = notes.gen /\ window # "front"
                   /\ c.fact \notin notes.delivered IN
       notes' = IF ~show THEN notes
                ELSE [notes EXCEPT !.delivered = @ \cup {c.fact},
                                   !.open = TRUE,
                                   !.used = [by |-> auth.session,
                                             of |-> c.session]]
    /\ call' = [call EXCEPT ![ListCall] = NoCall]
    /\ UNCHANGED <<auth, dead, epoch, net, window, asleep, faults>>

\* handleClick(): the window comes to the front, then the target is asked for.
Click ==
    /\ Quiet
    /\ Disturb("click")
    /\ notes.open /\ call[ClickCall].pc = "idle"
    /\ window' = IF window = "closed" THEN window ELSE "front"
    /\ notes' = [notes EXCEPT !.open = FALSE]
    /\ call' = [call EXCEPT ![ClickCall] =
            [NoCall EXCEPT !.pc = "begin", !.gen = notes.gen,
                           !.stage = "target"]]
    /\ UNCHANGED <<auth, dead, epoch, net, asleep>>

\* The target may be unread: it is marked read before the renderer is sent
\* there.  A failure sends the renderer to the default page.
ClickDone ==
    /\ call[ClickCall].pc = "done"
    /\ LET c == call[ClickCall] IN
       \/ /\ c.gen = notes.gen /\ c.stage = "target" /\ c.out = "ok"
          /\ call' = [call EXCEPT ![ClickCall] =
                [NoCall EXCEPT !.pc = "begin", !.gen = c.gen,
                               !.of = c.session, !.stage = "read"]]
          /\ UNCHANGED notes
       \/ /\ call' = [call EXCEPT ![ClickCall] = NoCall]
          /\ notes' = IF c.gen # notes.gen THEN notes
                      ELSE IF c.stage = "read"
                      THEN [notes EXCEPT !.used = [by |-> auth.session,
                                                   of |-> c.of]]
                      ELSE IF c.out = "ok"
                      THEN [notes EXCEPT !.used = [by |-> auth.session,
                                                   of |-> c.session]]
                      ELSE notes
    /\ UNCHANGED <<auth, dead, epoch, net, window, asleep, faults>>

\* The renderer's mutation, and the answer it is given.
Write ==
    /\ Quiet
    /\ call[WriteCall].pc = "idle"
    /\ Disturb("write")
    /\ call' = [call EXCEPT ![WriteCall] = [NoCall EXCEPT !.pc = "begin"]]
    /\ UNCHANGED <<auth, dead, epoch, net, notes, window, asleep>>

WriteDone ==
    /\ call[WriteCall].pc = "done"
    /\ call' = [call EXCEPT ![WriteCall] = NoCall]
    /\ UNCHANGED <<auth, dead, epoch, net, notes, window, asleep, faults>>

-----------------------------------------------------------------------------
\* The credential coordinator, the server, the user and the host.

\* rotate() has saved its pending record and announces "refreshing".
RefreshSaved ==
    /\ Quiet
    /\ auth.flight = "saving"
    /\ IF auth.session = NoSession
       THEN /\ auth' = [auth EXCEPT !.flight = "sent"]
            /\ UNCHANGED <<epoch, net, notes>>
       ELSE /\ auth' = [auth EXCEPT !.flight = "sent", !.status = "refreshing"]
            /\ Publish("refreshing", net)
    /\ UNCHANGED <<dead, call, window, asleep, faults>>

\* The answer to a rotation.  One that a logout or a discard has overtaken,
\* or whose credential is gone, only takes the access token away.
RefreshAnswer(how) ==
    /\ Quiet
    /\ auth.flight = "sent"
    /\ how = "revoked" => auth.of \in dead
    /\ how = "ok" => auth.of \notin dead
    /\ IF how = "error" THEN Disturb("network") ELSE UNCHANGED faults
    /\ LET stale == auth.dropped \/ auth.of # auth.session
           settled == [auth EXCEPT !.flight = "none", !.dropped = FALSE]
           out == IF stale THEN "error" ELSE how
           to == CASE how = "ok" -> "authenticated"
                   [] how = "revoked" -> "revoked"
                   [] OTHER -> "locked" IN
       /\ IF stale
          THEN /\ auth' = [settled EXCEPT !.access = "none"]
               /\ net' = EndFlight(net, "error")
               /\ UNCHANGED <<epoch, notes>>
          ELSE /\ auth' = [settled EXCEPT !.status = to, !.access =
                              IF how = "ok" THEN "fresh" ELSE "none"]
               /\ Publish(to, EndFlight(net, how))
       /\ call' = [c \in Callers |-> ResumedCall(call[c], out)]
    /\ UNCHANGED <<dead, window, asleep>>

\* The user approves a new device authorization in the browser.
Authorize ==
    /\ Quiet
    /\ auth.status = "unauthenticated"
    /\ auth.issued < MaxSessions
    /\ auth' = [auth EXCEPT !.status = "authenticated", !.access = "fresh",
                            !.session = auth.issued + 1, !.issued = @ + 1]
    /\ Publish("authenticated", net)
    /\ UNCHANGED <<dead, call, window, asleep, faults>>

\* logout(): locked first, unauthenticated once the server has answered.
Logout ==
    /\ Quiet
    /\ auth.status \in Live /\ ~auth.leaving
    /\ Disturb("logout")
    /\ auth' = [auth EXCEPT !.status = "locked", !.access = "none",
                            !.leaving = TRUE,
                            !.dropped = auth.flight # "none"]
    /\ Publish("locked", net)
    /\ UNCHANGED <<dead, call, window, asleep>>

\* The server has answered the logout; or the user logs out of a session that
\* was found revoked or locked, which discards it.
LogoutDone ==
    /\ Quiet
    /\ auth.leaving \/ auth.status \in {"locked", "revoked"}
    /\ auth.flight # "saving"
    /\ auth' = [auth EXCEPT !.status = "unauthenticated", !.session = NoSession,
                            !.access = "none", !.leaving = FALSE]
    /\ dead' = dead \cup (IF auth.session = NoSession THEN {}
                          ELSE {auth.session})
    /\ Publish("unauthenticated", net)
    /\ UNCHANGED <<call, window, asleep, faults>>

\* The browser revokes the device, or the access token runs out.
Revoke ==
    /\ Quiet
    /\ auth.session # NoSession /\ auth.session \notin dead
    /\ Disturb("revoke")
    /\ dead' = dead \cup {auth.session}
    /\ UNCHANGED <<auth, epoch, net, call, notes, window, asleep>>

Expire ==
    /\ Quiet
    /\ auth.access = "fresh"
    /\ Disturb("expire")
    /\ auth' = [auth EXCEPT !.access = "stale"]
    /\ UNCHANGED <<dead, epoch, net, call, notes, window, asleep>>

\* bindNetworkPowerLifecycle()
Suspend ==
    /\ Quiet
    /\ ~asleep /\ Disturb("suspend")
    /\ asleep' = TRUE
    /\ notes' = invalidateNotifications(notes)
    /\ net' = suspend(net)
    /\ UNCHANGED <<auth, dead, epoch, call, window>>

Resume ==
    /\ Quiet
    /\ asleep /\ asleep' = FALSE
    /\ net' = resume(net)
    /\ UNCHANGED <<auth, dead, epoch, call, notes, window, faults>>

\* The window is closed: the coordinator is stopped.  A macOS application
\* stays and may be activated again.
CloseWindow ==
    /\ Quiet
    /\ window # "closed" /\ Disturb("close")
    /\ window' = "closed"
    /\ notes' = invalidateNotifications(notes)
    /\ net' = invalidate(net)
    /\ UNCHANGED <<auth, dead, epoch, call, asleep>>

Activate ==
    /\ Quiet
    /\ window = "closed" /\ window' = "front"
    /\ net' = start(net)
    /\ UNCHANGED <<auth, dead, epoch, call, notes, asleep, faults>>

Blur ==
    /\ Quiet
    /\ window = "front" /\ window' = "back"
    /\ UNCHANGED <<auth, dead, epoch, net, call, notes, asleep, faults>>

\* The renderer's "retry" command while signed in.
Retry ==
    /\ Quiet
    /\ auth.status \in Live /\ net.running = 0
    /\ net' = start(net)
    /\ UNCHANGED <<auth, dead, epoch, call, notes, window, asleep, faults>>

-----------------------------------------------------------------------------

RunStep(r) ==
    \/ Loop(r) \/ Leased(r) \/ Control(r) \/ StreamExpires(r) \/ RunAborted(r)
    \/ Refreshed(r) \/ Probed(r) \/ WakeUp(r)
    \/ \E how \in {"eof", "unauthorized", "invalid", "network"} :
          StreamEnds(r, how)

CallStep(c) ==
    \/ Begin(c) \/ CallLeased(c)
    \/ \E how \in {"ok", "revoked", "expire", "network"} : Answer(c, how)

Next ==
    \/ \E r \in Gens : RunStep(r)
    \/ \E c \in Callers : CallStep(c)
    \/ ListDone \/ Click \/ ClickDone \/ Write \/ WriteDone
    \/ RefreshSaved
    \/ \E how \in {"ok", "revoked", "error"} : RefreshAnswer(how)
    \/ Authorize \/ Logout \/ LogoutDone \/ Revoke \/ Expire
    \/ Suspend \/ Resume \/ CloseWindow \/ Activate \/ Blur \/ Retry

Spec == Init /\ [][Next]_vars

\* Ready continuations run, timers fire, and whatever is waited for arrives.
FairSpec ==
    /\ Spec
    /\ \A r \in Gens :
          /\ WF_vars(Loop(r)) /\ WF_vars(Leased(r)) /\ WF_vars(RunAborted(r))
          /\ WF_vars(Refreshed(r)) /\ WF_vars(Probed(r)) /\ WF_vars(WakeUp(r))
          /\ WF_vars(Control(r))
    /\ \A c \in Callers :
          /\ WF_vars(Begin(c)) /\ WF_vars(CallLeased(c))
          /\ WF_vars(Answer(c, "ok") \/ Answer(c, "revoked"))
    /\ WF_vars(ListDone) /\ WF_vars(ClickDone) /\ WF_vars(WriteDone)
    /\ WF_vars(RefreshSaved)
    /\ WF_vars(RefreshAnswer("ok") \/ RefreshAnswer("revoked"))

-----------------------------------------------------------------------------
\* Properties.

\* Two counters guard the stream: the runtime's epoch and the coordinator's
\* generation.  The stream of the current generation always belongs to the
\* current epoch, so a fact it forwards carries the epoch of today's session.
CurrentRunCurrentEpoch ==
    \A r \in Gens : r = net.gen /\ net.run[r].pc = "stream" =>
        /\ net.run[r].epoch = epoch
        /\ net.run[r].session = auth.session

\* The renderer is told "online" only while somebody is signed in and a run of
\* the current generation is there to take it back: publish("online") comes
\* from a callback that outlives invalidate(), suspend() and stop().
OnlineMeansSignedIn ==
    net.status = "online" =>
        auth.status \in Live /\ net.running # 0 /\ net.running = net.gen

\* execute() returns a result only to the session it was asked for: a lease
\* taken before a logout, a refresh or a revocation does not deliver after it.
AnswersAreFresh ==
    \A c \in Callers : call[c].pc = "done" /\ call[c].out = "ok" =>
        call[c].epoch = epoch /\ call[c].session = auth.session

\* No request that is not idempotent is sent a second time after the server
\* called its access token expired.
MutationsSentOnce ==
    \A c \in Callers : c = WriteCall \/ call[c].stage = "read" =>
        call[c].sent <= 1

\* What the notification controller shows, and where a click leads, comes from
\* an answer to the session that is signed in at that moment.
NotificationsAreOwn == notes.used.by = notes.used.of

\* Nothing of one session reaches another: neither the stream, the status that
\* is shown, the answers of business calls nor the notifications (the epoch of
\* credential-runtime.mjs and the generations of network-coordinator.mjs and
\* notification-controller.mjs).
SessionsKeptApart ==
    /\ CurrentRunCurrentEpoch
    /\ OnlineMeansSignedIn
    /\ AnswersAreFresh
    /\ NotificationsAreOwn

\* Signed in, awake and with a window, the desktop gets its event stream back
\* whatever went wrong before: no lost wake-up between the credential runtime,
\* the power monitor, the window and the retry loop.
ShouldBeOnline == /\ auth.status \in Live /\ auth.session \notin dead
                  /\ ~asleep /\ window # "closed"
Reconnects == ShouldBeOnline ~> (net.status = "online" \/ ~ShouldBeOnline)

\* The plan's R15: a late answer of an old generation or epoch has no effect
\* on the session of today.  The verdict of a superseded run's probe takes only
\* the session it was asked about.
VerdictMeetsItsSession ==
    [][\A r \in Gens : Probed(r) /\ auth'.session # auth.session =>
          auth.session = call[r].session]_vars

\* The plan's R14: suspend aborts the stream, and only resume() makes a new
\* one.
Streaming == {r \in Gens : /\ net.run[r].pc = "stream"
                           /\ net.run[r].sig # "aborted"}
SuspendHolds == asleep => Streaming = {}

=============================================================================
