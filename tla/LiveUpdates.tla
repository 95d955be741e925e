---------------------------- MODULE LiveUpdates -----------------------------
(***************************************************************************)
(* How a page learns that what it shows is out of date: the topbar stream  *)
(* (topbar_events in api/src/web/api/mod.rs, through the browser's         *)
(* EventSource or the desktop's bridge), the coordinator that turns its    *)
(* events into refreshes (app-core/notification-events.js), the polling    *)
(* beside it, and the prompt to reload after a release (app-update.js), as *)
(* SharedApp wires them.                                                   *)
(*                                                                         *)
(* The data shown is a version number of the server's data: `page` is the  *)
(* page's, `badge` the topbar's.  What the stream has to deliver is: the   *)
(* greeting still to come, then the broadcasts not yet read.               *)
(***************************************************************************)
EXTENDS Naturals

CONSTANTS Hosts,        \* "web", "desktop"
          Running,      \* the release the page was served with
          Releases,     \* later releases
          ChannelSize,  \* USER_REALTIME_CHANNEL_SIZE
          Budgets       \* bounds: how often the things that happen may happen

VARIABLES host, changed, release,
          link,      \* [on, greet, backlog, lagged]
          adapter,   \* the events' sequence
          co,        \* the coordinator: [seq, told, pending]
          load,      \* loads of the page: by the coordinator, by the user
          page, badge, failed,
          poll,      \* the polling coordinator's request
          check,     \* a look at /version.json
          update,    \* [prompted, deferred, prompt]
          left       \* what is left of the budget
liveVars == <<host, changed, release, link, adapter, co, load, page, badge, failed,
              poll, check, update, left>>
shownVars == <<page, badge, failed>>

None == "none"
Idle == [stage |-> "idle", value |-> 0, current |-> FALSE]
Off == [on |-> FALSE, greet |-> 0, backlog |-> 0, lagged |-> FALSE]
NoUpdate == [prompted |-> None, deferred |-> None, prompt |-> None]

LiveInit ==
  /\ host \in Hosts
  /\ changed = 0 /\ release = Running /\ page = 0 /\ badge = 0 /\ failed = FALSE
  /\ link = Off /\ adapter = 0
  /\ co = [seq |-> 0, told |-> None, pending |-> FALSE]
  /\ load = [by \in {"loop", "user"} |-> Idle]
  /\ poll = Idle /\ check = [stage |-> "idle", value |-> None] /\ update = NoUpdate
  /\ left \in Budgets

Spend(k) == left[k] > 0 /\ left' = [left EXCEPT ![k] = @ - 1]

-----------------------------------------------------------------------------
(* The server and the stream. *)

\* publish_topbar_refresh_for_users: a full channel loses its oldest message.
Change ==
  /\ Spend("changes") /\ changed' = changed + 1
  /\ link' = IF ~link.on THEN link
             ELSE IF link.backlog < ChannelSize
                  THEN [link EXCEPT !.backlog = @ + 1] ELSE [link EXCEPT !.lagged = TRUE]
  /\ UNCHANGED <<host, release, adapter, co, load, shownVars, poll, check, update>>

\* topbar_events: subscribed first, then the release and "connected".
Connect ==
  /\ ~link.on /\ link' = [Off EXCEPT !.on = TRUE, !.greet = 2]
  /\ UNCHANGED <<host, changed, release, adapter, co, load, shownVars, poll, check,
                 update, left>>
Drop ==
  /\ link.on /\ link' = Off /\ Spend("drops")
  /\ UNCHANGED <<host, changed, release, adapter, co, load, shownVars, poll, check, update>>
\* A new release restarts the server.
Deploy ==
  /\ Spend("deploys") /\ link' = Off
  /\ release' \in Releases \ {release}
  /\ UNCHANGED <<host, changed, adapter, co, load, shownVars, poll, check, update>>

-----------------------------------------------------------------------------
(* The release prompt: createAppUpdateController and the page's dialogue. *)

HeardAgain(v) ==
  IF v \in {Running, None, update.prompted} THEN update
  ELSE [update EXCEPT !.prompted = v, !.prompt = IF @ = None THEN v ELSE @]
Heard(v) ==
  IF v \in {Running, None, update.deferred, update.prompted} THEN update
  ELSE [update EXCEPT !.prompted = v, !.prompt = IF @ = None THEN v ELSE @]

CheckStart ==
  /\ host = "web" /\ check.stage = "idle" /\ Spend("checks")
  /\ check' = [stage |-> "asked", value |-> None]
  /\ UNCHANGED <<host, changed, release, link, adapter, co, load, shownVars, poll, update>>
CheckServed ==
  /\ check.stage = "asked" /\ check' = [stage |-> "served", value |-> release]
  /\ UNCHANGED <<host, changed, release, link, adapter, co, load, shownVars, poll,
                 update, left>>
\* The answer, or a failure.
CheckEnds ==
  /\ check.stage # "idle" /\ check' = [stage |-> "idle", value |-> None]
  /\ update' = Heard(check.value)
  /\ UNCHANGED <<host, changed, release, link, adapter, co, load, shownVars, poll, left>>
\* closeAppUpdatePrompt.
PutOff ==
  /\ update.prompt # None
  /\ update' = [update EXCEPT !.deferred = update.prompt, !.prompt = None]
  /\ UNCHANGED <<host, changed, release, link, adapter, co, load, shownVars, poll, check,
                 left>>

-----------------------------------------------------------------------------
(* The coordinator. *)

\* The event the stream delivers next.
Next1 ==
  CASE link.greet = 2 -> "release-version"
    [] link.greet = 1 -> "stream-connected"
    [] OTHER -> "topbar-invalidated"
Delivered ==
  IF link.greet > 0 THEN [link EXCEPT !.greet = @ - 1]
  ELSE IF link.lagged THEN [link EXCEPT !.lagged = FALSE]
  ELSE [link EXCEPT !.backlog = @ - 1]

\* The adapters count on over reconnects; the topbar's connection has one name.
SequenceOfConnection(kind) == IF kind = "release-version" THEN 1 ELSE adapter + 1
Sequence(kind) == adapter + 1

\* A later load of the page is the one whose answer counts (requestRef).
Starts(by) ==
  load' = [l \in DOMAIN load |->
             IF l = by THEN [stage |-> "asked", value |-> 0, current |-> TRUE]
             ELSE [load[l] EXCEPT !.current = FALSE]]

\* reduceNotificationEvent and scheduleRefresh.
Receive ==
  /\ link.on /\ (link.greet > 0 \/ link.lagged \/ link.backlog > 0)
  /\ link' = Delivered
  /\ LET kind == Next1
         seq == Sequence(kind)
     IN  /\ adapter' = seq
         /\ IF seq <= co.seq THEN UNCHANGED <<co, load, update>>
            ELSE IF kind = "release-version"
            THEN /\ co' = [co EXCEPT !.seq = seq, !.told = release]
                 /\ update' = IF host = "web" /\ release # co.told
                              THEN Heard(release) ELSE update
                 /\ UNCHANGED load
            ELSE IF load["loop"].stage = "idle"
            THEN /\ co' = [co EXCEPT !.seq = seq, !.pending = FALSE] /\ Starts("loop")
                 /\ UNCHANGED update
            ELSE /\ co' = [co EXCEPT !.seq = seq, !.pending = TRUE]
                 /\ UNCHANGED <<load, update>>
  /\ UNCHANGED <<host, changed, release, shownVars, poll, check, left>>

\* The user goes to a page.
Visit ==
  /\ Spend("visits") /\ load["user"].stage = "idle" /\ Starts("user")
  /\ UNCHANGED <<host, changed, release, link, adapter, co, shownVars, poll, check, update>>

LoadServed(by) ==
  /\ load[by].stage = "asked"
  /\ load' = [load EXCEPT ![by].stage = "served", ![by].value = changed]
  /\ UNCHANGED <<host, changed, release, link, adapter, co, shownVars, poll, check, update,
                 left>>

\* runRefreshLoop: once more if something came in meanwhile.
Over(by) ==
  IF by = "loop" /\ co.pending
  THEN Starts(by) /\ co' = [co EXCEPT !.pending = FALSE]
  ELSE load' = [load EXCEPT ![by] = Idle] /\ UNCHANGED co

LoadAnswered(by) ==
  /\ load[by].stage = "served"
  /\ IF load[by].current
     THEN page' = load[by].value /\ badge' = load[by].value /\ failed' = FALSE
     ELSE UNCHANGED shownVars
  /\ Over(by)
  /\ UNCHANGED <<host, changed, release, link, adapter, poll, check, update, left>>
LoadFails(by) ==
  /\ load[by].stage # "idle" /\ Spend("faults")
  /\ failed' = (failed \/ load[by].current) /\ UNCHANGED <<page, badge>>
  /\ Over(by)
  /\ UNCHANGED <<host, changed, release, link, adapter, poll, check, update>>

\* Every thirty seconds in the browser; a timer that finds one under way asks
\* for one more, which the next timer stands for.
PollWhileConnected ==
  /\ host = "web" /\ link.on /\ poll.stage = "idle" /\ poll' = [Idle EXCEPT !.stage = "asked"]
  /\ UNCHANGED <<host, changed, release, link, adapter, co, load, shownVars, check,
                 update, left>>
PollStart ==
  /\ host = "web" /\ poll.stage = "idle" /\ poll' = [Idle EXCEPT !.stage = "asked"]
  /\ UNCHANGED <<host, changed, release, link, adapter, co, load, shownVars, check,
                 update, left>>
PollServed ==
  /\ poll.stage = "asked" /\ poll' = [poll EXCEPT !.stage = "served", !.value = changed]
  /\ UNCHANGED <<host, changed, release, link, adapter, co, load, shownVars, check,
                 update, left>>
PollAnswered ==
  /\ poll.stage = "served" /\ poll' = Idle /\ badge' = poll.value
  /\ UNCHANGED <<host, changed, release, link, adapter, co, load, page, failed, check,
                 update, left>>
PollFails ==
  /\ poll.stage # "idle" /\ poll' = Idle /\ Spend("faults")
  /\ UNCHANGED <<host, changed, release, link, adapter, co, load, shownVars, check, update>>

Polls == PollStart \/ PollServed \/ PollAnswered

LiveNext ==
  \/ Change \/ Connect \/ Drop \/ Deploy
  \/ CheckStart \/ CheckServed \/ CheckEnds \/ PutOff
  \/ Receive \/ Visit \/ Polls \/ PollFails
  \/ \E by \in DOMAIN load : LoadServed(by) \/ LoadAnswered(by) \/ LoadFails(by)

\* The interval timer fires for as long as the page is open, and requests end.
LiveSpec == LiveInit /\ [][LiveNext]_liveVars /\ WF_liveVars(Polls)

-----------------------------------------------------------------------------
(* Properties. *)

\* With the stream connected, everything it had to say delivered and no load
\* under way, the page shows the server's data, whatever changed while it was
\* disconnected, lagging or refreshing; unless the last load failed.
PageFresh ==
  (/\ link.on /\ link.greet = 0 /\ link.backlog = 0 /\ ~link.lagged
   /\ \A by \in DOMAIN load : load[by].stage = "idle"
   /\ ~failed)
  => page = changed /\ ~co.pending

\* A prompt offers neither the release that runs nor the one just put off,
\* whichever of the stream and the manifest brings it again.
PromptWanted == update.prompt # None => update.prompt \notin {Running, update.deferred}

\* In the browser the topbar's numbers come right in the end, even when the
\* stream stays down and every refresh of the page failed (the polling).
BadgeCatchesUp == host = "web" => <>[](badge = changed)
=============================================================================
