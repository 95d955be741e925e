---------------------------- MODULE WorkItemLive ----------------------------
(***************************************************************************)
(* A work item's page kept up to date by the item's own event stream       *)
(* (work_item_events and platform/realtime.rs on the server, the browser's *)
(* EventSource, app-core/work-item-events.js, and SharedApp's effect), and *)
(* who is shown to be typing on it (createWorkItemTypingController and the *)
(* server's typing presence).                                              *)
(*                                                                         *)
(* One client looks at items; another one types on the item Typed.  Data   *)
(* is a version number.  Time passes in ticks, for the typing only.        *)
(***************************************************************************)
EXTENDS Naturals, Sequences

CONSTANTS Items, Typed,
          ChannelSize,           \* WORK_ITEM_REALTIME_CHANNEL_SIZE
          Renewal, IdleAfter,    \* renewalMs, idleMs; together at most TTL
          TTL,                   \* WORK_ITEM_TYPING_TTL
          Budgets                \* bounds: how often the things that happen may happen

VARIABLES changed, item, shown,
          link,      \* [on, greet, queue, lagged]
          adapter,   \* sequence of the open subscription's events
          co,        \* the page's coordinator: [seq, pending]
          runs,      \* loads and refreshes under way
          seen,      \* workItemTyping: is the other client shown to be typing
          gap, failed, behind,   \* history: why the page may be out of date
          ctl,       \* the other client: [focus, active, age, idle, gone]
          posts,     \* its reports under way, oldest first
          presence,  \* ticks its entry is valid for
          doubt,     \* history: reports lost or crossed, an entry lapsed, an
                     \* editor entered while active
          left
itemVars == <<changed, item, shown, link, adapter, co, runs, seen, gap, failed, behind,
              ctl, posts, presence, doubt, left>>
typistVars == <<ctl, posts, presence>>
whyVars == <<gap, failed, behind>>

Off == [on |-> FALSE, greet |-> << >>, queue |-> << >>, lagged |-> FALSE]
NewCoordinator == [seq |-> 0, pending |-> FALSE]
Away == "none"

ItemInit ==
  /\ changed = [i \in Items |-> 0] /\ item = Away /\ shown = 0
  /\ link = Off /\ adapter = 0 /\ co = NewCoordinator /\ runs = << >> /\ seen = FALSE
  /\ gap = FALSE /\ failed = FALSE /\ behind = FALSE
  /\ ctl = [focus |-> FALSE, active |-> FALSE, age |-> 0, idle |-> 0, gone |-> FALSE]
  /\ posts = << >> /\ presence = 0 /\ doubt = [report |-> FALSE, lapse |-> FALSE, entry |-> FALSE]
  /\ left \in Budgets

Spend(k) == left[k] > 0 /\ left' = [left EXCEPT ![k] = @ - 1]
Without(s, n) == SubSeq(s, 1, n - 1) \o SubSeq(s, n + 1, Len(s))

-----------------------------------------------------------------------------
(* The channel and the stream. *)

\* A receiver gets every item's messages; a full one loses the oldest.
Broadcast(message) ==
  IF ~link.on THEN link
  ELSE IF Len(link.queue) < ChannelSize
       THEN [link EXCEPT !.queue = Append(@, message)]
       ELSE [link EXCEPT !.queue = Append(Tail(@), message), !.lagged = TRUE]

\* publish_work_item_discussion_refresh, after a write to the item.
Change ==
  /\ Spend("changes")
  /\ \E i \in Items :
       /\ changed' = [changed EXCEPT ![i] = @ + 1]
       /\ link' = Broadcast([item |-> i, kind |-> "discussion-refresh"])
       /\ gap' = (gap \/ (i = item /\ ~link.on))
  /\ UNCHANGED <<item, shown, adapter, co, runs, seen, failed, behind, typistVars, doubt>>

Typing(i) == i = Typed /\ presence > 0

\* work_item_events: subscribed, and the typing of that moment.
Connect ==
  /\ item # Away /\ ~link.on
  /\ link' = [Off EXCEPT !.on = TRUE, !.greet = <<Typing(item)>>]
  /\ UNCHANGED <<changed, item, shown, adapter, co, runs, seen, whyVars, typistVars,
                 doubt, left>>
Drop ==
  /\ link.on /\ Spend("drops")
  /\ link' = Off
  /\ gap' = (gap \/ link.lagged
             \/ \E n \in DOMAIN link.queue :
                  link.queue[n] = [item |-> item, kind |-> "discussion-refresh"])
  /\ UNCHANGED <<changed, item, shown, adapter, co, runs, seen, failed, behind, typistVars,
                 doubt>>

\* createWorkItemEventCoordinator: handle, scheduleRefresh.
Run(kind) == [kind |-> kind, item |-> item, stage |-> "asked", value |-> 0, live |-> TRUE]
Refreshing == \E n \in DOMAIN runs : runs[n].kind = "refresh" /\ runs[n].live
\* Whatever comes in while it refreshes is taken for the refresh under way.
InvalidatedOnce ==
  /\ co' = [co EXCEPT !.seq = adapter + 1]
  /\ runs' = IF Refreshing THEN runs ELSE Append(runs, Run("refresh"))
Invalidated ==
  IF Refreshing THEN co' = [seq |-> adapter + 1, pending |-> TRUE] /\ UNCHANGED runs
  ELSE co' = [seq |-> adapter + 1, pending |-> FALSE] /\ runs' = Append(runs, Run("refresh"))

Handle(kind, typing) ==
  /\ adapter' = adapter + 1
  /\ IF adapter + 1 <= co.seq THEN UNCHANGED <<co, runs, seen>>
     ELSE IF kind = "typing"
          THEN seen' = typing /\ co' = [co EXCEPT !.seq = adapter + 1] /\ UNCHANGED runs
          ELSE Invalidated /\ UNCHANGED seen

\* The stream's next event; after a lag a refresh and then the typing.
Receive ==
  /\ link.on
  /\ \/ /\ link.greet # << >>
        /\ link' = [link EXCEPT !.greet = << >>] /\ Handle("typing", Head(link.greet))
        /\ UNCHANGED doubt
     \/ /\ link.greet = << >> /\ link.lagged
        /\ link' = [link EXCEPT !.lagged = FALSE, !.greet = <<Typing(item)>>]
        /\ Handle("discussion-refresh", FALSE) /\ UNCHANGED doubt
     \/ /\ link.greet = << >> /\ ~link.lagged /\ link.queue # << >>
        /\ link' = [link EXCEPT !.queue = Tail(@)]
        /\ LET m == Head(link.queue)
           IN  IF m.item # item THEN UNCHANGED <<adapter, co, runs, seen, doubt>>
               ELSE /\ Handle(m.kind, Typing(item))
                    /\ doubt' = [doubt EXCEPT !.lapse = @ /\ m.kind # "typing"]
  /\ UNCHANGED <<changed, item, shown, whyVars, typistVars, left>>

-----------------------------------------------------------------------------
(* The page. *)

\* Another page: the effect's cleanup, then the new item's load and stream.
Enter ==
  /\ Spend("enters")
  /\ \E i \in Items \ {item} :
       /\ item' = i
       /\ runs' = Append([n \in DOMAIN runs |-> [runs[n] EXCEPT !.live = FALSE]],
                         [Run("load") EXCEPT !.item = i])
  /\ link' = Off /\ adapter' = 0 /\ co' = NewCoordinator /\ seen' = FALSE
  /\ shown' = 0 /\ gap' = FALSE /\ failed' = FALSE /\ behind' = FALSE
  /\ UNCHANGED <<changed, typistVars, doubt>>

\* A load counts while it is the latest; a refresh whenever its item is shown.
Counts(r) == IF r.kind = "load" THEN r.live ELSE r.item = item

Served(n) ==
  /\ runs[n].stage = "asked"
  /\ runs' = [runs EXCEPT ![n].stage = "served", ![n].value = changed[runs[n].item]]
  /\ gap' = (gap /\ ~(Counts(runs[n]) /\ link.on))
  /\ UNCHANGED <<changed, item, shown, link, adapter, co, seen, failed, behind, typistVars,
                 doubt, left>>

\* runRefreshLoop.
Over(n) ==
  IF runs[n].kind = "refresh" /\ runs[n].live /\ co.pending
  THEN runs' = [runs EXCEPT ![n] = Run("refresh")] /\ co' = [co EXCEPT !.pending = FALSE]
  ELSE runs' = Without(runs, n) /\ UNCHANGED co

Answered(n) ==
  /\ runs[n].stage = "served"
  /\ IF Counts(runs[n])
     THEN /\ shown' = runs[n].value
          /\ behind' = (behind \/ runs[n].value < shown)
     ELSE UNCHANGED <<shown, behind>>
  /\ Over(n)
  /\ UNCHANGED <<changed, item, link, adapter, seen, gap, failed, typistVars, doubt, left>>
Fails(n) ==
  /\ Spend("faults") /\ Over(n)
  /\ failed' = (failed \/ Counts(runs[n]))
  /\ UNCHANGED <<changed, item, shown, link, adapter, seen, gap, behind, typistVars, doubt>>

-----------------------------------------------------------------------------
(* The client that types. *)

Report(active) == posts' = Append(posts, active)

\* publishActive and scheduleIdleStop; entering an editor renews nothing.
ReportsOnce(renew) == ~ctl.active
Reports(renew) == ~ctl.active \/ (renew /\ ctl.age >= Renewal)
Publish(renew) ==
  /\ Spend("keys") /\ ~ctl.gone
  /\ IF Reports(renew) THEN Report(TRUE) ELSE UNCHANGED posts
  /\ ctl' = [ctl EXCEPT !.focus = TRUE, !.active = TRUE, !.idle = IdleAfter,
                        !.age = IF Reports(renew) THEN 0 ELSE @]
  /\ doubt' = [doubt EXCEPT !.entry = ~Reports(renew) /\ (@ \/ ~renew)]
  /\ UNCHANGED <<changed, item, shown, link, adapter, co, runs, seen, whyVars, presence>>
Start == ~ctl.focus /\ Publish(FALSE)
Activity == ctl.focus /\ Publish(TRUE)

Stopped(c) == [c EXCEPT !.active = FALSE, !.age = 0, !.idle = 0]
Stop ==
  /\ ctl.focus /\ ctl' = [Stopped(ctl) EXCEPT !.focus = FALSE]
  /\ IF ctl.active THEN Report(FALSE) ELSE UNCHANGED posts
  /\ UNCHANGED <<changed, item, shown, link, adapter, co, runs, seen, whyVars, presence,
                 doubt, left>>
\* The editor is taken away with the focus in it: no blur.
Removed ==
  /\ ctl.focus /\ ctl' = [ctl EXCEPT !.focus = FALSE]
  /\ UNCHANGED <<changed, item, shown, link, adapter, co, runs, seen, whyVars, posts,
                 presence, doubt, left>>
Dispose ==
  /\ ~ctl.gone /\ ctl' = [Stopped(ctl) EXCEPT !.gone = TRUE]
  /\ IF ctl.active THEN Report(FALSE) ELSE UNCHANGED posts
  /\ UNCHANGED <<changed, item, shown, link, adapter, co, runs, seen, whyVars, presence,
                 doubt, left>>

\* A tick: the idle timer stops the typing, the entry runs out.
Tick ==
  /\ Spend("ticks")
  /\ IF ctl.idle = 1 THEN ctl' = Stopped(ctl) /\ Report(FALSE)
     ELSE /\ ctl' = [ctl EXCEPT !.idle = IF @ > 0 THEN @ - 1 ELSE 0,
                                !.age = IF ctl.active THEN @ + 1 ELSE 0]
          /\ UNCHANGED posts
  /\ presence' = IF presence > 0 THEN presence - 1 ELSE 0
  /\ doubt' = [doubt EXCEPT !.lapse = @ \/ presence = 1]
  /\ UNCHANGED <<changed, item, shown, link, adapter, co, runs, seen, whyVars>>

\* update_work_item_typing_presence; reports are requests of their own and
\* may overtake each other.
Reported ==
  /\ \E n \in DOMAIN posts :
       /\ n = 1 \/ left.crossings > 0
       /\ left' = IF n = 1 THEN left ELSE [left EXCEPT !.crossings = @ - 1]
       /\ presence' = IF posts[n] THEN TTL ELSE 0
       /\ posts' = Without(posts, n)
       /\ doubt' = [doubt EXCEPT !.report = @ \/ n # 1]
  /\ link' = Broadcast([item |-> Typed, kind |-> "typing"])
  /\ UNCHANGED <<changed, item, shown, adapter, co, runs, seen, whyVars, ctl>>
ReportLost ==
  /\ Spend("faults") /\ posts # << >> /\ posts' = Tail(posts)
  /\ doubt' = [doubt EXCEPT !.report = TRUE]
  /\ UNCHANGED <<changed, item, shown, link, adapter, co, runs, seen, whyVars, ctl, presence>>

ItemNext ==
  \/ Change \/ Connect \/ Drop \/ Receive \/ Enter
  \/ \E n \in DOMAIN runs : Served(n) \/ Answered(n) \/ Fails(n)
  \/ Start \/ Activity \/ Stop \/ Removed \/ Dispose \/ Tick \/ Reported \/ ReportLost

ItemSpec == ItemInit /\ [][ItemNext]_itemVars

-----------------------------------------------------------------------------
(* Properties. *)

Drained == link.on /\ link.greet = << >> /\ link.queue = << >> /\ ~link.lagged

\* Every change of the item while the page is subscribed is shown in the end:
\* bursts are merged and a lagging channel is made up for, but no change falls
\* between two refreshes.  Not promised after a change made while the stream
\* was down, a failed load, or an older answer that came last.
DiscussionFresh ==
  Drained /\ runs = << >> /\ ~gap /\ ~failed /\ ~behind => shown = changed[item] /\ ~co.pending

\* Someone who keeps typing does not disappear between two reports (unless an
\* editor was entered while still active, which reports nothing), and with
\* everything delivered the page shows exactly who is typing, until an entry
\* runs out without a word (the server announces no expiry).
TypingShown ==
  /\ ctl.active /\ posts = << >> /\ ~doubt.report /\ ~doubt.entry => presence > 0
  /\ Drained /\ ~doubt.lapse => seen = Typing(item)
=============================================================================
