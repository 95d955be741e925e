---------------------------- MODULE TimeSchedule ----------------------------
(***************************************************************************)
(* The schedule of members' time (ui/time-allocation-gantt.jsx) and the    *)
(* handlers of the application that keep it (app-shell/app.jsx).  Blocks   *)
(* are drawn, moved, resized, edited and deleted; every change goes on an  *)
(* undo stack.  With onSave ("manual") the difference to the list last     *)
(* loaded is saved in one go, call by call; without it ("direct") every    *)
(* change is sent at once and the list is loaded again afterwards.         *)
(*                                                                         *)
(* Dates are days counted from the first one in view, 0 .. LastDay; a      *)
(* block may reach beyond the view.  Project, hours and task name of a     *)
(* block are its note.                                                     *)
(***************************************************************************)
EXTENDS Integers, Sequences, FiniteSets, TLC

CONSTANTS Members, LastDay,
          Spans,       \* pairs of first and last day that are typed in
          Deltas,      \* days a block is dragged by
          Notes,
          Loaded,      \* the list at the start: id -> block
          Modes,       \* "manual", "direct"
          MaxEdits, MaxFaults, MaxSaves   \* bounds

VARIABLES mode,
          items,       \* the blocks shown: id -> block, new ones negative
          undo, redo,  \* timeline.undoStack, redoStack
          base,        \* the list last loaded: the prop allocations
          drag,        \* selectionRef or blockDragRef
          draft,       \* editDraft
          confirm,     \* saveConfirmOpen
          save,        \* the save under way: its calls left
          runs,        \* direct changes under way, oldest first
          server,      \* the server's list
          clean,       \* history: no direct change failed, nobody else wrote and
                       \* no two direct changes overlapped since the last load
          \* history, since the last save or restored record loaded the list:
          touched,     \* the blocks that were changed here, or sent at once as they
                       \* were
          flipped,     \* those resized while they lay outside the view, or grasped
                       \* when that had turned them round
          theirs,      \* what others made of a block
          strewn,      \* the blocks that failed saves had created or changed
          used         \* bounds: edits; faults and others' writes; saves
scheduleVars == <<mode, items, undo, redo, base, drag, draft, confirm, save, runs,
                  server, clean, touched, flipped, theirs, strewn, used>>
screenVars == <<drag, draft, confirm>>
historyVars == <<touched, flipped, theirs, strewn>>

Block == [who : Members, from : Int, to : Int, note : Notes]
None == [kind |-> "none"]
NoSave == [calls |-> << >>, shown |-> << >>, wrote |-> {}, alone |-> TRUE, on |-> FALSE]
Busy == save.on \/ runs # << >>

ScheduleInit ==
  /\ mode \in Modes
  /\ items = Loaded /\ base = Loaded /\ server = Loaded
  /\ undo = << >> /\ redo = << >>
  /\ drag = None /\ draft = None /\ confirm = FALSE /\ save = NoSave /\ runs = << >>
  /\ clean = TRUE /\ touched = {} /\ flipped = {} /\ theirs = << >> /\ strewn = {}
  /\ used = [edits |-> 0, faults |-> 0, saves |-> 0]

Least(a, b) == IF a < b THEN a ELSE b
Most(a, b) == IF a > b THEN a ELSE b
Without(f, id) == [i \in DOMAIN f \ {id} |-> f[i]]
\* -Date.now(): an id the client has not used, and one the server has not.
NewId == -(used.edits + 1)
ServerId ==
  LET known == {0} \cup DOMAIN Loaded \cup DOMAIN base \cup DOMAIN server
                 \cup DOMAIN theirs \cup touched
  IN  1 + CHOOSE i \in known : \A j \in known : j <= i

-----------------------------------------------------------------------------
(* timeAllocationHistoryReducer. *)

\* The blocks in which two lists differ.
Differing(l1, l2) ==
  {i \in DOMAIN l1 \cup DOMAIN l2 :
     ~(i \in DOMAIN l1 \cap DOMAIN l2 /\ l1[i] = l2[i])}

\* "change", and persistCreate, persistUpdate or persistDelete without onSave.
Change(next, call) ==
  /\ used.edits < MaxEdits
  /\ items' = next /\ undo' = Append(undo, items) /\ redo' = << >>
  /\ used' = [used EXCEPT !.edits = @ + 1]
  /\ runs' = IF mode = "direct" /\ call # None
             THEN Append(runs, [call |-> call, stage |-> "call", list |-> << >>]) ELSE runs
  /\ clean' = (clean /\ (runs' = runs \/ runs = << >>))
  /\ touched' = touched \cup Differing(items, next)
                 \cup (IF runs' = runs THEN {} ELSE {call.id})
  /\ UNCHANGED <<mode, base, save, server, theirs, strewn>>

\* The effect on a new list: "replace".
ReplacedKeepingStacks(list) == base' = list /\ items' = list /\ UNCHANGED <<undo, redo>>
Replaced(list) ==
  /\ base' = list /\ items' = list
  /\ undo' = << >> /\ redo' = << >>

Undo ==
  /\ mode = "manual" /\ undo # << >> /\ ~Busy
  /\ items' = undo[Len(undo)]
  /\ undo' = SubSeq(undo, 1, Len(undo) - 1) /\ redo' = Append(redo, items)
  /\ UNCHANGED <<mode, base, screenVars, save, runs, server, clean, historyVars, used>>

Redo ==
  /\ mode = "manual" /\ redo # << >> /\ ~Busy
  /\ items' = redo[Len(redo)]
  /\ redo' = SubSeq(redo, 1, Len(redo) - 1) /\ undo' = Append(undo, items)
  /\ UNCHANGED <<mode, base, screenVars, save, runs, server, clean, historyVars, used>>

-----------------------------------------------------------------------------
(* The pointer.  The popover and the dialogue cover the schedule. *)

\* No gesture is begun that the bound on edits would not let end.
Reachable == drag = None /\ draft = None /\ ~confirm
Startable == Reachable /\ used.edits < MaxEdits
Quiet == UNCHANGED <<mode, items, undo, redo, base, save, runs, server,
                     clean, historyVars, used>>

\* beginSelection; commitSelection, wherever the pointer is by then.
BeginSelection ==
  /\ Startable
  /\ \E who \in Members, day \in 0 .. LastDay :
       drag' = [kind |-> "select", who |-> who, day |-> day]
  /\ UNCHANGED <<draft, confirm>> /\ Quiet
CommitSelection ==
  /\ drag.kind = "select"
  /\ drag' = None /\ UNCHANGED <<draft, confirm>>
  /\ \E day \in -1 .. LastDay + 1 :
       LET block == [who |-> drag.who, from |-> Least(drag.day, day),
                     to |-> Most(drag.day, day), note |-> CHOOSE n \in Notes : TRUE]
       IN  IF block.from < 0 \/ block.to > LastDay THEN Quiet
           ELSE /\ Change((NewId :> block) @@ items,
                          [kind |-> "create", id |-> NewId, block |-> block])
                /\ UNCHANGED flipped

\* Every block is drawn, one outside the view at its edge, and can be grasped.
BeginBlockDrag ==
  /\ Startable
  /\ \E id \in DOMAIN items, m \in {"move", "resize-l", "resize-r"} :
       drag' = [kind |-> m, id |-> id, from |-> items[id].from, to |-> items[id].to]
  /\ UNCHANGED <<draft, confirm>> /\ Quiet

\* updateBlockDrag: where the block goes when the pointer moved delta days.
Moved(d, delta) ==
  LET length == d.to - d.from
      start == Most(0, Least(d.from + delta, LastDay - length))
  IN  CASE d.kind = "move" -> [from |-> start, to |-> start + length]
        [] d.kind = "resize-l" ->
             [from |-> Most(0, Least(d.from + delta, d.to - 1)), to |-> d.to]
        [] d.kind = "resize-r" ->
             [from |-> d.from, to |-> Least(LastDay, Most(d.to + delta, d.from + 1))]

Outside(d) == d.to < 0 \/ d.from > LastDay
Proper(d) == d.from <= d.to

\* commitBlockDrag: the range is the one of the drag, the rest is current.
CommitBlockDrag ==
  /\ drag.kind \in {"move", "resize-l", "resize-r"}
  /\ drag' = None /\ UNCHANGED <<draft, confirm>>
  /\ \E delta \in Deltas, still \in BOOLEAN :
       LET range == IF still THEN [from |-> drag.from, to |-> drag.to] ELSE Moved(drag, delta)
           next == [items[drag.id] EXCEPT !.from = range.from, !.to = range.to]
       IN  IF drag.id \notin DOMAIN items THEN Quiet
           ELSE IF next = items[drag.id] THEN Quiet
           ELSE /\ Change([items EXCEPT ![drag.id] = next],
                          [kind |-> "update", id |-> drag.id, block |-> next])
                /\ flipped' = IF (Outside(drag) /\ drag.kind # "move") \/ ~Proper(drag)
                              THEN flipped \cup {drag.id} ELSE flipped

\* A double click.
DeleteBlock ==
  /\ Reachable
  /\ \E id \in DOMAIN items :
       Change(Without(items, id),
              IF id \in DOMAIN base THEN [kind |-> "delete", id |-> id] ELSE None)
  /\ UNCHANGED <<screenVars, flipped>>

\* The context menu, and the popover it opens.
OpenEdit ==
  /\ Startable
  /\ \E id \in DOMAIN items : draft' = [kind |-> "edit", id |-> id]
  /\ UNCHANGED <<drag, confirm>> /\ Quiet
CloseEdit == draft # None /\ draft' = None /\ UNCHANGED <<drag, confirm>> /\ Quiet
SubmitEdit ==
  /\ draft # None /\ draft' = None /\ UNCHANGED <<drag, confirm>>
  /\ IF draft.id \notin DOMAIN items THEN Quiet
     ELSE \E d \in Spans, note \in Notes :
            LET next == [items[draft.id] EXCEPT !.from = d[1], !.to = d[2], !.note = note]
            IN  /\ Change([items EXCEPT ![draft.id] = next],
                          [kind |-> "update", id |-> draft.id, block |-> next])
                /\ UNCHANGED flipped

\* handleManualAdd; its button is disabled while busy.
ManualAdd ==
  /\ Reachable /\ ~Busy
  /\ \E who \in Members, d \in Spans :
       LET block == [who |-> who, from |-> d[1], to |-> d[2],
                     note |-> CHOOSE n \in Notes : TRUE]
       IN  Change((NewId :> block) @@ items,
                  [kind |-> "create", id |-> NewId, block |-> block])
  /\ UNCHANGED <<screenVars, flipped>>

-----------------------------------------------------------------------------
(* Saving. *)

\* buildSaveOperations, as the calls persistTimeSave makes of it, in order.
InOrder(S) == [n \in 1 .. Cardinality(S) |->
                 CHOOSE c \in S : Cardinality({d \in S : d.id < c.id}) = n - 1]
SaveWithoutDeletions ==
  InOrder({[kind |-> IF i < 0 THEN "create" ELSE "update", id |-> i, block |-> items[i]] :
             i \in {j \in DOMAIN items : j < 0 \/ items[j] # base[j]}})
SaveEverything ==
  InOrder({[kind |-> "create", id |-> i, block |-> items[i]] :
                i \in {j \in DOMAIN items : j < 0}})
  \o InOrder({[kind |-> "update", id |-> i, block |-> items[i]] :
                i \in DOMAIN base \cap DOMAIN items})
  \o InOrder({[kind |-> "delete", id |-> i] : i \in DOMAIN base \ DOMAIN items})
SaveOperations ==
  InOrder({[kind |-> "create", id |-> i, block |-> items[i]] :
                i \in {j \in DOMAIN items : j < 0}})
  \o InOrder({[kind |-> "update", id |-> i, block |-> items[i]] :
                i \in {j \in DOMAIN base \cap DOMAIN items : items[j] # base[j]}})
  \o InOrder({[kind |-> "delete", id |-> i] : i \in DOMAIN base \ DOMAIN items})

OpenSave ==
  /\ mode = "manual" /\ Reachable /\ undo # << >> /\ ~Busy /\ confirm' = TRUE
  /\ UNCHANGED <<drag, draft>> /\ Quiet
\* The dialogue can be closed while it saves.
CloseSave == confirm /\ confirm' = FALSE /\ UNCHANGED <<drag, draft>> /\ Quiet

ConfirmSave ==
  /\ confirm /\ ~Busy
  /\ used.saves < MaxSaves /\ used' = [used EXCEPT !.saves = @ + 1]
  /\ save' = [calls |-> SaveOperations, shown |-> items, wrote |-> {},
             alone |-> theirs = << >>, on |-> TRUE]
  /\ UNCHANGED <<mode, items, undo, redo, base, screenVars, runs, server,
                 clean, historyVars>>

\* The server carries out a call; one of a block it does not have fails, and
\* one with a block that ends before it begins (validate_time_allocation_input).
Serves(call) ==
  /\ call.kind # "create" => call.id \in DOMAIN server
  /\ call.kind # "delete" => Proper(call.block)
Applied(call) ==
  CASE call.kind = "create" -> (ServerId :> call.block) @@ server
    [] call.kind = "update" -> [server EXCEPT ![call.id] = call.block]
    [] call.kind = "delete" -> Without(server, call.id)

\* The blocks the save has written when the call it makes is carried out.
Wrote ==
  LET call == Head(save.calls)
  IN  save.wrote \cup {IF call.kind = "create" THEN ServerId ELSE call.id}
SaveCall ==
  /\ save.on /\ save.calls # << >>
  /\ Serves(Head(save.calls)) /\ server' = Applied(Head(save.calls))
  /\ save' = [save EXCEPT !.calls = Tail(@), !.wrote = Wrote]
  /\ UNCHANGED <<mode, items, undo, redo, base, screenVars, runs, clean, historyVars, used>>

\* A call fails, done or not, or its answer is lost: the rest is left.
Fault == used.faults < MaxFaults /\ used' = [used EXCEPT !.faults = @ + 1]
SaveFails ==
  /\ save.on /\ save' = NoSave
  /\ \/ /\ \/ save.calls # << >> /\ ~Serves(Head(save.calls)) /\ UNCHANGED used
           \/ Fault
        /\ strewn' = strewn \cup save.wrote /\ UNCHANGED server
     \/ /\ save.calls # << >> /\ Serves(Head(save.calls)) /\ Fault
        /\ server' = Applied(Head(save.calls)) /\ strewn' = strewn \cup Wrote
  /\ UNCHANGED <<mode, items, undo, redo, base, screenVars, runs, clean, touched, flipped,
                 theirs>>

\* The list is loaded again, replaces everything and closes the dialogue.
Forgotten == touched' = {} /\ flipped' = {} /\ theirs' = << >> /\ strewn' = {}
SaveDone ==
  /\ save.on /\ save.calls = << >>
  /\ Replaced(server) /\ confirm' = FALSE /\ save' = NoSave /\ Forgotten
  /\ UNCHANGED <<mode, drag, draft, runs, server, clean, used>>

-----------------------------------------------------------------------------
(* Changes sent at once, each followed by a load of the list. *)

Ends(i) == runs' = SubSeq(runs, 1, i - 1) \o SubSeq(runs, i + 1, Len(runs))

DirectCall(i) ==
  /\ runs[i].stage = "call" /\ Serves(runs[i].call)
  /\ server' = Applied(runs[i].call)
  /\ runs' = [runs EXCEPT ![i].stage = "load"]
  /\ UNCHANGED <<mode, items, undo, redo, base, screenVars, save, clean, historyVars,
                 used>>
DirectLoad(i) ==
  /\ runs[i].stage = "load"
  /\ runs' = [runs EXCEPT ![i].stage = "show", ![i].list = server]
  /\ UNCHANGED <<mode, items, undo, redo, base, screenVars, save, server,
                 clean, historyVars, used>>
DirectShow(i) ==
  /\ runs[i].stage = "show" /\ Ends(i) /\ Replaced(runs[i].list)
  /\ clean' = (clean \/ (Len(runs) = 1 /\ runs[i].list = server))
  /\ UNCHANGED <<mode, screenVars, save, server, historyVars, used>>
DirectFails(i) ==
  /\ runs[i].stage # "show" /\ Ends(i) /\ clean' = FALSE
  /\ \/ runs[i].stage = "call" /\ ~Serves(runs[i].call) /\ UNCHANGED <<server, used>>
     \/ Fault /\ UNCHANGED server
     \/ /\ runs[i].stage = "call" /\ Serves(runs[i].call)
        /\ Fault /\ server' = Applied(runs[i].call)
  /\ UNCHANGED <<mode, items, undo, redo, base, screenVars, save, historyVars>>

\* Another user changes or deletes a block; a change record, here one of a
\* new block, is restored and the list loaded again (confirmTimeChangeRestore).
Gone == [kind |-> "gone"]
Elsewhere(id, block) ==
  /\ used.faults < MaxFaults /\ used' = [used EXCEPT !.faults = @ + 1]
  /\ server' = IF block = Gone THEN Without(server, id) ELSE [server EXCEPT ![id] = block]
  /\ save' = [save EXCEPT !.alone = FALSE]
  /\ UNCHANGED <<mode, screenVars, runs>>
Theirs(id, block) == theirs' = (id :> block) @@ theirs /\ UNCHANGED <<touched, flipped, strewn>>
OtherWrites ==
  /\ \E id \in DOMAIN server, d \in Spans, note \in Notes :
       \E block \in {Gone, [server[id] EXCEPT !.from = d[1], !.to = d[2], !.note = note]} :
         Elsewhere(id, block) /\ Theirs(id, block)
  /\ clean' = FALSE /\ UNCHANGED <<items, undo, redo, base>>
RestoreRecord ==
  /\ \E id \in DOMAIN server :
       Elsewhere(id, Gone) /\ IF Busy THEN Theirs(id, Gone) ELSE Forgotten
  /\ Replaced(server') /\ clean' = ~Busy

DirectStep == \E i \in DOMAIN runs :
  DirectCall(i) \/ DirectLoad(i) \/ DirectShow(i) \/ DirectFails(i)

ScheduleNext ==
  \/ Undo \/ Redo \/ BeginSelection \/ CommitSelection \/ BeginBlockDrag
  \/ CommitBlockDrag \/ DeleteBlock \/ OpenEdit \/ CloseEdit \/ SubmitEdit
  \/ ManualAdd \/ OpenSave \/ CloseSave \/ ConfirmSave \/ SaveCall \/ SaveFails
  \/ SaveDone \/ DirectStep \/ OtherWrites \/ RestoreRecord

ScheduleSpec == ScheduleInit /\ [][ScheduleNext]_scheduleVars

-----------------------------------------------------------------------------
(* The rows of a member (assignAllocationLanes). *)

Overlap(a, b) == a.from <= b.to /\ b.from <= a.to
Before(i, j) ==
  LET a == items[i]
      b == items[j]
  IN  \/ a.from < b.from
      \/ a.from = b.from /\ a.to < b.to
      \/ a.from = b.from /\ a.to = b.to /\ i < j
Mine(who) == {i \in DOMAIN items : items[i].who = who}
Sorted(S) == [n \in 1 .. Cardinality(S) |->
                CHOOSE i \in S : Cardinality({j \in S : Before(j, i)}) = n - 1]
\* Each block goes to the first lane whose last day it starts after.
FirstTouching(ends, b) ==
  LET free == {n \in DOMAIN ends : ends[n] <= b.from}
  IN  IF free = {} THEN Len(ends) + 1 ELSE CHOOSE n \in free : \A k \in free : n <= k
FirstFree(ends, b) ==
  LET free == {n \in DOMAIN ends : ends[n] < b.from}
  IN  IF free = {} THEN Len(ends) + 1 ELSE CHOOSE n \in free : \A k \in free : n <= k
Lanes(who) ==
  LET s == Sorted(Mine(who))
      lane[n \in 0 .. Len(s)] ==
        IF n = 0 THEN [ends |-> << >>, of |-> << >>]
        ELSE LET b == items[s[n]]
                 done == lane[n - 1]
                 l == FirstFree(done.ends, b)
             IN  [ends |-> IF l > Len(done.ends) THEN Append(done.ends, b.to)
                           ELSE [done.ends EXCEPT ![l] = Most(@, b.to)],
                  of |-> (s[n] :> l) @@ done.of]
  IN  lane[Len(s)].of

-----------------------------------------------------------------------------
(* Properties. *)

\* Dragging, resizing and editing give no block that ends before it begins,
\* but for one whose handle was pulled while it lay wholly outside the view:
\* updateBlockDrag clamps the end that is pulled to the view and leaves the
\* other where it is.  The server never holds such a block.
BlocksInOrder ==
  /\ \A i \in DOMAIN items : Proper(items[i]) \/ i \in flipped
  /\ \A i \in DOMAIN server : Proper(server[i])

\* The rows of a member show each block once, none over another, in as few
\* rows as the busiest day needs (assignAllocationLanes).
BlocksShown ==
  \A who \in Members :
    LET lanes == Lanes(who)
        on(day) == {i \in Mine(who) : items[i].from <= day /\ day <= items[i].to}
    IN  /\ DOMAIN lanes = Mine(who)
        /\ \A i, j \in Mine(who) :
             i # j /\ lanes[i] = lanes[j] => ~Overlap(items[i], items[j])
        /\ \A i \in Mine(who) : Proper(items[i]) =>
             \E k \in Mine(who) : lanes[i] <= Cardinality(on(items[k].from))

\* However many changes are made, undone and redone, undoing them all gives
\* the list the page showed when it was last loaded (the reducer).
UndoLeadsBack ==
  IF undo = << >> THEN items = base ELSE undo[1] = base

\* How many blocks of a list are equal to b.
Count(list, b) == Cardinality({i \in DOMAIN list : list[i] = b})
SameBlocks(l1, l2) ==
  \A b \in {l1[i] : i \in DOMAIN l1} \cup {l2[i] : i \in DOMAIN l2} :
    Count(l1, b) = Count(l2, b)

\* Whatever is saved, sent at once, failed or tried again, a block that nobody
\* changed on this page stays as the last of the others left it: only the
\* differences to the list that was loaded are sent (buildSaveOperations).
OthersKept ==
  \A i \in DOMAIN theirs \ touched :
    IF theirs[i] = Gone THEN i \notin DOMAIN server
    ELSE i \in DOMAIN server /\ server[i] = theirs[i]

\* What a failed save did and the next one does not send again: a block that
\* it created, and one that was put back to what had been loaded.
NotRepaired ==
  {i \in strewn : i \notin DOMAIN base
                   \/ (i \in DOMAIN save.shown /\ save.shown[i] = base[i])}
Except(list, S) == [i \in DOMAIN list \ S |-> list[i]]

\* A save that nobody else's change meets leaves the server with exactly the
\* blocks that were shown when it was confirmed, whatever is edited while it
\* runs.  If earlier ones failed half way, the next repairs all they did but
\* for two things, as it compares with the list that was loaded before them: a
\* block they created stays, beside the one it creates again, and a change
\* that was undone since stays too (buildSaveOperations, persistTimeSave).
\* Without onSave the page shows the server's list whenever no change is under
\* way, unless changes overlapped or failed.
SavedAsShown ==
  /\ save.on /\ save.alone /\ save.calls = << >> =>
       SameBlocks(Except(save.shown, NotRepaired), Except(server, NotRepaired))
  /\ mode = "direct" /\ clean /\ runs = << >> => items = server
=============================================================================
