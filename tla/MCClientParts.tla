--------------------------- MODULE MCClientParts ---------------------------
(***************************************************************************)
(* Values for the parts of ClientParts, chosen so that each part meets the *)
(* trouble its properties are about.                                       *)
(***************************************************************************)
EXTENDS ClientParts, TLC

\* Three files in one paste, two that look alike and one with the same bytes,
\* and a file pasted later.
File(id, look) == [id |-> id, look |-> look, bytes |-> "p"]
Pasted == << <<File("f1", "x"), File("f1b", "x"), File("f1c", "y")>>,
             <<File("f2", "z")>> >>

\* A block of one member before the days in view.
Planned ==
    1 :> [who |-> "m", from |-> -1, to |-> -1, note |-> "x"]

\* Each budget allows one kind of trouble, together with what it troubles.
LiveBudget(c, d, f, v, r, k) ==
    [changes |-> c, drops |-> d, faults |-> f, visits |-> v, deploys |-> r,
     checks |-> k]
LiveTroubles ==
    {LiveBudget(2, 1, 0, 0, 0, 0), LiveBudget(2, 0, 1, 0, 0, 0),
     LiveBudget(2, 0, 0, 1, 0, 0), LiveBudget(0, 0, 0, 0, 3, 2)}

ItemBudget(c, d, f, e, k, t, x) ==
    [changes |-> c, drops |-> d, faults |-> f, enters |-> e, keys |-> k,
     ticks |-> t, crossings |-> x]
ItemTroubles ==
    {ItemBudget(2, 1, 0, 1, 0, 0, 0), ItemBudget(3, 0, 0, 1, 0, 0, 0),
     ItemBudget(2, 0, 1, 2, 0, 0, 0), ItemBudget(1, 0, 0, 3, 0, 0, 0),
     ItemBudget(0, 0, 0, 0, 3, 6, 0), ItemBudget(0, 0, 1, 1, 1, 0, 1),
     ItemBudget(0, 1, 0, 1, 1, 2, 0)}

\* What addresses are built from: good values, blanks, values with a slash and
\* values a page does not know.
AddressParts ==
    [page |-> {"0", "2"}, per_page |-> {"20"}, cycle_id |-> {"2"},
     filter |-> {"unread", "pending_discussion", "bogus"},
     q |-> {" ", " x"}, status |-> {"all", "x"}, priority |-> {"p1"},
     assignee_username |-> {" x"}, project_key |-> {"x"}, sort |-> {"x"},
     role |-> {" x"}, actor |-> {"x"}, action |-> {"x"},
     target_type |-> {"x"}, target_id |-> {"x"},
     tab |-> {"files", "members", "bogus"}, projectKey |-> {"", "a/b"},
     itemKey |-> {" ", "a/b"}, cycleId |-> {"0", "2"},
     resourceId |-> {"0", "2"}, comment |-> {"2"}]

\* An image that is taller and one that is wider than the stages.  The tall one
\* fits their width at 2.61, at 1.20, which a step of the wheel brings to 1.02
\* and the button reaches with 1.25, and not at all.
Shown ==
    "tall" :> [kind |-> "image", w |-> 300, h |-> 600]
    @@ "wide" :> [kind |-> "image", w |-> 500, h |-> 300]
    @@ "doc" :> [kind |-> "document", w |-> 0, h |-> 0]
Stages == {[w |-> 400, h |-> 300], [w |-> 184, h |-> 300], [w |-> 184, h |-> 400]}
PreviewMoves == {[shows |-> 4, moves |-> 0], [shows |-> 1, moves |-> 5]}

\* Less than a chunk, a chunk of two kinds, and more than one.
ChosenFiles == {<<"a">>, <<"a", "b">>, <<"b", "a">>, <<"a", "b", "a">>}
BrowserBudget(t, c, f, n) ==
    [tries |-> t, changes |-> c, faults |-> f, turns |-> n]
BrowserTroubles == {BrowserBudget(2, 1, 0, 1), BrowserBudget(2, 0, 1, 2)}

\* Windows opened again, a page loaded again with the stream moving, a failure
\* and a reload, and sessions that change.
LifecycleTrouble(a, r, f, c, n, outcomes) ==
    [activate |-> a, reload |-> r, fault |-> f, change |-> c, net |-> n,
     outcomes |-> outcomes]
WindowTroubles ==
    {LifecycleTrouble(2, 0, 0, 0, 0, {"authenticated"}),
     LifecycleTrouble(1, 0, 1, 0, 0, {"authenticated"}),
     LifecycleTrouble(0, 1, 0, 0, 1, {"authenticated"}),
     LifecycleTrouble(0, 1, 1, 0, 0, {"authenticated"}),
     LifecycleTrouble(0, 0, 0, 1, 0, {"mismatch", "locked"}),
     LifecycleTrouble(0, 1, 0, 1, 0, {"unauthenticated", "authorizing"}),
     LifecycleTrouble(1, 0, 0, 1, 0, {"authenticated", "unauthenticated"})}

\* Days that are typed in: all in view and one beyond on each side, and a day
\* after them.
Ahead == {<<-1, 2>>, <<2, 2>>}
Shifts == {-1, 1}
\* Within the stage, and beyond it.
Pulls == {-40, 400}
=============================================================================
