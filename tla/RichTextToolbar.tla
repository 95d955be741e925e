-------------------------- MODULE RichTextToolbar --------------------------
(***************************************************************************)
(* The toolbar of the rich text editor, ui's rich-text.jsx: menus opened   *)
(* by hovering, closed 160 ms after the pointer has left, and the range    *)
(* of the text saved when a menu is opened, since the menu may take the    *)
(* selection away.  Formatting applies to the saved range if there is one, *)
(* to the selection if not.                                                *)
(***************************************************************************)
EXTENDS Naturals

CONSTANTS
    Dropdowns, \* the paragraph, size and colour menus
    Places,    \* places in the text that can be selected
    MaxMoves   \* bound: movements of pointer and selection

None == "none"
More == "more"
Menus == Dropdowns \cup {More}
Away == <<"away", None>>
Spots == ({"trigger", "menu"} \X Menus) \cup {Away}

VARIABLES
    open,     \* the open menus
    timer,    \* pending closings: "none", or whether the menu was open in the
              \* render whose handler set the timer
    pointer,
    range,    \* toolbarRangeRef
    bySection,\* the range was saved for a link to a section
    sections, \* the list of sections is shown
    sel,      \* the selection
    astray,   \* history: something was formatted that was not selected
    moves

toolbarVars == <<open, timer, pointer, range, bySection, sections, sel, astray,
                 moves>>

TypeOK ==
    /\ open \subseteq Menus
    /\ timer \in [Menus -> {"none", "open", "shut"}]
    /\ pointer \in Spots
    /\ range \in Places \cup {None} /\ sel \in Places
    /\ {bySection, sections, astray} \subseteq BOOLEAN

Init ==
    /\ open = {} /\ timer = [m \in Menus |-> "none"] /\ pointer = Away
    /\ range = None /\ moves = 0
    /\ bySection = FALSE /\ sections = FALSE /\ astray = FALSE
    /\ sel = CHOOSE p \in Places : TRUE

Moves == moves < MaxMoves /\ moves' = moves + 1

-----------------------------------------------------------------------------

\* A mistake a property below refuses: closing a menu keeps the range.
ShutKeepingRange(closed) ==
    /\ open' = open \ closed
    /\ pointer' = IF pointer \in {"menu"} \X closed THEN Away ELSE pointer
    /\ UNCHANGED <<range, bySection>>

\* closeDropdown() and closeMoreMenu(): the saved range goes too.  A closed
\* menu is gone from under the pointer without its leave event.
Shut(closed) ==
    /\ open' = open \ closed
    /\ pointer' = IF pointer \in {"menu"} \X closed THEN Away ELSE pointer
    /\ range' = None /\ bySection' = FALSE

\* Where the pointer leaves for its own menu or trigger nothing is scheduled;
\* a dropdown does not know its menu, its ref is never set.
Schedules(from, to) ==
    /\ from # Away
    /\ ~(from[2] = to[2] /\ from[1] = "menu" /\ to[1] = "trigger")
    /\ ~(from[2] = More /\ to = <<"menu", More>>)

TimersAfter(to) ==
    [m \in Menus |->
        IF to # Away /\ to[2] = m THEN "none"
        ELSE IF Schedules(pointer, to) /\ pointer[2] = m
        THEN IF m \in open \/ m = More THEN "open" ELSE "shut"
        ELSE timer[m]]

\* A mistake a property below refuses: what was open stays open.
OpensToo(m) == open \cup {m}

\* openDropdown() with openToolbarDropdown(), and openMoreMenu(): the other
\* menus are closed, then the range is saved.
OpenAfter(m) == {m}

Opens(m) ==
    /\ open' = OpenAfter(m)
    /\ range' = sel /\ bySection' = FALSE

MovePointer(to) ==
    /\ Moves /\ to # pointer
    /\ to[1] = "menu" => to[2] \in open
    /\ timer' = TimersAfter(to)
    /\ pointer' = to
    /\ IF to[1] = "trigger" THEN Opens(to[2])
       ELSE UNCHANGED <<open, range, bySection>>
    /\ UNCHANGED <<sections, sel, astray>>

\* A trigger is pressed by keyboard.
Press(m) ==
    /\ Moves
    /\ timer' = [timer EXCEPT ![m] = "none"]
    /\ Opens(m)
    /\ pointer' = IF pointer[1] = "menu" /\ pointer[2] # m THEN Away ELSE pointer
    /\ UNCHANGED <<sections, sel, astray>>

\* The timer runs the close function of the render it was set in.
TimerFires(m) ==
    /\ timer[m] # "none"
    /\ timer' = [timer EXCEPT ![m] = "none"]
    /\ IF timer[m] = "open" THEN Shut({m})
       ELSE UNCHANGED <<open, pointer, range, bySection>>
    /\ UNCHANGED <<sections, sel, astray, moves>>

\* The escape key, a press outside, scrolling and resizing close the menu with
\* the further formats; the dropdowns never get their listeners.
Dismiss ==
    /\ More \in open
    /\ Shut({More})
    /\ UNCHANGED <<timer, sections, sel, astray, moves>>

\* restoreToolbarRange() and the command.
Target == IF range # None THEN range ELSE sel

\* An option of a menu: the menu is closed with it.
PickOption(m) ==
    /\ m \in open /\ sel' = Target
    /\ Shut({m, More})
    /\ UNCHANGED <<timer, sections, astray, moves>>

\* The colour input keeps its menu open, and forgets the range all the same.
PickCustomColor ==
    /\ "color" \in open /\ sel' = Target
    /\ Shut({More})
    /\ UNCHANGED <<timer, sections, astray, moves>>

\* The buttons of the toolbar: execute(), align(), clearFormat().
Execute ==
    /\ sel' = Target
    /\ astray' = (astray \/ (open = {} /\ Target # sel))
    /\ UNCHANGED <<open, timer, pointer, range, bySection, sections, moves>>

\* A section is chosen from a list; the range is not given up.
openSectionLinks ==
    /\ Moves /\ range' = sel /\ bySection' = TRUE /\ sections' = TRUE
    /\ UNCHANGED <<open, timer, pointer, sel, astray>>

ChooseSection ==
    /\ sections /\ sections' = FALSE
    /\ sel' = Target
    /\ UNCHANGED <<open, timer, pointer, range, bySection, astray, moves>>

Select(p) ==
    /\ Moves /\ p # sel /\ sel' = p
    /\ UNCHANGED <<open, timer, pointer, range, bySection, sections, astray>>

Next ==
    \/ Dismiss \/ PickCustomColor \/ Execute \/ openSectionLinks
    \/ ChooseSection
    \/ \E to \in Spots : MovePointer(to)
    \/ \E m \in Menus : Press(m) \/ TimerFires(m) \/ PickOption(m)
    \/ \E p \in Places : Select(p)

Spec == Init /\ [][Next]_toolbarVars

-----------------------------------------------------------------------------

\* One menu is open at a time, and the range it saved does not outlive it,
\* whichever timers of other menus are still pending; only a range saved for a
\* link to a section stays.
RangeOfOpenMenu ==
    /\ \A m, n \in open : m = n
    /\ range # None => open # {} \/ bySection

\* With no menu open, formatting applies to what is selected.
FormatsSelection == ~astray

=============================================================================
