------------------------- MODULE AttachmentPreview -------------------------
(***************************************************************************)
(* The preview dialog (frontend/packages/ui/src/attachment-preview.jsx):   *)
(* which file it shows, where the bytes of that file come from, and how an *)
(* image is scaled, turned and moved in it.                                *)
(*                                                                         *)
(* A source is resolved to an object URL, or a document is mounted by a    *)
(* viewer, while the user may already be looking at another file.  URLs    *)
(* and controllers have numbers.                                           *)
(*                                                                         *)
(* Scales are in hundredths, to which normalizeScale rounds them; sizes    *)
(* are in pixels, and positions in half hundredths of one, so that all     *)
(* bounds are whole numbers.                                               *)
(***************************************************************************)
EXTENDS Integers, FiniteSets

CONSTANTS
    Files,       \* file -> [kind, w, h]: "image" or "document"; natural size
    Viewports,   \* the sizes [w, h] the stage can have
    Drags,       \* how many pixels a pointer moves in one event
    Budgets      \* bounds: [shows, moves] left to the user

VARIABLES
    file,        \* the file shown, or "none" when the dialog is closed
    asks,        \* resolveSource calls under way: [file, id]
    url,         \* resolvedSourceUrlRef: [file, id], or NoUrl
    live,        \* object URLs that were not revoked
    mounts,      \* documentViewer calls under way: [file, id]
    controller,  \* documentControllerRef
    alive,       \* controllers that were not destroyed
    made,        \* calls made so far
    view,        \* viewerRef
    size,        \* the size the image is given, or NoSize
    stage,       \* the size of the stage
    left

previewVars == <<file, asks, url, live, mounts, controller, alive, made, view,
                 size, stage, left>>
sourceVars == <<asks, url, live, mounts, controller, alive, made>>

Unit == 100   \* the scale 1
NoUrl == [file |-> "none", id |-> 0]
NoSize == [w |-> 0, h |-> 0]
NoDrag == [x |-> 0, y |-> 0, on |-> FALSE]
Least(a, b) == IF a < b THEN a ELSE b
Most(a, b) == IF a > b THEN a ELSE b
clampNumber(v, low, high) == Least(high, Most(low, v))
\* Math.round(a / b)
Rounded(a, b) == (2 * a + b) \div (2 * b)
Near(a, b, t) == -t < a - b /\ a - b < t

\* createAttachmentPreviewState
Blank(kind) ==
    [kind |-> kind, state |-> "idle", scale |-> Unit, fitWidth |-> Unit,
     max |-> 4 * Unit, turned |-> FALSE, x |-> 0, y |-> 0,
     mode |-> "fit-screen", drag |-> NoDrag]

KindOf(f) == IF f = "none" THEN "none" ELSE Files[f].kind

TypeOK ==
    /\ file \in DOMAIN Files \cup {"none"}
    /\ asks \subseteq [file : DOMAIN Files, id : Nat]
    /\ mounts \subseteq [file : DOMAIN Files, id : Nat]
    /\ view.mode \in {"fit-screen", "fit-width", "manual"}
    /\ view.state \in {"idle", "ready", "error"}
    /\ stage \in Viewports

PreviewInit ==
    /\ file = "none"
    /\ asks = {} /\ url = NoUrl /\ live = {}
    /\ mounts = {} /\ controller = NoUrl /\ alive = {}
    /\ made = 0
    /\ view = Blank("none") /\ size = NoSize
    /\ stage \in Viewports
    /\ left \in Budgets

Spends(what) == left[what] > 0 /\ left' = [left EXCEPT ![what] = @ - 1]

-----------------------------------------------------------------------------
\* The effects that follow the file.  Their cleanup revokes and destroys what
\* the last file had; what is still under way finds itself cancelled.

Cleaned == live \ {url}

Show(f) ==
    /\ f # file /\ Spends("shows")
    /\ file' = f
    /\ url' = NoUrl /\ live' = Cleaned
    /\ controller' = NoUrl /\ alive' = alive \ {controller}
    /\ LET call == [file |-> f, id |-> made + 1] IN
       /\ asks' = asks \cup (IF KindOf(f) = "image" THEN {call} ELSE {})
       /\ mounts' = mounts \cup (IF KindOf(f) = "document" THEN {call} ELSE {})
       /\ made' = IF f = "none" THEN made ELSE made + 1
    /\ view' = Blank(IF KindOf(f) = "image" THEN "image" ELSE "none")
    /\ size' = NoSize
    /\ UNCHANGED stage

\* The call an effect that was not cleaned up made.
Latest(call) == file # "none" /\ call.id = made

\* resolveSource answers.
Resolved(call) ==
    /\ call \in asks
    /\ asks' = asks \ {call}
    /\ \/ IF Latest(call)
          THEN url' = call /\ live' = live \cup {call}
          ELSE UNCHANGED <<url, live>>   \* revoked at once
       \/ UNCHANGED <<url, live>>        \* an error
    /\ UNCHANGED <<file, mounts, controller, alive, made, view, size, stage, left>>

\* mutant: the request number is looked at for errors only
MountedAnyway(call) ==
    /\ call \in mounts
    /\ mounts' = mounts \ {call}
    /\ \/ controller' = call /\ alive' = alive \cup {call}
       \/ UNCHANGED <<controller, alive>>
    /\ UNCHANGED <<file, asks, url, live, made, view, size, stage, left>>

\* documentViewer answers.
Mounted(call) ==
    /\ call \in mounts
    /\ mounts' = mounts \ {call}
    /\ \/ IF Latest(call)
          THEN controller' = call /\ alive' = alive \cup {call}
          ELSE UNCHANGED <<controller, alive>>   \* destroyed at once
       \/ UNCHANGED <<controller, alive>>        \* an error
    /\ UNCHANGED <<file, asks, url, live, made, view, size, stage, left>>

-----------------------------------------------------------------------------
\* An image in its stage.

\* fitScreenDimensions
FitScreen(f, s) ==
    LET n == Files[f] IN
    IF s.w * n.h <= s.h * n.w
    THEN LET w == Least(s.w, n.w) IN [w |-> w, h |-> Most(1, Rounded(n.h * w, n.w))]
    ELSE LET h == Least(s.h, n.h) IN [w |-> Most(1, Rounded(n.w * h, n.h)), h |-> h]

\* preferredFitWidthScale, for an image that is clearly higher than wide: 98 in
\* a hundred parts of the stage's width.
FitWidth(f, s, fit) ==
    IF 20 * Files[f].h < 23 * Files[f].w THEN Unit
    ELSE clampNumber(Rounded(98 * s.w, fit.w), Unit, 4 * Unit)

hasFitWidthMode(v) == v.kind = "image" /\ v.fitWidth > Unit + 5

\* The code compares doubles: that two scales are less than 0.08 apart may also
\* come out true of two that are just that far apart.
Tolerances == {8, 9}

resolveViewMode(v, tolerance) ==
    IF Near(v.scale, Unit, 4) THEN "fit-screen"
    ELSE IF hasFitWidthMode(v) /\ Near(v.scale, v.fitWidth, tolerance) THEN "fit-width"
    ELSE "manual"

\* renderedBounds: how far the image reaches beyond the stage
Bounds(v, fit, s) ==
    LET w == IF v.turned THEN fit.h ELSE fit.w
        h == IF v.turned THEN fit.w ELSE fit.h
    IN  [x |-> Most(0, w * v.scale - s.w * Unit),
         y |-> Most(0, h * v.scale - s.h * Unit)]

canPan(v) ==
    LET b == Bounds(v, size, stage)
    IN  v.kind = "image" /\ (v.turned \/ b.x > Unit \/ b.y > Unit)

\* mutant: the position is left as it is
Untouched(v, fit, s) == v

\* applyImageViewerTransform
Applied(v, fit, s) ==
    LET b == Bounds(v, fit, s)
    IN  [v EXCEPT !.x = clampNumber(@, -b.x, b.x), !.y = clampNumber(@, -b.y, b.y)]

Still(v) == [v EXCEPT !.drag = NoDrag]
Centred(v) == [v EXCEPT !.x = 0, !.y = 0]
Preset(v, mode) ==
    Centred([v EXCEPT !.mode = mode,
                      !.scale = IF mode = "fit-width" THEN v.fitWidth ELSE Unit])

\* syncImageViewerLayout: the image is given its size, and keeps its mode if
\* that still exists.
Laid(v, fit, s, reset, tolerance) ==
    LET fw == FitWidth(file, s, fit)
        n == [v EXCEPT !.fitWidth = fw,
                       !.max = clampNumber(fw + 2 * Unit, 4 * Unit, 6 * Unit)]
    IN  IF reset \/ v.mode = "fit-screen" THEN Preset(n, "fit-screen")
        ELSE IF v.mode = "fit-width" /\ hasFitWidthMode(n) THEN Preset(n, "fit-width")
        ELSE LET c == [n EXCEPT !.scale = clampNumber(@, Unit, n.max)]
             IN  [c EXCEPT !.mode = resolveViewMode(c, tolerance)]

Sync(v, s, reset) ==
    LET fit == FitScreen(file, s) IN
    /\ size' = fit
    /\ \E tolerance \in Tolerances :
          view' = Applied(Laid(v, fit, s, reset, tolerance), fit, s)

\* The image element has its pixels, or failed.
ImageLoads ==
    /\ view.kind = "image" /\ url # NoUrl /\ view.state = "idle"
    /\ \/ Sync([view EXCEPT !.state = "ready"], stage, TRUE)
       \/ view' = [view EXCEPT !.state = "error"] /\ UNCHANGED size
    /\ UNCHANGED <<file, sourceVars, stage, left>>

\* The window is resized; at scale 1 everything starts afresh.
Resize(s) ==
    /\ s # stage /\ file # "none" /\ Spends("moves")
    /\ stage' = s
    /\ IF view.state = "ready" THEN Sync(view, s, view.scale = Unit)
       ELSE UNCHANGED <<view, size>>
    /\ UNCHANGED <<file, sourceVars>>

\* imageControls: there is an image, which may not have its pixels yet.
Touches(v) ==
    /\ view.kind = "image" /\ url # NoUrl /\ view.state # "error" /\ Spends("moves")
    /\ view' = Applied(v, size, stage)
    /\ UNCHANGED <<file, sourceVars, size, stage>>

\* setImageViewerScale
Rescaled(scale, tolerance) ==
    LET v == [view EXCEPT !.scale = clampNumber(scale, Unit, view.max)]
    IN  [v EXCEPT !.mode = resolveViewMode(v, tolerance)]
Rescale(scale) ==
    \E tolerance \in Tolerances : Touches(Rescaled(scale, tolerance))

Wheel(up) == Rescale(view.scale + (IF up THEN 18 ELSE -18))

\* The zoom buttons, which are disabled at the ends.
ZoomOut == view.scale > Unit + 1 /\ Rescale(view.scale - 25)
ZoomIn == view.scale < view.max - 1 /\ Rescale(view.scale + 25)

\* The button between the two presets.
TogglePreset ==
    /\ hasFitWidthMode(view)
    /\ Touches(Still(Preset(view, IF view.mode = "fit-screen" THEN "fit-width"
                                  ELSE "fit-screen")))

\* resetImageViewerTransform
ResetView ==
    Touches(Still([Preset(view, "fit-screen") EXCEPT !.turned = FALSE]))

DoubleClick ==
    IF hasFitWidthMode(view) THEN TogglePreset
    ELSE IF Near(view.scale, Unit, 8) THEN Rescale(Unit + 90)
    ELSE ResetView

Rotate == Touches(Still([view EXCEPT !.turned = ~@]))

\* A pointer goes down, moves by d and goes up.  The drag remembers the
\* position it began at less the pointer's.
PointerDown ==
    /\ canPan(view) /\ ~view.drag.on
    /\ Touches([view EXCEPT !.drag = [x |-> view.x, y |-> view.y, on |-> TRUE]])

PointerMove(dx, dy) ==
    /\ view.drag.on
    /\ Touches([view EXCEPT !.x = view.drag.x + 2 * Unit * dx,
                            !.y = view.drag.y + 2 * Unit * dy])

PointerUp ==
    /\ view.drag.on
    /\ Touches(Still(view))

-----------------------------------------------------------------------------
PreviewNext ==
    \/ \E f \in DOMAIN Files \cup {"none"} : Show(f)
    \/ \E call \in asks : Resolved(call)
    \/ \E call \in mounts : Mounted(call)
    \/ ImageLoads
    \/ \E s \in Viewports : Resize(s)
    \/ \E up \in BOOLEAN : Wheel(up)
    \/ ZoomOut \/ ZoomIn
    \/ TogglePreset \/ ResetView \/ DoubleClick \/ Rotate
    \/ PointerDown \/ PointerUp
    \/ \E dx, dy \in Drags : PointerMove(dx, dy)

PreviewSpec == PreviewInit /\ [][PreviewNext]_previewVars

-----------------------------------------------------------------------------
\* What the dialog holds is what it shows: an object URL or a controller that
\* exists belongs to the file on the screen, however late the answers come,
\* and nothing of the files before it is left behind.
PreviewOwned ==
    /\ live = {url} \ {NoUrl}
    /\ alive = {controller} \ {NoUrl}
    /\ \A held \in live \cup alive : held.file = file

\* An image never leaves its stage: whatever is zoomed, turned, dragged and
\* resized, and in whatever order, it is not moved beyond its own edge, its
\* scale stays within its limits, and the mode the toolbar names is the one it
\* is in: less than 0.04 from the scale that fits the screen, or at most 0.08
\* from one that fits the width and is clearly another.
Framed ==
    LET b == Bounds(view, size, stage) IN
    view.state = "ready" =>
        /\ -b.x <= view.x /\ view.x <= b.x
        /\ -b.y <= view.y /\ view.y <= b.y
        /\ Unit <= view.scale /\ view.scale <= view.max
        /\ view.mode = "fit-screen" => Near(view.scale, Unit, 4)
        /\ view.mode = "fit-width" =>
              Near(view.scale, view.fitWidth, 9) /\ hasFitWidthMode(view)
=============================================================================
