-------------------------- MODULE RichTextContent --------------------------
(***************************************************************************)
(* Rich text as it is shown, ui's rich-text.jsx: the pictures and films of *)
(* a text are resolved to sources that have to be released, while the text *)
(* may be replaced at any time; and the width of the table of contents,    *)
(* dragged, stepped and remembered.                                        *)
(***************************************************************************)
EXTENDS Naturals, FiniteSets

CONSTANTS
    Media,           \* pictures and films of a text
    Texts,           \* bound: how often the text is replaced, 0 .. n
    Widths,          \* widths a pointer can ask for
    MinWidth, MaxWidth, DefaultWidth,
    Pointers,
    MaxDrags         \* bound

None == "none"

VARIABLES
    text,     \* which text is shown
    source,   \* the sources of every text's media: "asked", "open",
              \* "released", "failed" or "none"
    width,    \* the width shown
    stored,   \* the width in the local storage, 0 if there is none
    drag,     \* tableOfContentsResizeRef: the pointer that drags
    drags

contentVars == <<text, source, width, stored, drag, drags>>

TypeOK ==
    /\ text \in Texts
    /\ source \in [Texts \X Media ->
                     {"none", "asked", "open", "released", "failed"}]
    /\ width \in MinWidth .. MaxWidth
    /\ stored \in {0} \cup MinWidth .. MaxWidth
    /\ drag \in Pointers \cup {None}

Shown(s, t) == [k \in DOMAIN s |-> IF k[1] = t THEN "asked" ELSE s[k]]

\* readRichTextTableOfContentsWidth()
Remembered(w) == IF w = 0 THEN DefaultWidth ELSE w

Init ==
    /\ text = 0
    /\ source = Shown([k \in Texts \X Media |-> "none"], 0)
    /\ stored \in {0, MaxWidth} /\ width = Remembered(stored)
    /\ drag = None /\ drags = 0

-----------------------------------------------------------------------------

\* A mistake a property below refuses: a late source is not given back.
KeptWhenLate(k) == "open"

\* A source that comes after its text has gone is released at once.
Resolved(k) == IF k[1] = text THEN "open" ELSE "released"

Resolve(k) ==
    /\ source[k] = "asked"
    /\ \/ source' = [source EXCEPT ![k] = Resolved(k)]
       \/ source' = [source EXCEPT ![k] = "failed"]
    /\ UNCHANGED <<text, width, stored, drag, drags>>

\* Another text: the effect's cleanup releases the sources of the last one.
ReplaceText ==
    /\ text + 1 \in Texts /\ text' = text + 1
    /\ source' = Shown([k \in DOMAIN source |->
         IF source[k] = "open" THEN "released" ELSE source[k]], text + 1)
    /\ UNCHANGED <<width, stored, drag, drags>>

-----------------------------------------------------------------------------

\* A mistake a property below refuses: the width is stored as asked for.
Unclamped(w) == w

clampRichTextTableOfContentsWidth(w) ==
    IF w < MinWidth THEN MinWidth ELSE IF w > MaxWidth THEN MaxWidth ELSE w

\* Another pointer may take over a drag.
PointerDown(p) ==
    /\ drags < MaxDrags /\ drags' = drags + 1
    /\ drag' = p
    /\ UNCHANGED <<text, source, width, stored>>

PointerMove(p) ==
    /\ drag = p
    /\ \E w \in Widths : width' = clampRichTextTableOfContentsWidth(w)
    /\ UNCHANGED <<text, source, stored, drag, drags>>

\* The pointer is lifted, cancelled or loses its capture.
PointerEnd(p) ==
    /\ drag = p
    /\ drag' = None /\ stored' = width
    /\ UNCHANGED <<text, source, width, drags>>

KeyDown ==
    /\ drags < MaxDrags /\ drags' = drags + 1
    /\ \E w \in {width - 1, width + 1, MinWidth, MaxWidth} :
         /\ width' = clampRichTextTableOfContentsWidth(w)
         /\ stored' = width'
    /\ UNCHANGED <<text, source, drag>>

Next ==
    \/ ReplaceText \/ KeyDown
    \/ \E k \in DOMAIN source : Resolve(k)
    \/ \E p \in Pointers : PointerDown(p) \/ PointerMove(p) \/ PointerEnd(p)

Spec == Init /\ [][Next]_contentVars

-----------------------------------------------------------------------------

\* Sources are open only for the text that is shown, whenever their answers
\* come; and a width is in its limits and, once no pointer drags it, the one
\* that will be found in the storage next time.
SourcesOfShownText ==
    /\ \A k \in DOMAIN source : source[k] = "open" => k[1] = text
    /\ width \in MinWidth .. MaxWidth
    /\ drag = None => width = Remembered(stored)

=============================================================================
