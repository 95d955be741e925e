--------------------------- MODULE RichTextEditor ---------------------------
(***************************************************************************)
(* The rich text editor, ui's rich-text.jsx: files pasted into the text    *)
(* are uploaded by the application while the user goes on editing.  A      *)
(* pending node stands for the file in the document, an entry of           *)
(* pendingUploadsRef for the upload.  The document without its pending     *)
(* nodes is published to the application, which holds it as `value'.       *)
(*                                                                         *)
(* The text is known by its version, an attachment by its upload.  The     *)
(* application is its flag of mutations: onPasteFile() takes it, and       *)
(* answers `defer' while another mutation has it.                          *)
(***************************************************************************)
EXTENDS Naturals, Sequences, FiniteSets, SequencesExt

CONSTANTS
    Batches,   \* the pastes, in this order: sequences of the clipboard's
               \* files, each [id, look, bytes]; id names the upload
    MaxDefers, \* 1500 in the code
    MaxTexts,  \* bound: versions of the text
    MaxRetries,\* bound: clicks on the retry button
    MaxPosts   \* bound: comments posted

Nobody == "nobody"
Post == "post"
Uploads == {f.id : f \in UNION {Range(b) : b \in Range(Batches)}}

VARIABLES
    mounted,
    doc,     \* the document: [text, atts, pend]
    value,   \* the application's copy: [text, atts]
    reading, \* the pastes whose files are being read, oldest first: [files,
             \* over, in, out, nth], over and in being the text and the nodes
             \* that were selected, out the nodes that were not
    up,      \* the entries: [entry, ui, defers, url, calls, timers]
    flag,    \* who holds the application's flag
    fate,    \* history: how the document lost or never had an upload's
             \* attachment: "removed", "deleted", "converted", "unmounted"
    behind,  \* history: value was set by the application over pending nodes
    unsaid,  \* history: what pastes have deleted since the last publish()
    used     \* bounds: pastes, texts, retries, posts

editorVars == <<mounted, doc, value, reading, up, flag, fate, behind, unsaid, used>>

NoUpload == [entry |-> FALSE, ui |-> "uploading", defers |-> 0, url |-> FALSE,
             calls |-> 0, timers |-> 0]
Nodes(d) == d.atts \cup d.pend
Content(d) == [text |-> d.text, atts |-> d.atts]
NoText == [text |-> 0, atts |-> {}]
AllSaid == [text |-> FALSE, atts |-> {}]

TypeOK ==
    /\ mounted \in BOOLEAN /\ behind \in BOOLEAN
    /\ doc \in [text : Nat, atts : SUBSET Uploads, pend : SUBSET Uploads]
    /\ value \in [text : Nat, atts : SUBSET Uploads]
    /\ \A u \in Uploads :
         up[u] \in [entry : BOOLEAN, ui : {"uploading", "error"},
                    defers : 0 .. MaxDefers, url : BOOLEAN, calls : Nat,
                    timers : Nat]
    /\ flag \in Uploads \cup {Nobody, Post}
    /\ fate \in [Uploads -> {"none", "shown", "removed", "deleted",
                             "converted", "unmounted"}]
    /\ unsaid \in [text : BOOLEAN, atts : SUBSET Uploads]
    /\ reading \in Seq([files : UNION {[I -> Uploads] : I \in SUBSET Nat}, over : BOOLEAN,
                        in : SUBSET Uploads, out : SUBSET Uploads, nth : Nat])

Init ==
    /\ mounted = TRUE /\ behind = FALSE
    /\ doc = [text |-> 0, atts |-> {}, pend |-> {}]
    /\ value = Content(doc)
    /\ reading = <<>> /\ flag = Nobody /\ unsaid = AllSaid
    /\ up = [u \in Uploads |-> NoUpload]
    /\ fate = [u \in Uploads |-> "none"]
    /\ used = [pastes |-> 0, texts |-> 0, retries |-> 0, posts |-> 0]

-----------------------------------------------------------------------------
\* The document and its published value.

\* A mistake a property below refuses: pending nodes are rebuilt away.
RebuiltAlways(d, v) == [text |-> v.text, atts |-> v.atts, pend |-> {}]

\* The effect on `value': nothing is rebuilt around pending nodes.
Rebuilt(d, v) ==
    IF d.pend # {} THEN d
    ELSE [text |-> v.text, atts |-> v.atts, pend |-> {}]

\* A mistake a property below refuses: nothing is told to the application.
KeepsQuiet(d) == doc' = d /\ UNCHANGED <<value, behind, unsaid>>

\* publish(): the document without its pending nodes.
Publish(d) ==
    /\ doc' = d /\ value' = Content(d)
    /\ behind' = FALSE /\ unsaid' = AllSaid

\* What was selected is gone from a document that is built anew.
Collapsed(R) == [i \in DOMAIN R |-> [R[i] EXCEPT !.over = FALSE, !.in = {}, !.out = {}]]

\* The application sets the value itself; the effect runs if that is another.
SetValue(v) ==
    LET d == Rebuilt(doc, v) IN
    IF v = value THEN UNCHANGED <<doc, value, reading, behind, unsaid>>
    ELSE /\ value' = v /\ doc' = d /\ unsaid' = AllSaid
         /\ reading' = IF d = doc THEN reading ELSE Collapsed(reading)
         /\ behind' = (behind \/ Content(d) # v)

-----------------------------------------------------------------------------
\* Uploads.

\* A mistake a property below refuses: a deferred upload is not tried again.
GivesUpSilently(x) == [x EXCEPT !.defers = @ + 1]

\* The application asks for patience.
Deferred(x) ==
    IF x.defers >= MaxDefers THEN [x EXCEPT !.ui = "error"]
    ELSE [x EXCEPT !.defers = @ + 1, !.timers = @ + 1]

\* uploadPastedFile() up to its await, for the files of a paste in their order:
\* the first one that has an entry takes the application's flag if that is
\* free, and the others are deferred.
Asked(S, U, f) ==
    LET asking == {i \in DOMAIN S : U[S[i]].entry}
        takes == {S[i] : i \in {j \in asking : f = Nobody /\ \A k \in asking : j <= k}}
        Ask(u) == LET x == [U[u] EXCEPT !.ui = "uploading"] IN
                  IF u \in takes THEN [x EXCEPT !.calls = @ + 1] ELSE Deferred(x)
    IN  [up |-> [u \in Uploads |-> IF u \in {S[i] : i \in asking} THEN Ask(u) ELSE U[u]],
         flag |-> IF takes = {} THEN f ELSE CHOOSE u \in takes : TRUE]

AskNow(S, U) ==
    LET r == Asked(S, U, flag) IN up' = r.up /\ flag' = r.flag

\* pastedFiles() keeps one file of those that look alike, and
\* uniquePastedFilesByContent() one of those with the same bytes: the first.
\* The files keep the numbers they have in the clipboard.
FirstBy(b, Key(_)) ==
    Restrict(b, {i \in DOMAIN b : \A j \in DOMAIN b : j < i => Key(b[j]) # Key(b[i])})
pastedFiles(b) == FirstBy(b, LAMBDA f : f.look)
uniquePastedFilesByContent(b) == FirstBy(b, LAMBDA f : f.bytes)

\* The range that is selected goes with the paste (currentInsertionRange).
Paste ==
    /\ mounted /\ used.pastes < Len(Batches)
    /\ LET files == uniquePastedFilesByContent(pastedFiles(Batches[used.pastes + 1]))
       IN  \E over \in IF doc.text = 0 THEN {FALSE} ELSE BOOLEAN, in \in SUBSET Nodes(doc) :
             reading' = Append(reading,
               [files |-> [i \in DOMAIN files |-> files[i].id], over |-> over, in |-> in,
                out |-> Nodes(doc) \ in, nth |-> used.pastes + 1])
    /\ used' = [used EXCEPT !.pastes = @ + 1]
    /\ UNCHANGED <<mounted, doc, value, up, flag, fate, behind, unsaid>>

\* What range.deleteContents() takes away: the nodes that were selected, and
\* such as have been put between them since; and the text, unless it was
\* typed over.  A text that was cut is a version of its own.
Deletes(r) ==
    IF r.over \/ r.in # {}
    THEN {S \in SUBSET (Nodes(doc) \ r.out) : r.in \cap Nodes(doc) \subseteq S}
    ELSE {{}}
Cuts(r) == {doc.text} \cup IF r.over THEN {MaxTexts + r.nth} ELSE {}

\* The files are read: what was selected is deleted, and there is one pending
\* node and one upload for each file, if the editor is still there.  Nothing
\* is published.
startPasteUpload ==
    /\ \E i \in DOMAIN reading :
         /\ reading' = RemoveAt(reading, i)
         /\ LET r == reading[i] IN
            IF mounted
            THEN /\ \E gone \in Deletes(r), text \in Cuts(r) :
                      /\ doc' = [text |-> text, atts |-> doc.atts \ gone,
                                 pend |-> (doc.pend \ gone) \cup Range(r.files)]
                      /\ unsaid' = [text |-> unsaid.text \/ text # doc.text,
                                    atts |-> unsaid.atts \cup (doc.atts \cap gone)]
                      /\ fate' = [u \in Uploads |-> IF u \in gone THEN "deleted" ELSE fate[u]]
                 /\ AskNow(r.files, [u \in Uploads |-> IF u \in Range(r.files)
                      THEN [NoUpload EXCEPT !.entry = TRUE, !.url = TRUE]
                      ELSE up[u]])
            ELSE UNCHANGED <<doc, up, flag, fate, unsaid>>
    /\ UNCHANGED <<mounted, value, behind, used>>

\* A mistake a property below refuses: the preview's URL is kept.
CleanedExceptUrl(x) == [x EXCEPT !.entry = FALSE]

\* cleanupPendingUploadEntry(): the entry goes, and the preview's URL with it.
CleanedUp(x) ==
    [NoUpload EXCEPT !.calls = x.calls, !.timers = x.timers]

\* The application's answer.  An attachment takes the place of the pending
\* node if that is still in the document.
Uploaded(u) ==
    LET x == [up[u] EXCEPT !.calls = @ - 1] IN
    /\ up[u].calls > 0
    /\ flag' = IF flag = u THEN Nobody ELSE flag
    /\ IF x.entry
       THEN /\ up' = [up EXCEPT ![u] = CleanedUp(x)]
            /\ Publish([doc EXCEPT !.pend = @ \ {u},
                   !.atts = IF u \in doc.pend THEN @ \cup {u} ELSE @])
            /\ fate' = IF u \in doc.pend THEN [fate EXCEPT ![u] = "shown"]
                       ELSE fate
       ELSE up' = [up EXCEPT ![u] = x] /\ UNCHANGED <<doc, value, fate, behind, unsaid>>
    /\ UNCHANGED <<mounted, reading, used>>

NotUploaded(u) ==
    /\ up[u].calls > 0
    /\ flag' = IF flag = u THEN Nobody ELSE flag
    /\ up' = [up EXCEPT ![u].calls = @ - 1,
                        ![u].ui = IF up[u].entry THEN "error" ELSE @]
    /\ UNCHANGED <<mounted, doc, value, reading, fate, behind, unsaid, used>>

\* 200 ms after a deferral.
TimerFires(u) ==
    /\ up[u].timers > 0
    /\ AskNow(<<u>>, [up EXCEPT ![u].timers = @ - 1])
    /\ UNCHANGED <<mounted, doc, value, reading, fate, behind, unsaid, used>>

\* A mistake a property below refuses: the retry button is always there.
RetryAlways(u) == u \in doc.pend

\* setPendingUploadState() hides the button unless the upload failed.
RetryVisible(u) == u \in doc.pend /\ up[u].ui = "error"

retryPendingUpload(u) ==
    /\ mounted /\ RetryVisible(u)
    /\ used.retries < MaxRetries /\ used' = [used EXCEPT !.retries = @ + 1]
    /\ AskNow(<<u>>, [up EXCEPT ![u].defers = 0])
    /\ UNCHANGED <<mounted, doc, value, reading, fate, behind, unsaid>>

\* The remove button.  Nothing is published: the node never was.
removePendingUpload(u) ==
    /\ mounted /\ u \in doc.pend /\ up[u].entry
    /\ doc' = [doc EXCEPT !.pend = @ \ {u}]
    /\ up' = [up EXCEPT ![u] = CleanedUp(@)]
    /\ fate' = [fate EXCEPT ![u] = "removed"]
    /\ UNCHANGED <<mounted, value, reading, flag, behind, unsaid, used>>

-----------------------------------------------------------------------------
\* Editing, and the application around the editor.

\* onInput: typing, and deleting a node, pending or not, with the keyboard.
Type ==
    /\ mounted /\ used.texts < MaxTexts
    /\ used' = [used EXCEPT !.texts = @ + 1]
    /\ Publish([doc EXCEPT !.text = used.texts + 1])
    /\ UNCHANGED <<mounted, reading, up, flag, fate>>

DeleteNode(u) ==
    /\ mounted /\ u \in doc.pend \cup doc.atts
    /\ Publish([doc EXCEPT !.pend = @ \ {u}, !.atts = @ \ {u}])
    /\ fate' = [fate EXCEPT ![u] = "deleted"]
    /\ UNCHANGED <<mounted, reading, up, flag, used>>

\* The whole document is replaced by what its text means as Markdown; that of
\* pending nodes is taken for text.
convertMarkdown ==
    /\ mounted /\ used.texts < MaxTexts
    /\ used' = [used EXCEPT !.texts = @ + 1]
    /\ Publish([text |-> used.texts + 1, atts |-> {}, pend |-> {}])
    /\ fate' = [u \in Uploads |-> IF u \in doc.pend \cup doc.atts
                                  THEN "converted" ELSE fate[u]]
    /\ reading' = Collapsed(reading)
    /\ UNCHANGED <<mounted, up, flag>>

\* The comment in `value' is posted, if there is one; once it is, the
\* application empties it.
submitWorkItemComment ==
    /\ mounted /\ flag = Nobody /\ value # NoText
    /\ used.posts < MaxPosts /\ used' = [used EXCEPT !.posts = @ + 1]
    /\ flag' = Post
    /\ UNCHANGED <<mounted, doc, value, reading, up, fate, behind, unsaid>>

Posted ==
    /\ flag = Post /\ flag' = Nobody
    /\ \/ /\ SetValue(NoText)
          /\ fate' = [u \in Uploads |->
               IF u \in value.atts THEN "removed" ELSE fate[u]]
       \/ UNCHANGED <<doc, value, reading, behind, unsaid, fate>>
    /\ UNCHANGED <<mounted, up, used>>

Unmount ==
    /\ mounted /\ mounted' = FALSE
    /\ up' = [u \in Uploads |-> IF up[u].entry THEN CleanedUp(up[u]) ELSE up[u]]
    /\ doc' = [doc EXCEPT !.pend = {}]
    /\ fate' = [u \in Uploads |-> IF fate[u] = "none" THEN "unmounted" ELSE fate[u]]
    /\ UNCHANGED <<value, reading, flag, behind, unsaid, used>>

\* What goes on without the user: reading, uploading, waiting, posting.
Proceed ==
    \/ startPasteUpload \/ Posted
    \/ \E u \in Uploads : Uploaded(u) \/ NotUploaded(u) \/ TimerFires(u)

Next ==
    \/ Proceed
    \/ Paste \/ Type \/ convertMarkdown \/ submitWorkItemComment \/ Unmount
    \/ \E u \in Uploads :
         retryPendingUpload(u) \/ removePendingUpload(u) \/ DeleteNode(u)

Spec == Init /\ [][Next]_editorVars /\ WF_editorVars(Proceed)

-----------------------------------------------------------------------------

\* A file is never uploaded twice at a time: an upload has one call or one
\* timer, whatever is deferred, retried, removed or pasted meanwhile.
OneRunPerUpload == \A u \in Uploads : up[u].calls + up[u].timers <= 1

\* The URL of a file's preview is open only while its upload has an entry.
UrlsOwned == \A u \in Uploads : up[u].url => mounted /\ up[u].entry

\* An attachment reaches the document and the published value, unless its node
\* was removed, deleted, pasted over or converted, or the editor unmounted.
\* The application's value is the document without its pending nodes, and what
\* pastes over a selection have deleted since the last publish(), of which
\* startPasteUpload() does not tell; but not when the application set it while
\* there were pending nodes.
UploadsLand ==
    /\ \A u \in Uploads :
         /\ fate[u] = "shown" => u \in doc.atts
         /\ up[u].entry /\ fate[u] = "none" => u \in doc.pend
    /\ mounted /\ ~behind =>
         /\ value.atts = doc.atts \cup unsaid.atts
         /\ value.text = doc.text \/ unsaid.text

\* What is sent is what the editor shows: the document without its pending
\* nodes is the application's value.
ShownIsValue == mounted => value = Content(doc)

\* Every upload ends or fails visibly, however often it is deferred: pastes
\* and retries are finitely many, so none is under way time and again.
UploadsSettle ==
    []<>(\A u \in Uploads : up[u].entry => up[u].ui # "uploading")

=============================================================================
