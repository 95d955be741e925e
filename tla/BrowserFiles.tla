---------------------------- MODULE BrowserFiles ----------------------------
(***************************************************************************)
(* Attachments in the browser (web/src/platform/browser/files.js,          *)
(* file-crypto.js and document-viewer.js, driven by uploadAttachment and   *)
(* downloadAttachment of app-core/work-item-collaboration.js): tabs that   *)
(* upload one attachment of a project resource, retry it, download it and  *)
(* preview it, and the server's row and stored object they work on.        *)
(*                                                                         *)
(* A file is a sequence of bytes, its digest the sequence itself: digests  *)
(* do not collide.  A sealed chunk is as long as its plaintext and a tag,  *)
(* and is opened only by the key, nonce and associated data it was sealed  *)
(* with (WebCrypto's AES-GCM).                                             *)
(***************************************************************************)
EXTENDS Integers, Sequences

CONSTANTS
    Tabs,        \* tabs of the same user, all on the page of the resource
    Contents,    \* what a chosen file can hold
    ChunkSize,   \* FILE_CHUNK_SIZE
    Sealings,    \* is the attachment encrypted: a subset of BOOLEAN
    Budgets      \* bounds: [tries, changes, faults, turns]

VARIABLES
    tab,         \* tab -> the upload it has under way
    row,         \* the attachment, as the server registered it
    object,      \* what the object store holds for it
    drawn,       \* how often nonces were drawn
    handed,      \* what downloads and previews gave the user
    overwritten, \* an upload landed on an object that was already verified
    left

browserVars == <<tab, row, object, drawn, handed, overwritten, left>>

Empty == <<>>
NoFile == [seen |-> Empty, now |-> Empty]
NoTransfer == [state |-> "none", sealed |-> FALSE, plaintext |-> Empty]
Idle == [at |-> "idle", file |-> NoFile, transfer |-> NoTransfer, sum |-> Empty]
NoRow == [status |-> "none", content |-> Empty, sealed |-> FALSE, sum |-> Empty]
Refused == <<"refused">>
Least(a, b) == IF a < b THEN a ELSE b
TagLength == 1
Key == "k"
FileObject == 1

TypeOK ==
    /\ \A t \in Tabs :
        /\ tab[t].at \in {"idle", "chosen", "registered", "signed", "reading",
                          "putting", "confirming", "marking"}
        /\ tab[t].transfer.state \in {"none", "usable", "expired"}
    /\ row.status \in {"none", "pending", "uploaded"}
    /\ drawn \in Nat /\ overwritten \in BOOLEAN

Init ==
    /\ tab = [t \in Tabs |-> Idle]
    /\ row = NoRow /\ object = Empty
    /\ drawn = 0 /\ handed = {} /\ overwritten = FALSE
    /\ left \in Budgets

Spends(what) == left[what] > 0 /\ left' = [left EXCEPT ![what] = @ - 1]

-----------------------------------------------------------------------------
\* The YUANCE-ENC-v1 format: a header, and the chunks one after the other.

CountOf(length) == (length + ChunkSize - 1) \div ChunkSize

\* mutant: no room for the tag of the last chunk
BodyWithoutLastTag(length, count) == length + (count - 1) * TagLength

encryptedBodyLength(length, count) ==
    IF count = 0 THEN 0
    ELSE (count - 1) * (ChunkSize + TagLength)
         + (length - (count - 1) * ChunkSize) + TagLength

chunkPlaintextLengthAt(size, length, index) ==
    IF index * size >= length THEN 0 ELSE Least(length - index * size, size)

chunkAad(index, separator) == <<FileObject, index, separator>>

Sealed(nonce, aad, chunk) ==
    [p \in 1 .. Len(chunk) + TagLength |->
        [key |-> Key, nonce |-> nonce, aad |-> aad, chunk |-> chunk, at |-> p]]

encryptFile(nonces, plaintext) ==
    LET count == CountOf(Len(plaintext))
        Chunk(i) == SubSeq(plaintext, i * ChunkSize + 1,
                           Least(Len(plaintext), (i + 1) * ChunkSize))
        Byte(p) ==
            LET i == (p - 1) \div (ChunkSize + TagLength)
            IN  Sealed(<<nonces, i>>, chunkAad(i, ":"), Chunk(i))
                    [p - i * (ChunkSize + TagLength)]
    IN  [chunkSize |-> ChunkSize, size |-> Len(plaintext),
         sha256 |-> plaintext, count |-> count, nonces |-> nonces,
         body |-> [p \in 1 .. encryptedBodyLength(Len(plaintext), count) |-> Byte(p)]]

encryptedByteSize(c) == c.count + Len(c.body)

\* parseEncryptionHeader and decryptFile: the plaintext, or Refused.
\* Files of the older separator open too.
decryptFile(c) ==
    LET Length(i) == chunkPlaintextLengthAt(c.chunkSize, c.size, i)
        From(i) == i * (c.chunkSize + TagLength)
        Slice(i) == SubSeq(c.body, From(i) + 1,
                           Least(Len(c.body), From(i) + Length(i) + TagLength))
        Opens(i) ==
            /\ Slice(i) # Empty
            /\ \E separator \in {":", "0"} :
                Slice(i) = Sealed(<<c.nonces, i>>, chunkAad(i, separator),
                                  Slice(i)[1].chunk)
        plaintext ==
            [p \in 1 .. c.size |->
                Slice((p - 1) \div c.chunkSize)[1].chunk
                    [((p - 1) % c.chunkSize) + 1]]
    IN  IF /\ c.chunkSize # 0
           /\ \A i \in 0 .. c.count - 1 : Opens(i)
           /\ plaintext = c.sha256
        THEN plaintext ELSE Refused

-----------------------------------------------------------------------------
\* An upload, one step for each call that is awaited.

Goes(t, at) == tab' = [tab EXCEPT ![t].at = at]
Stops(t) == tab' = [tab EXCEPT ![t] = Idle]

\* chooseFile, selectPastedFile, selectFile: the digest is taken now.  The page
\* refuses a file of another length for an attachment that is registered.
Choose(t) ==
    /\ tab[t].at = "idle" /\ row.status # "uploaded"
    /\ Spends("tries")
    /\ \E c \in Contents :
        /\ row.status = "pending" => Len(c) = Len(row.content)
        /\ tab' = [tab EXCEPT ![t] =
               [Idle EXCEPT !.at = IF row.status = "none" THEN "chosen"
                                   ELSE "registered",
                            !.file = [seen |-> c, now |-> c]]]
    /\ UNCHANGED <<row, object, drawn, handed, overwritten>>

\* The file is written again on the user's disk.
FileChanges(t) ==
    /\ tab[t].at # "idle" /\ tab[t].file.now = tab[t].file.seen
    /\ Spends("changes")
    /\ \E c \in Contents :
        /\ c # tab[t].file.seen
        /\ tab' = [tab EXCEPT ![t].file.now = c]
    /\ UNCHANGED <<row, object, drawn, handed, overwritten>>

\* create: another tab may have registered it meanwhile, then this one has an
\* attachment of its own, which is not followed here.
Register(t) ==
    /\ tab[t].at = "chosen"
    /\ IF row.status = "none"
       THEN \E sealed \in Sealings :
                /\ row' = [status |-> "pending", content |-> tab[t].file.seen,
                           sealed |-> sealed, sum |-> Empty]
                /\ \/ Goes(t, "registered") /\ UNCHANGED left
                   \/ Stops(t) /\ Spends("faults")
       ELSE Stops(t) /\ UNCHANGED <<row, left>>
    /\ UNCHANGED <<object, drawn, handed, overwritten>>

\* What the server answers to a pending attachment, as authorizeSignedRequest
\* keeps it; its checks of the request and of the key hold of every answer.
normalizeEncryption == IF row.sealed THEN row.content ELSE Empty

normalizeTransferAuthorization ==
    [state |-> "usable", sealed |-> row.sealed, plaintext |-> normalizeEncryption]

\* sign, and the comparison with what is registered.
Sign(t) ==
    /\ tab[t].at = "registered"
    /\ IF row.status = "pending" /\ tab[t].file.seen = row.content
       THEN tab' = [tab EXCEPT ![t].at = "signed",
                                 ![t].transfer = normalizeTransferAuthorization]
       ELSE Stops(t)
    /\ UNCHANGED <<row, object, drawn, handed, overwritten, left>>

\* The lifetime of the signature passes, for the tab and for the store.
Expire(t) ==
    /\ tab[t].transfer.state = "usable"
    /\ Spends("turns")
    /\ tab' = [tab EXCEPT ![t].transfer.state = "expired"]
    /\ UNCHANGED <<row, object, drawn, handed, overwritten>>

\* The user leaves the page: the upload ends at its next look at isCurrent,
\* unless it is already in the store's hands.
Leave(t) ==
    /\ tab[t].at \in {"chosen", "registered", "signed"}
    /\ Spends("turns")
    /\ Stops(t)
    /\ UNCHANGED <<row, object, drawn, handed, overwritten>>

\* uploadSignedRequest: both capabilities are consumed, whatever comes of it.
consumeTransferCapability(t) ==
    /\ tab[t].at = "signed"
    /\ IF tab[t].transfer.state = "usable" THEN Goes(t, "reading") ELSE Stops(t)
    /\ UNCHANGED <<row, object, drawn, handed, overwritten, left>>

\* mutant: what was compared at the signature is not compared again
Trusted(t) == Len(tab[t].file.now) = Len(tab[t].transfer.plaintext)
AsRegistered(t) == tab[t].file.now = tab[t].transfer.plaintext

\* The bytes are read again, compared with the registration and sealed.  A
\* file that changed since it was chosen cannot be read, or reads as it is now.
Read(t) ==
    /\ tab[t].at = "reading"
    /\ \/ /\ tab[t].file.now # tab[t].file.seen
          /\ Stops(t) /\ UNCHANGED drawn
       \/ /\ ~tab[t].transfer.sealed
          /\ tab' = [tab EXCEPT ![t].at = "putting", ![t].sum = tab[t].file.now]
          /\ UNCHANGED drawn
       \/ /\ tab[t].transfer.sealed /\ ~AsRegistered(t)
          /\ Stops(t) /\ UNCHANGED drawn
       \/ /\ tab[t].transfer.sealed /\ AsRegistered(t)
          /\ tab' = [tab EXCEPT ![t].at = "putting",
                                ![t].sum = encryptFile(drawn + 1, tab[t].file.now)]
          /\ drawn' = drawn + 1
    /\ UNCHANGED <<row, object, handed, overwritten, left>>

Verified == row.status = "uploaded" \/ \E t \in Tabs : tab[t].at = "marking"

\* The PUT; the store refuses it after its time.  Its answer may be lost.
Put(t) ==
    /\ tab[t].at = "putting"
    /\ IF tab[t].transfer.state = "usable"
       THEN /\ object' = tab[t].sum
            /\ overwritten' = (overwritten \/ Verified)
            /\ \/ Goes(t, "confirming") /\ UNCHANGED left
               \/ Stops(t) /\ Spends("faults")
       ELSE Stops(t) /\ UNCHANGED <<object, overwritten, left>>
    /\ UNCHANGED <<row, drawn, handed>>

-----------------------------------------------------------------------------
\* Confirming, on the server: the object is read, then the row is written.

SizeOf(o) == IF row.sealed THEN encryptedByteSize(o) ELSE Len(o)

\* verify_uploaded_object, and the comparison with the digest the tab sent.
Verify(t) ==
    /\ tab[t].at = "confirming"
    /\ IF row.sealed
       THEN IF /\ SizeOf(object) = CountOf(Len(row.content))
                     + encryptedBodyLength(Len(row.content), CountOf(Len(row.content)))
               /\ object = tab[t].sum
            THEN Goes(t, "marking") ELSE Stops(t)
       ELSE IF Len(object) = Len(row.content)
            THEN tab' = [tab EXCEPT ![t].at = "marking", ![t].sum = object]
            ELSE Stops(t)
    /\ UNCHANGED <<row, object, drawn, handed, overwritten, left>>

\* mark_attachment_uploaded_encrypted, mark_file_uploaded_with_checksum.
Mark(t) ==
    /\ tab[t].at = "marking"
    /\ row' = IF row.status = "pending" /\ (row.sealed \/ tab[t].sum = row.content)
              THEN [row EXCEPT !.status = "uploaded", !.sum = tab[t].sum]
              ELSE row
    /\ Stops(t)
    /\ UNCHANGED <<object, drawn, handed, overwritten, left>>

-----------------------------------------------------------------------------
\* Reading the attachment.

\* The length and the digest the confirmation registered, then decryptFile.
decryptEncryptedPreviewPayload(o) ==
    IF encryptedByteSize(o) = encryptedByteSize(row.sum) /\ o = row.sum
    THEN decryptFile(o) ELSE Refused

\* What a GET of the object returns: all of it, or less.
Received ==
    {object} \cup
    IF row.sealed THEN {[object EXCEPT !.body = SubSeq(@, 1, Len(@) - 1)]} ELSE {}

Hands(bytes) ==
    /\ Spends("turns")
    /\ handed' = handed \cup {bytes}
    /\ UNCHANGED <<tab, row, object, drawn, overwritten>>

\* downloadAttachment and downloadSignedRequest make the checks of the preview.
\* The URL of an attachment that is not sealed is opened by the browser.
downloadSignedRequest ==
    /\ row.status = "uploaded"
    /\ \E o \in Received :
        Hands(IF row.sealed THEN decryptEncryptedPreviewPayload(o) ELSE o)

\* The preview asks for the content and takes what it gets, or a description of
\* the sealed object; nothing is shown of an empty one.
fetchPreviewBytes ==
    /\ row.status = "uploaded"
    /\ \E o \in Received :
        Hands(IF row.sealed THEN decryptEncryptedPreviewPayload(o)
              ELSE IF o = Empty THEN Refused ELSE o)

-----------------------------------------------------------------------------
Next ==
    \/ \E t \in Tabs :
        \/ Choose(t) \/ FileChanges(t) \/ Register(t) \/ Sign(t) \/ Expire(t)
        \/ Leave(t) \/ consumeTransferCapability(t) \/ Read(t) \/ Put(t)
        \/ Verify(t) \/ Mark(t)
    \/ downloadSignedRequest
    \/ fetchPreviewBytes

Spec == Init /\ [][Next]_browserVars

\* What a download or a preview of a sealed attachment gives the user is the
\* file that was registered, byte for byte, whatever changed on the disk, was
\* retried or arrived in part (files.js: the digest of uploadSignedRequest and
\* the checks of downloadSignedRequest).
HandedAsRegistered ==
    row.sealed => handed \subseteq {Refused, row.content}

\* A sealed attachment that is confirmed opens, at every length, unless a later
\* upload of another tab replaced the object (file-crypto.js).
ConfirmedOpens ==
    row.status = "uploaded" /\ row.sealed /\ ~overwritten =>
        /\ object = row.sum
        /\ decryptFile(object) = row.content
=============================================================================
