---------------------------- MODULE DesktopFiles ----------------------------
(***************************************************************************)
(* File transfers in the desktop's main process: the spool of snapshots    *)
(* (files/file-spool.mjs, preview-spool.mjs), the vaults that hand out     *)
(* capabilities on them, uploads, downloads and previews with every await  *)
(* they make, and ipc/file-state.mjs, which withdraws all of it when the   *)
(* session, the page, the window or the power state changes.               *)
(*                                                                         *)
(* A file is known by the operation that made it: a pick by the upload     *)
(* snapshot it captured, a preview by the snapshot it fetched, a download  *)
(* by its temporary file.  Every operation is used once.  A snapshot is    *)
(* one unit of the spool's quota, and its bytes are one of Contents.       *)
(*                                                                         *)
(* A capability is bound to the profile epoch; the window and the frame it *)
(* is also bound to are those of the only window.  A grant never leaves    *)
(* the flow that issued it, and an upload issues and consumes it without   *)
(* an await in between, so only downloads' grants are state here.          *)
(***************************************************************************)
EXTENDS Naturals, FiniteSets

CONSTANTS
    Picks, Uploads, Downloads, Previews, \* the operations, each used once
    Contents,     \* what a file may hold
    Targets,      \* "plain" and "encrypted" (the resource library) uploads
    SpoolLimit,   \* maxTotalBytes of a spool, in files
    VaultLimit,   \* MAX_ENTRIES (and MAX_TOTAL_BYTES) of the capability vault
    MaxActive,    \* maxActiveOperations of the registry
    PreviewLimit, \* MAX_ENTRIES of the preview vault
    Scenarios     \* bounds: which operations begin and how many, which faults
                  \* (failures, withdrawals, foreign files) happen and how many

Snaps == Picks \cup Previews
Jobs == Picks \cup Uploads \cup Downloads \cup Previews
AllFaults == {"page", "refresh", "signout", "expiry", "rest", "lost", "copy",
              "transfer", "removal", "target", "crash"}

ASSUME FilesAssumption ==
    /\ \A S \in {Picks, Uploads, Downloads, Previews} : IsFiniteSet(S)
    /\ Picks \cap (Uploads \cup Downloads \cup Previews) = {}
    /\ Uploads \cap (Downloads \cup Previews) = {} /\ Downloads \cap Previews = {}
    /\ "none" \notin Picks \cup Uploads \cup Contents
    /\ Targets \subseteq {"plain", "encrypted"}
    /\ {SpoolLimit, VaultLimit, MaxActive, PreviewLimit} \subseteq Nat \ {0}
    /\ Scenarios \subseteq [jobs : SUBSET Jobs, ops : Nat,
                            faults : SUBSET AllFaults, times : Nat]

VARIABLES
    epoch,    \* the credential runtime's epoch
    signedIn, \* the coordinator is authenticated (or refreshing)
    job,      \* the operations
    files,    \* the files on disk: snapshots, staging and temporary files
    strays,   \* staging files left behind, which no spool counts any more
    bytes,    \* totalBytes of the file spool and of the preview spool
    vault,    \* capabilities: the epoch a snapshot's entry is bound to
    stale,    \* entries and grants past their time to live
    grants,   \* downloads with a transfer grant in the vault
    cleanup,  \* snapshots whose removal is scheduled
    failed,   \* failedCleanup: removals to try again
    chain,    \* the promise chain of invalidateAll()
    server,   \* the attachments, by the upload that registered them
    target,   \* the file the user saves downloads as
    shown,    \* the last preview content served: its epoch, today's epoch
    left      \* what is left of the scenario's bounds

state == <<job, files, strays, bytes, vault, stale, grants, cleanup, failed,
           chain>>
vars == <<epoch, signedIn, state, server, target, shown, left>>

-----------------------------------------------------------------------------

None == "none"
Epochs == Nat
Unbound == 0 \* no entry in a vault; epochs begin at 1

\* Steps at which an operation waits for something.
PickSteps == {"dialog", "copy"}
UploadSteps == {"create", "sign", "put", "sent", "close", "confirm"}
DownloadSteps == {"dsign", "save", "fetch", "verify", "rename", "cleanup"}
PreviewSteps == {"meta", "load", "refresh", "capture"}
Running == PickSteps \cup UploadSteps \cup DownloadSteps \cup PreviewSteps

\* From registry.begin() to finishOperation(), which comes before the clean-up.
Registered == {"put", "sent", "fetch", "verify", "rename"}

NoJob == [pc |-> "idle", epoch |-> 0, lease |-> 0, content |-> None,
          snap |-> None, att |-> None, first |-> TRUE, ok |-> FALSE,
          aborted |-> FALSE, withdrawn |-> FALSE, took |-> FALSE, saw |-> 0,
          why |-> None]
NoAttachment == [state |-> None, meta |-> None, object |-> None,
                 kind |-> None]

TypeOK ==
    /\ epoch \in Epochs /\ signedIn \in BOOLEAN
    /\ job \in [Jobs -> [pc : Running \cup {"idle", "done"}, epoch : Epochs,
                         lease : Epochs, content : Contents \cup {None},
                         snap : Picks \cup {None}, att : Uploads \cup {None},
                         first : BOOLEAN, ok : BOOLEAN, aborted : BOOLEAN,
                         withdrawn : BOOLEAN, took : BOOLEAN,
                         saw : Nat, why : {None, "issued", "completed", "refused",
                                           "failed", "lost"}]]
    /\ files \subseteq Jobs \ Uploads /\ strays \subseteq Snaps
    /\ bytes \in [file : 0 .. SpoolLimit, preview : 0 .. SpoolLimit]
    /\ vault \in [Snaps -> Epochs ]
    /\ stale \subseteq Snaps /\ grants \subseteq Downloads
    /\ cleanup \subseteq Snaps /\ failed \subseteq Picks
    /\ chain \in [queued : Nat, at : {"idle", "draining", "rejected"},
                  waits : SUBSET Snaps]
    /\ server \in [Uploads -> [state : {None, "pending", "uploaded"},
                               meta : Contents \cup {None},
                               object : Contents \cup {None},
                               kind : Targets \cup {None}]]
    /\ target \in [id : Nat, whole : BOOLEAN]
    /\ shown \in [of : Epochs, at : Epochs]
    /\ left \in [jobs : SUBSET Jobs, ops : Nat, faults : SUBSET AllFaults,
                 times : Nat]

Init ==
    /\ epoch = 1 /\ signedIn = TRUE
    /\ job = [j \in Jobs |-> NoJob]
    /\ files = {} /\ strays = {} /\ bytes = [file |-> 0, preview |-> 0]
    /\ vault = [s \in Snaps |-> Unbound] /\ stale = {} /\ grants = {}
    /\ cleanup = {} /\ failed = {}
    /\ chain = [queued |-> 0, at |-> "idle", waits |-> {}]
    /\ server = [u \in Uploads |-> NoAttachment]
    /\ target = [id |-> 0, whole |-> TRUE]
    /\ shown = [of |-> 0, at |-> 0]
    /\ left \in Scenarios

Fault(f) ==
    /\ f \in left.faults /\ left.times > 0
    /\ left' = [left EXCEPT !.times = @ - 1]
FaultUnless(ok, f) == IF ok THEN UNCHANGED left ELSE Fault(f)

\* Names of operations are interchangeable: they are used in a fixed order.
Begin(j, S) ==
    /\ \E k \in S : job[k].pc = "idle"
    /\ j = CHOOSE k \in S : job[k].pc = "idle"
    /\ j \in left.jobs /\ left.ops > 0
    /\ left' = [left EXCEPT !.ops = @ - 1]

\* An ended operation keeps what others still refer to.
Done(j, why) ==
    [job EXCEPT ![j] = [NoJob EXCEPT !.pc = "done", !.why = why,
        !.lease = IF j \in Previews THEN job[j].lease ELSE 0,
        !.content = job[j].content, !.snap = job[j].snap, !.ok = job[j].ok,
        !.withdrawn = job[j].withdrawn, !.took = job[j].took]]

-----------------------------------------------------------------------------
\* ipc/file-state.mjs and the vaults.

\* A mistake a property below refuses: what runs is not told.
AbortNobody(f) ==
    [j \in Jobs |-> IF f[j].pc \in {"put", "save", "fetch"}
                    THEN [f[j] EXCEPT !.withdrawn = TRUE] ELSE f[j]]

\* registry.abortAll().  `withdrawn' remembers what was under way then.
abortAll(f) ==
    [j \in Jobs |-> [f[j] EXCEPT
        !.aborted = @ \/ f[j].pc \in Registered,
        !.withdrawn = @ \/ f[j].pc \in {"put", "save", "fetch"}]]

\* invalidateAll(), called n times: the transfers are aborted and the grants
\* dropped at once; the snapshots' vaults have to wait for the chain.
invalidateAll(f, n) ==
    /\ job' = abortAll(f)
    /\ grants' = {}
    /\ chain' = [chain EXCEPT !.queued = @ + n]

\* A mistake a property below refuses: nothing runs after a failed link.
ChainStuck == chain.queued > 0 /\ chain.at = "idle"

ChainReady == chain.queued > 0 /\ chain.at # "draining"

\* Microtasks run before the next event.
Quiet == ~ChainReady

\* A mistake a property below refuses: the entries go, the files stay.
ForgetFiles(held) == cleanup

Schedule(held) == cleanup \cup held

\* The next link: both vaults are emptied, unless a link before it failed.
ChainRuns ==
    /\ ChainReady
    /\ LET held == {s \in Snaps : vault[s] # Unbound} IN
       IF chain.at = "rejected"
       THEN /\ chain' = [chain EXCEPT !.queued = @ - 1]
            /\ UNCHANGED <<vault, cleanup>>
       ELSE /\ vault' = [s \in Snaps |-> Unbound]
            /\ cleanup' = Schedule(held)
            /\ chain' = [queued |-> chain.queued - 1, at |-> "draining",
                         waits |-> Schedule(held)]
    /\ UNCHANGED <<epoch, signedIn, job, files, bytes, stale, strays, grants,
                   failed, server, target, shown, left>>

Release(S) == [file |-> bytes.file - Cardinality(S \cap Picks),
               preview |-> bytes.preview - Cardinality(S \cap Previews)]

\* A scheduled removal ends.  A failure is remembered for a snapshot of the
\* file spool, and forgotten for a preview.
Removed(s, ok) ==
    /\ Quiet
    /\ s \in cleanup /\ cleanup' = cleanup \ {s}
    /\ chain' = [chain EXCEPT !.waits = @ \ {s}]
    /\ FaultUnless(ok, "removal")
    /\ IF ok THEN /\ files' = files \ {s} /\ bytes' = Release({s})
                  /\ UNCHANGED failed
       ELSE failed' = failed \cup ({s} \cap Picks) /\ UNCHANGED <<files, bytes>>
    /\ UNCHANGED <<epoch, signedIn, job, vault, stale, strays, grants, server,
                   target, shown>>

\* drainCleanup() has seen the removals end and tries the failed ones again;
\* what could not be removed once may well fail again.
Drained(again) ==
    /\ Quiet
    /\ chain.at = "draining" /\ chain.waits = {}
    /\ again \subseteq failed
    /\ files' = files \ (failed \ again)
    /\ bytes' = Release(failed \ again)
    /\ failed' = again
    /\ chain' = [chain EXCEPT !.at = IF again = {} THEN "idle" ELSE "rejected"]
    /\ UNCHANGED <<epoch, signedIn, job, vault, stale, strays, grants, cleanup,
                   server, target, shown, left>>

\* The vaults' check of a capability presented under a binding.
Valid(s, e) == vault[s] = e /\ s \notin stale

take(s) == [vault EXCEPT ![s] = Unbound]

\* A mistake a property below refuses: the entry stays.
ConsumeAndKeep(s) == vault

consume(s) == take(s)

\* issue(): expired entries of the vault are pruned first.
Pruned(S) == {s \in S : vault[s] # Unbound /\ s \in stale}
issue(s, S, e) ==
    /\ vault' = [t \in Snaps |-> IF t = s THEN e
                                 ELSE IF t \in Pruned(S) THEN Unbound ELSE vault[t]]
    /\ cleanup' = Schedule(Pruned(S))

\* issue() of a vault that is full all the same: it has only pruned.
pruneExpired(S) ==
    /\ vault' = [t \in Snaps |-> IF t \in Pruned(S) THEN Unbound ELSE vault[t]]
    /\ cleanup' = Schedule(Pruned(S))

\* An entry is left for one more capability on a snapshot of S.
Room(S, limit) ==
    Cardinality({s \in S : vault[s] # Unbound /\ s \notin stale}) < limit

Expire(s) ==
    /\ Quiet
    /\ Fault("expiry")
    /\ vault[s] # Unbound /\ s \notin stale
    /\ stale' = stale \cup {s}
    /\ UNCHANGED <<epoch, signedIn, job, files, strays, bytes, vault, grants,
                   cleanup, failed, chain, server, target, shown>>

GrantExpires(d) ==
    /\ Quiet
    /\ Fault("expiry")
    /\ d \in grants /\ grants' = grants \ {d}
    /\ UNCHANGED <<epoch, signedIn, job, files, bytes, vault, stale, strays,
                   cleanup, failed, chain, server, target, shown>>

-----------------------------------------------------------------------------
\* Picking a file: the dialog (or the clipboard), the capture, the capability.

choose(p) ==
    /\ Quiet
    /\ Begin(p, Picks) /\ signedIn
    /\ job' = [job EXCEPT ![p] = [NoJob EXCEPT !.pc = "dialog",
                                               !.epoch = epoch]]
    /\ UNCHANGED <<epoch, signedIn, files, bytes, vault, stale, strays, grants,
                   cleanup, failed, chain, server, target, shown>>

\* The spool takes one capture at a time and reserves its bytes first.
Capture(p) ==
    /\ Quiet
    /\ job[p].pc = "dialog"
    /\ \A q \in Picks : job[q].pc # "copy"
    /\ \/ /\ job' = Done(p, "refused")
          /\ UNCHANGED <<files, bytes>>
       \/ /\ bytes.file + 1 > SpoolLimit
          /\ job' = Done(p, "failed")
          /\ UNCHANGED <<files, bytes>>
       \/ /\ bytes.file + 1 <= SpoolLimit
          /\ \E c \in Contents :
                job' = [job EXCEPT ![p] = [@ EXCEPT !.pc = "copy",
                                                    !.content = c]]
          /\ files' = files \cup {p}
          /\ bytes' = [bytes EXCEPT !.file = @ + 1]
    /\ UNCHANGED <<epoch, signedIn, vault, stale, strays, grants, cleanup,
                   failed, chain, server, target, shown, left>>

\* A mistake a property below refuses: the reservation stays.
CaptureKeepsBytes(p) == files' = files \ {p} /\ UNCHANGED bytes

\* The finally block of a capture that did not commit, and remove() of a
\* snapshot that did: the bytes are given back.
Uncaptured(p) == files' = files \ {p} /\ bytes' = Release({p})

\* The capture ends: "ok"; "failed", the staging file removed; "left" behind,
\* because that removal failed too, which nobody is told; or "source": the
\* snapshot is there, but the pasted bytes it was copied from could not be
\* removed, and the error of the finally block takes the place of the result.
\* Then the vault may be full.  The snapshot is removed, or it is "kept": that
\* failure is swallowed.
Captured(p, out) ==
    /\ Quiet
    /\ job[p].pc = "copy"
    /\ LET committed == out \in {"ok", "kept"}
           room == Room(Picks, VaultLimit) IN
       /\ out = "kept" => ~room
       /\ FaultUnless(out = "ok", IF out = "failed" THEN "copy" ELSE "removal")
       /\ CASE committed /\ room -> issue(p, Picks, job[p].epoch)
            [] committed /\ ~room -> pruneExpired(Picks)
            [] ~committed -> UNCHANGED <<vault, cleanup>>
       /\ IF out \in {"failed", "left"} \/ (out = "ok" /\ ~room)
          THEN Uncaptured(p) ELSE UNCHANGED <<files, bytes>>
       /\ job' = Done(p, CASE out \in {"source", "kept"} -> "lost"
                           [] out = "ok" /\ room -> "issued"
                           [] OTHER -> "failed")
    /\ strays' = strays \cup (IF out \in {"left", "source"} THEN {p} ELSE {})
    /\ UNCHANGED <<epoch, signedIn, stale, grants, failed, chain, server,
                   target, shown>>

-----------------------------------------------------------------------------
\* Uploads: register, sign, grant, PUT, confirm.

\* The renderer names a capability it was given and, to try again, an
\* attachment that is still pending.  describe() looks without consuming.
uploadAttachment(u, p, a, kind) ==
    /\ Quiet
    /\ Begin(u, Uploads) /\ signedIn
    /\ job[p].why = "issued"
    /\ a = u \/ server[a].state = "pending"
    /\ kind = (IF a = u THEN kind ELSE server[a].kind)
    /\ IF Valid(p, epoch)
       THEN /\ job' = [job EXCEPT ![u] = [NoJob EXCEPT
                        !.pc = IF a = u THEN "create" ELSE "sign",
                        !.epoch = epoch, !.lease = epoch, !.snap = p, !.att = a]]
            /\ server' = [server EXCEPT ![a].kind = kind]
            /\ UNCHANGED <<vault, cleanup>>
       ELSE /\ job' = Done(u, "failed")
            /\ vault' = take(p)
            /\ cleanup' = cleanup \cup (IF vault[p] = Unbound THEN {} ELSE {p})
            /\ UNCHANGED server
    /\ UNCHANGED <<epoch, signedIn, files, bytes, stale, strays, grants,
                   failed, chain, target, shown>>

\* withAccessLease(): an answer of an earlier epoch is an error.
Answered(j, out) == out = "ok" /\ job[j].lease = epoch

\* The answer to the registration; "lost" when the server did register.
Created(u, out) ==
    /\ Quiet
    /\ job[u].pc = "create"
    /\ IF out = "ok" THEN UNCHANGED left ELSE Fault(out)
    /\ server' = IF out = "rest" THEN server
                 ELSE [server EXCEPT ![u] = [@ EXCEPT !.state = "pending",
                                        !.meta = job[job[u].snap].content]]
    /\ job' = IF Answered(u, out) THEN [job EXCEPT ![u].pc = "sign"]
              ELSE Done(u, "failed")
    /\ UNCHANGED <<epoch, signedIn, files, bytes, vault, stale, strays, grants,
                   cleanup, failed, chain, target, shown>>

\* A mistake a property below refuses: any file is sent to the attachment.
AnyPair(a, p) == TRUE

validateUploadPair(a, p) == server[a].meta = job[p].content

\* grantVault.issue() knows no contract that has an encryption part.
Grantable(kind) == kind = "plain"

Active == {j \in Jobs : job[j].pc \in Registered}

\* The signed request has come: from here to the opening of the snapshot
\* nothing is awaited.  A capability that is not valid any more is dropped.
Signed(u, out) ==
    /\ Quiet
    /\ job[u].pc = "sign"
    /\ IF out = "ok" THEN UNCHANGED left ELSE Fault(out)
    /\ LET p == job[u].snap
           a == job[u].att
           checked == Answered(u, out) /\ validateUploadPair(a, p) IN
       CASE ~checked \/ ~Grantable(server[a].kind) ->
              /\ job' = Done(u, IF checked THEN "refused" ELSE "failed")
              /\ UNCHANGED <<vault, cleanup>>
         [] checked /\ Grantable(server[a].kind)
              /\ Cardinality(Active) >= MaxActive ->
              job' = Done(u, "failed") /\ UNCHANGED <<vault, cleanup>>
         [] OTHER ->
              /\ vault' = consume(p)
              /\ IF Valid(p, job[u].epoch)
                 THEN /\ job' = [job EXCEPT ![u] = [@ EXCEPT !.pc = "put",
                                                              !.took = TRUE]]
                      /\ UNCHANGED cleanup
                 ELSE /\ job' = Done(u, "failed")
                      /\ cleanup' = cleanup \cup
                            (IF vault[p] = Unbound THEN {} ELSE {p})
    /\ UNCHANGED <<epoch, signedIn, files, bytes, stale, strays, grants,
                   failed, chain, server, target, shown>>

\* The snapshot is opened, hashed against the contract and sent, and the
\* server answers: well, or with a "bad" status.  Or there is an "error", a
\* time-out or an abort, which counts until the answer is there.  Without a good
\* answer the object may be stored all the same.
Put(u, out) ==
    /\ Quiet
    /\ job[u].pc = "put"
    /\ job[u].aborted => out = "error"
    /\ FaultUnless(out = "ok" \/ job[u].aborted, "transfer")
    /\ job' = [job EXCEPT ![u] = [@ EXCEPT !.ok = out = "ok",
                     !.pc = IF out = "error" THEN "close" ELSE "sent"]]
    /\ LET stored == [server EXCEPT ![job[u].att].object =
                        job[job[u].snap].content] IN
       server' \in (IF out = "ok" THEN {stored} ELSE {server, stored})
    /\ UNCHANGED <<epoch, signedIn, files, bytes, vault, stale, strays, grants,
                   cleanup, failed, chain, target, shown>>

\* The snapshot must still be the file that was opened; the answer is checked
\* and its body cancelled.  Nobody looks at the abort signal any more.
Sent(u, same) ==
    /\ Quiet
    /\ job[u].pc = "sent"
    /\ FaultUnless(same, "transfer")
    /\ job' = [job EXCEPT ![u] = [@ EXCEPT !.pc = "close", !.ok = job[u].ok /\ same]]
    /\ UNCHANGED <<epoch, signedIn, files, bytes, vault, stale, strays, grants,
                   cleanup, failed, chain, server, target, shown>>

\* The finally block: the snapshot goes.  If it cannot be removed the whole
\* upload has failed, whatever the PUT did.
Closed(u, ok) ==
    /\ Quiet
    /\ job[u].pc = "close"
    /\ FaultUnless(ok, "removal")
    /\ IF ok THEN files' = files \ {job[u].snap} /\ bytes' = Release({job[u].snap})
       ELSE UNCHANGED <<files, bytes>>
    /\ job' = IF ok /\ job[u].ok /\ signedIn
              THEN [job EXCEPT ![u] = [@ EXCEPT !.pc = "confirm", !.lease = epoch]]
              ELSE Done(u, "failed")
    /\ UNCHANGED <<epoch, signedIn, vault, stale, strays, grants, cleanup,
                   failed, chain, server, target, shown>>

\* The server looks for the object before it calls the attachment uploaded.
Confirmed(u, out) ==
    /\ Quiet
    /\ job[u].pc = "confirm"
    /\ IF out = "ok" THEN UNCHANGED left ELSE Fault(out)
    /\ server' = IF out = "rest" \/ server[job[u].att].object = None THEN server
                 ELSE [server EXCEPT ![job[u].att].state = "uploaded"]
    /\ job' = Done(u, IF Answered(u, out) THEN "completed" ELSE "failed")
    /\ UNCHANGED <<epoch, signedIn, files, bytes, vault, stale, strays, grants,
                   cleanup, failed, chain, target, shown>>

\* The request will be sent once more, under the lease after a refresh.
Refreshed(j) ==
    [job EXCEPT ![j] = [@ EXCEPT !.first = FALSE, !.lease = epoch + 1]]

\* A GET was answered "access expired": refreshAccess() moves the epoch,
\* which withdraws every capability, and the GET is sent once more.
RestExpired(j) ==
    /\ Quiet
    /\ job[j].pc \in {"sign", "dsign", "meta"}
    /\ job[j].first /\ job[j].lease = epoch
    /\ Fault("refresh")
    /\ epoch' = epoch + 1
    /\ invalidateAll(Refreshed(j), 1)
    /\ UNCHANGED <<signedIn, files, bytes, vault, stale, strays, cleanup,
                   failed, server, target, shown>>

-----------------------------------------------------------------------------
\* Downloads: sign, grant, save dialog, temporary file, commit.

downloadAttachment(d) ==
    /\ Quiet
    /\ Begin(d, Downloads) /\ signedIn
    /\ job' = [job EXCEPT ![d] = [NoJob EXCEPT !.pc = "dsign", !.epoch = epoch,
                                               !.lease = epoch]]
    /\ UNCHANGED <<epoch, signedIn, files, bytes, vault, stale, strays, grants,
                   cleanup, failed, chain, server, target, shown>>

DownloadSigned(d, out, kind) ==
    /\ Quiet
    /\ job[d].pc = "dsign"
    /\ IF out = "ok" THEN UNCHANGED left ELSE Fault(out)
    /\ IF Answered(d, out) /\ Grantable(kind)
       THEN /\ job' = [job EXCEPT ![d].pc = "save"]
            /\ grants' = grants \cup {d}
       ELSE job' = Done(d, "failed") /\ UNCHANGED grants
    /\ UNCHANGED <<epoch, signedIn, files, bytes, vault, stale, strays,
                   cleanup, failed, chain, server, target, shown>>

\* The user has answered the save dialog: cancelled, or the temporary file is
\* made and the transfer registered, which may be one too many.
Saved(d) ==
    /\ Quiet
    /\ job[d].pc = "save"
    /\ \/ /\ job' = Done(d, "refused")
          /\ UNCHANGED <<files, grants>>
       \/ /\ files' = files \cup {d}
          /\ IF Cardinality(Active) >= MaxActive
             THEN job' = Done(d, "failed") /\ UNCHANGED grants
             ELSE /\ grants' = grants \ {d}
                  /\ job' = [job EXCEPT ![d] = [@ EXCEPT !.saw = target.id,
                        !.pc = IF d \in grants THEN "fetch" ELSE "cleanup"]]
    /\ UNCHANGED <<epoch, signedIn, bytes, vault, stale, strays, cleanup,
                   failed, chain, server, target, shown, left>>

\* A mistake a property below refuses: the body is not compared.
AnyBody(out) == out \in {"whole", "short"}

\* writeResponse(): every byte, and the hash.
writeResponse(out) == out = "whole"

Fetched(d, out) ==
    /\ Quiet
    /\ job[d].pc = "fetch"
    /\ job[d].aborted => out = "error"
    /\ FaultUnless(out = "whole" \/ job[d].aborted, "transfer")
    /\ job' = [job EXCEPT ![d] = [@ EXCEPT !.ok = out = "whole",
                     !.pc = IF writeResponse(out) THEN "verify" ELSE "cleanup"]]
    /\ UNCHANGED <<epoch, signedIn, files, bytes, vault, stale, strays, grants,
                   cleanup, failed, chain, server, target, shown>>

\* commit(): the target still is what the user saw ...
Verified(d) ==
    /\ Quiet
    /\ job[d].pc = "verify"
    /\ job' = [job EXCEPT ![d].pc = IF target.id = job[d].saw THEN "rename"
                                    ELSE "cleanup"]
    /\ UNCHANGED <<epoch, signedIn, files, bytes, vault, stale, strays, grants,
                   cleanup, failed, chain, server, target, shown, left>>

\* ... and is replaced.
Renamed(d) ==
    /\ Quiet
    /\ job[d].pc = "rename"
    /\ target' = [id |-> target.id + 1, whole |-> job[d].ok]
    /\ files' = files \ {d}
    /\ job' = [job EXCEPT ![d].pc = "cleanup"]
    /\ UNCHANGED <<epoch, signedIn, bytes, vault, stale, strays, grants,
                   cleanup, failed, chain, server, shown, left>>

CleanedUp(d, ok) ==
    /\ Quiet
    /\ job[d].pc = "cleanup"
    /\ FaultUnless(ok \/ d \notin files, "removal")
    /\ files' = IF ok THEN files \ {d} ELSE files
    /\ job' = Done(d, IF ok /\ job[d].ok THEN "completed" ELSE "failed")
    /\ UNCHANGED <<epoch, signedIn, bytes, vault, stale, strays, grants,
                   cleanup, failed, chain, server, target, shown>>

\* Another program writes the file the user chose.
ForeignFile ==
    /\ Quiet
    /\ Fault("target")
    /\ target' = [id |-> target.id + 1, whole |-> TRUE]
    /\ UNCHANGED <<epoch, signedIn, state, server, shown>>

-----------------------------------------------------------------------------
\* Previews: metadata, content into the spool, capability, protocol handler.

openPreview(v) ==
    /\ Quiet
    /\ Begin(v, Previews) /\ signedIn
    /\ job' = [job EXCEPT ![v] = [NoJob EXCEPT !.pc = "meta", !.epoch = epoch,
                                               !.lease = epoch]]
    /\ UNCHANGED <<epoch, signedIn, files, bytes, vault, stale, strays, grants,
                   cleanup, failed, chain, server, target, shown>>

\* The content is fetched under a lease of its own.
MetaAnswered(v, out) ==
    /\ Quiet
    /\ job[v].pc = "meta"
    /\ IF out = "ok" THEN UNCHANGED left ELSE Fault(out)
    /\ job' = IF Answered(v, out)
              THEN [job EXCEPT ![v] = [@ EXCEPT !.pc = "load", !.first = TRUE]]
              ELSE Done(v, "failed")
    /\ UNCHANGED <<epoch, signedIn, files, bytes, vault, stale, strays, grants,
                   cleanup, failed, chain, server, target, shown>>

\* A 401 of the current epoch is answered by a refresh, once.
Loaded(v, out) ==
    /\ Quiet
    /\ job[v].pc = "load"
    /\ IF out = "expired" /\ job[v].first /\ job[v].lease = epoch
       THEN /\ Fault("refresh")
            /\ epoch' = epoch + 1
            /\ invalidateAll(Refreshed(v), 1)
       ELSE /\ FaultUnless(out = "ok", "rest")
            /\ job' = IF out = "ok" THEN [job EXCEPT ![v].pc = "capture"]
                      ELSE Done(v, "failed")
            /\ UNCHANGED <<epoch, grants, chain>>
    /\ UNCHANGED <<signedIn, files, bytes, vault, stale, strays, cleanup,
                   failed, server, target, shown>>

\* The body is in the spool, or refused ("bad"), or refused and its staging file
\* "left" behind.  Then the lease's epoch is compared: a stale one throws, and
\* nobody has the snapshot.  Otherwise it is issued under the binding of the
\* request, or removed if the vault is full, or "kept" if that fails.
PreviewCaptured(v, out) ==
    /\ Quiet
    /\ job[v].pc = "capture"
    /\ LET fits == out \in {"ok", "kept"} /\ bytes.preview + 1 <= SpoolLimit
           room == Room(Previews, PreviewLimit)
           current == job[v].lease = epoch IN
       /\ out = "kept" => fits /\ current /\ ~room
       /\ FaultUnless(out = "ok", IF out = "bad" THEN "transfer" ELSE "removal")
       /\ IF fits /\ (room \/ ~current \/ out = "kept")
          THEN /\ files' = files \cup {v}
               /\ bytes' = [bytes EXCEPT !.preview = @ + 1]
          ELSE UNCHANGED <<files, bytes>>
       /\ CASE fits /\ current /\ room -> issue(v, Previews, job[v].epoch)
            [] fits /\ current /\ ~room -> pruneExpired(Previews)
            [] OTHER -> UNCHANGED <<vault, cleanup>>
       /\ job' = Done(v, IF fits /\ current /\ room THEN "issued" ELSE "failed")
    /\ strays' = strays \cup (IF out = "left" THEN {v} ELSE {})
    /\ UNCHANGED <<epoch, signedIn, stale, grants, failed, chain, server,
                   target, shown>>

\* A mistake a property below refuses: the epoch is not part of the binding.
AnyEpoch(v) == vault[v] # Unbound /\ v \notin stale

Resolvable(v) == Valid(v, epoch)

\* The app protocol resolves a capability, or drops it.
Resolve(v) ==
    /\ Quiet
    /\ job[v].why = "issued" /\ signedIn /\ vault[v] # Unbound
    /\ IF Resolvable(v)
       THEN /\ shown' = [of |-> job[v].lease, at |-> epoch]
            /\ UNCHANGED <<vault, cleanup>>
       ELSE /\ vault' = take(v) /\ cleanup' = cleanup \cup {v}
            /\ UNCHANGED shown
    /\ UNCHANGED <<epoch, signedIn, job, files, bytes, stale, strays, grants,
                   failed, chain, server, target, left>>

ReleasePreview(v) ==
    /\ Quiet
    /\ job[v].why = "issued" /\ signedIn /\ vault[v] # Unbound
    /\ vault' = take(v) /\ cleanup' = cleanup \cup {v}
    /\ UNCHANGED <<epoch, signedIn, job, files, bytes, stale, strays, grants,
                   failed, chain, server, target, shown, left>>

-----------------------------------------------------------------------------
\* What withdraws everything: navigation, a lost renderer, a closed window and
\* suspend in one epoch; a refresh, a logout, a revocation by a new one.

LeavePage ==
    /\ Quiet
    /\ Fault("page")
    /\ invalidateAll(job, 1)
    /\ UNCHANGED <<epoch, signedIn, files, bytes, vault, stale, strays,
                   cleanup, failed, server, target, shown>>

\* onNetworkInvalidated and onPublicState both call invalidateAll().
SignOut ==
    /\ Quiet
    /\ signedIn /\ Fault("signout")
    /\ signedIn' = FALSE /\ epoch' = epoch + 1
    /\ invalidateAll(job, 2)
    /\ UNCHANGED <<files, bytes, vault, stale, strays, cleanup, failed, server,
                   target, shown>>

\* "authorizing" is announced before "authenticated".
SignIn ==
    /\ Quiet
    /\ ~signedIn /\ signedIn' = TRUE
    /\ invalidateAll(job, 1)
    /\ UNCHANGED <<epoch, files, bytes, vault, stale, strays, cleanup, failed,
                   server, target, shown, left>>

\* The process dies; the next one empties both spools before it offers file
\* commands, and leaves the user's directories alone.
Restart ==
    /\ Quiet
    /\ Fault("crash")
    /\ job' = [j \in Jobs |-> IF job[j].pc = "idle" THEN job[j]
                              ELSE [NoJob EXCEPT !.pc = "done"]]
    /\ files' = files \ Snaps /\ strays' = {}
    /\ bytes' = [file |-> 0, preview |-> 0]
    /\ vault' = [s \in Snaps |-> Unbound] /\ stale' = {} /\ grants' = {}
    /\ cleanup' = {} /\ failed' = {}
    /\ chain' = [queued |-> 0, at |-> "idle", waits |-> {}]
    /\ UNCHANGED <<epoch, signedIn, server, target, shown>>

-----------------------------------------------------------------------------

RestOutcomes == {"ok", "rest", "lost"}

PickStep(p) ==
    \/ Capture(p)
    \/ \E out \in {"ok", "failed", "left", "source", "kept"} : Captured(p, out)

UploadStep(u) ==
    \/ \E out \in RestOutcomes : Created(u, out) \/ Confirmed(u, out)
    \/ \E out \in {"ok", "rest"} : Signed(u, out)
    \/ \E out \in {"ok", "bad", "error"} : Put(u, out)
    \/ \E ok \in BOOLEAN : Sent(u, ok) \/ Closed(u, ok)

DownloadStep(d) ==
    \/ \E out \in {"ok", "rest"}, kind \in Targets : DownloadSigned(d, out, kind)
    \/ \E out \in {"whole", "short", "error"} : Fetched(d, out)
    \/ Saved(d) \/ Verified(d) \/ Renamed(d)
    \/ \E ok \in BOOLEAN : CleanedUp(d, ok)

PreviewStep(v) ==
    \/ \E out \in {"ok", "rest"} : MetaAnswered(v, out)
    \/ \E out \in {"ok", "expired", "error"} : Loaded(v, out)
    \/ \E out \in {"ok", "bad", "left", "kept"} : PreviewCaptured(v, out)

\* What goes on by itself once it has begun.
Proceed ==
    \/ ChainRuns \/ \E again \in SUBSET failed : Drained(again)
    \/ \E s \in Snaps, ok \in BOOLEAN : Removed(s, ok)
    \/ \E p \in Picks : PickStep(p)
    \/ \E u \in Uploads : UploadStep(u)
    \/ \E d \in Downloads : DownloadStep(d)
    \/ \E v \in Previews : PreviewStep(v)

Next ==
    \/ Proceed
    \/ \E s \in Snaps : Expire(s)
    \/ \E p \in Picks : choose(p)
    \/ \E u, a \in Uploads, p \in Picks, kind \in Targets :
          uploadAttachment(u, p, a, kind)
    \/ \E d \in Downloads : downloadAttachment(d) \/ GrantExpires(d)
    \/ \E v \in Previews : openPreview(v) \/ Resolve(v) \/ ReleasePreview(v)
    \/ \E j \in Jobs : RestExpired(j)
    \/ LeavePage \/ SignOut \/ SignIn \/ Restart \/ ForeignFile

Spec == Init /\ [][Next]_vars

\* Requests have time-outs, dialogs are answered, file operations return and
\* promises that can run do: something that is under way goes on.  Which of
\* several goes on first is left open.
FairSpec == Spec /\ WF_vars(Proceed)

-----------------------------------------------------------------------------
\* Properties.

\* totalBytes is the snapshots in the spool and the captures that have their
\* bytes reserved, through refused and failed captures, full vaults, uploads,
\* withdrawals, failed removals and a restart: a spool that counts wrong refuses
\* files for ever or grows without limit.  A staging file whose removal fails
\* after a failed capture is a stray: it lies on disk uncounted until the next
\* start (file-spool.mjs:187-188, preview-spool.mjs:75 swallow the failure).
SpoolAccounted ==
    /\ bytes.file = Cardinality(files \cap Picks)
    /\ bytes.preview = Cardinality(files \cap Previews)

\* A copy of the user's file lies in the spool only while somebody is going to
\* use or remove it, or somebody was told of a failure when it could not be
\* removed: its upload, or its own pick.  Nothing removes such a copy before the
\* next start, and it keeps its share of the quota.  A pick "loses" its copy in
\* two ways: a pasted file whose source stays (file-spool.mjs:113-115), and a
\* full vault whose remove() fails in silence (file-dialog.mjs:47).
SnapshotsOwned ==
    \A p \in files \cap Picks :
        \/ job[p].pc = "copy" \/ vault[p] # Unbound \/ p \in cleanup \cup failed
        \/ job[p].why = "lost"
        \/ \E u \in Uploads : job[u].took /\ job[u].snap = p
                /\ (job[u].pc # "done" \/ job[u].why = "failed")

\* A transfer whose bytes were moving, or whose save dialog was open, when its
\* page, window or session went away comes to nothing: not confirmed, not saved
\* under the name the user chose.  This is not said of a transfer that abortAll()
\* finds later on: an upload whose answer has come ("sent", "close", "confirm")
\* and a download whose body is complete ("verify", "rename") still finish.  Nor
\* of one it finds earlier: an upload that waits for its registration or its
\* signed request fails only because its capability is gone by then, and a
\* download that waits for its signed request goes on to the save dialog, if the
\* epoch is still the same.
WithdrawnTransfersStop ==
    \A j \in Uploads \cup Downloads : job[j].withdrawn =>
        ~job[j].ok /\ job[j].pc \notin {"sent", "confirm", "verify", "rename"}

\* A snapshot is sent at most once, whatever the renderer does with its
\* capability.
SnapshotSentOnce ==
    \A t, u \in Uploads : t # u /\ job[t].took /\ job[u].took =>
        job[t].snap # job[u].snap

\* An attachment the server calls uploaded holds the file it was registered
\* for, also after retries with another pick and lost answers.
ConfirmedMatches ==
    \A u \in Uploads : server[u].state = "uploaded" =>
        server[u].object = server[u].meta

\* What replaces the user's file is complete.
TargetWhole == target.whole

\* The preview protocol serves only what today's session fetched.
PreviewsServedToTheirSession == shown.of = shown.at

\* The spool counts what lies in it, and every copy has one owner that sends it
\* once or removes it (file-spool.mjs, file-capability-vault.mjs).
SpoolKept == SpoolAccounted /\ SnapshotsOwned /\ SnapshotSentOnce

\* Neither a transfer nor a preview outlives the page and the session it was
\* started in (abortAll of file-state.mjs, preview-content-loader.mjs).
TransfersEndWithTheirPage ==
    WithdrawnTransfersStop /\ PreviewsServedToTheirSession

\* A file arrives whole or not at all, on the server and on the user's disk
\* (upload-executor.mjs, download-target.mjs).
FilesArriveWhole == ConfirmedMatches /\ TargetWhole

VaultsEmpty == \A s \in Snaps : vault[s] = Unbound

\* Every transfer, every link of the withdrawals' chain and every removal ends.
\* A withdrawal that is asked for empties the vaults, unless snapshots could not
\* be removed twice (failedCleanup): then the chain is rejected, and this
\* withdrawal and all later ones leave the vaults as they are (file-state.mjs:11).
Settles ==
    /\ []<>(/\ \A j \in Jobs : job[j].pc \in {"idle", "done"}
            /\ chain.queued = 0 /\ chain.at # "draining" /\ cleanup = {})
    /\ chain.queued > 0 ~> (VaultsEmpty \/ failed # {})

\* What one would like to say, and a rejected chain refutes.
WithdrawalsCarriedOut == chain.queued > 0 ~> VaultsEmpty

\* The plan's AE5: temporary files and snapshots of ended operations are gone.
NothingLeftBehind ==
    strays = {} /\
    \A f \in files : \/ job[f].pc \in Running
                     \/ f \in cleanup \cup failed
                     \/ f \in Snaps /\ vault[f] # Unbound
                     \/ \E u \in Uploads : job[u].snap = f /\ job[u].took

\* The plan's R4: a capability ends with its epoch.
UploadsStayInEpoch ==
    \A u \in Uploads : job[u].pc \in {"put"} /\ ~job[u].aborted =>
        job[u].epoch = epoch

\* The encryption plan: files of the resource library are encrypted and sent.
ContractsGranted == \A u \in Uploads : job[u].why # "refused"

=============================================================================
