------------------------ MODULE DeviceAuthorization ------------------------
(***************************************************************************)
(* How the desktop signs in (desktop/src/auth/credential-coordinator.mjs,  *)
(* device-auth-client.mjs and the buttons of desktop/src/renderer/app.jsx):*)
(* a transaction is prepared and written down, the server opens an         *)
(* authorization for it, the user approves or denies it in a browser, the  *)
(* desktop polls until it is given a family of credentials, writes them    *)
(* down and forgets the transaction.  The process may be quit or killed    *)
(* between any two steps and resumes what was written down when it starts  *)
(* again.                                                                  *)
(*                                                                         *)
(* An authorization is named by its number, which is also the name of the  *)
(* family it yields.  Logging out, refreshing and rotating have a module   *)
(* of their own (CredentialCoordinator); here each of them is one step     *)
(* that ends the session.  The removal of a session by the network         *)
(* coordinator's verdict, which may come late, is modelled in full because *)
(* it runs beside an authorization.                                        *)
(***************************************************************************)
EXTENDS Naturals, Sequences

CONSTANTS
    MaxPresses,   \* bound: authorizations the user asks for
    MaxFaults,    \* bound: failed writes, lost answers, verdicts
    MaxStops      \* bound: times the program is quit or killed

VARIABLES
    running,      \* "off", "starting", "up" or "quitting"
    status,       \* of the coordinator
    epoch,        \* operationEpoch
    credential,   \* the family in memory, or 0
    disk,         \* [credential, pending, marker] as the stores hold them
    flow,         \* the authorization under way, or Idle
    online,       \* the network coordinator was started: there was a session
    discard,      \* where discardLocalSession is, or "none"
    server,       \* the server's authorizations, in the order they were opened
    withdrawn,    \* history: authorizations given up by discarding the session
    refused,      \* history: an offered button was pressed in vain
    left          \* what the bounds leave

authorizationVars == <<running, status, epoch, credential, disk, flow, online,
                       discard, server, withdrawn, refused, left>>

\* Every press opens one, and so may every start of the program.
MaxCodes == MaxPresses + MaxStops
None == 0
Nothing == [phase |-> "none", tx |-> 0, code |-> 0]
Idle == [kind |-> "none", at |-> "none", epoch |-> 0, tx |-> 0, code |-> 0]
Statuses == {"unauthenticated", "authorizing", "authenticated", "locked",
             "revoked", "error"}
Steps == {"prepare", "start", "started", "keep", "open", "poll", "issued",
          "probe", "save", "remove"}

TypeOK ==
    /\ running \in {"off", "starting", "up", "quitting"}
    /\ status \in Statuses
    /\ epoch \in Nat
    /\ credential \in 0 .. MaxCodes
    /\ disk \in [credential : 0 .. MaxCodes, marker : BOOLEAN,
                 pending : [phase : {"none", "prepared", "started"},
                            tx : 0 .. MaxPresses, code : 0 .. MaxCodes]]
    /\ flow \in {Idle} \cup
         [kind : {"authorize", "resume"}, at : Steps, epoch : Nat,
          tx : 1 .. MaxPresses, code : 0 .. MaxCodes]
    /\ online \in BOOLEAN
    /\ discard \in {"none", "credential", "pending", "marker"}
    /\ server \in Seq([state : {"pending", "approved", "denied", "consumed"},
                       tx : 0 .. MaxPresses, over : 0 .. 2])
    /\ withdrawn \subseteq 1 .. MaxCodes
    /\ refused \in BOOLEAN
    /\ left \in [presses : 0 .. MaxPresses, faults : 0 .. MaxFaults,
                 stops : 0 .. MaxStops]

AuthorizationInit ==
    /\ running = "off" /\ status = "unauthenticated" /\ epoch = 0
    /\ credential = None
    /\ disk = [credential |-> None, pending |-> Nothing, marker |-> FALSE]
    /\ flow = Idle /\ discard = "none" /\ online = FALSE
    /\ server = <<>> /\ withdrawn = {} /\ refused = FALSE
    /\ left = [presses |-> MaxPresses, faults |-> MaxFaults, stops |-> MaxStops]

Alive == running \notin {"off"}
\* The window takes no command while the program is starting, or while an
\* earlier command runs (commandPending).
Usable == running = "up" /\ flow = Idle /\ discard = "none"
Fault == left.faults > 0 /\ left' = [left EXCEPT !.faults = @ - 1]

-----------------------------------------------------------------------------
\* The server, and the user in the browser.

Fresh == [state |-> "pending", tx |-> 0, over |-> 0]

Decide(c, verdict) ==
    /\ server[c].state = "pending" /\ server[c].over = 0
    /\ server' = [server EXCEPT ![c].state = verdict]
    /\ UNCHANGED <<running, status, epoch, credential, disk, flow, online, discard,
                   withdrawn, refused, left>>

\* over = 1: expired at the server; 2: expired by the client's own clock,
\* which counts from the later moment at which it was told.  For one that was
\* consumed, the server no longer repeats its answer.
Lapse(c) ==
    /\ server[c].over < 2
    /\ server' = [server EXCEPT ![c].over = @ + 1]
    /\ UNCHANGED <<running, status, epoch, credential, disk, flow, online, discard,
                   withdrawn, refused, left>>

-----------------------------------------------------------------------------
\* The process starts, is quit and is killed.

\* initialize, up to resumeAuthorization.  Nothing else runs yet, so that
\* what it reads stays as it is; the removal of a transaction that was
\* completed may fail.
Initialize ==
    /\ running = "off"
    /\ epoch' = epoch + 1
    /\ IF disk.credential = None
       THEN /\ credential' = None
            /\ IF disk.marker
               THEN /\ status' = "locked" /\ running' = "up"
                    /\ UNCHANGED flow
               ELSE IF disk.pending = Nothing
               THEN /\ status' = "unauthenticated" /\ running' = "up"
                    /\ UNCHANGED flow
               ELSE /\ status' = "authorizing" /\ running' = "starting"
                    /\ flow' = [kind |-> "resume", epoch |-> epoch + 1,
                                at |-> IF disk.pending.phase = "prepared"
                                       THEN "start" ELSE "poll",
                                tx |-> disk.pending.tx, code |-> disk.pending.code]
            /\ UNCHANGED <<disk, left>>
       ELSE /\ credential' = disk.credential
            /\ running' = "up"
            /\ \/ /\ disk' = [disk EXCEPT !.pending = Nothing]
                  /\ status' = IF disk.marker THEN "locked" ELSE "authenticated"
                  /\ UNCHANGED left
               \/ /\ disk.pending # Nothing /\ Fault
                  /\ status' = "locked"
                  /\ UNCHANGED disk
            /\ UNCHANGED flow
    /\ online' = (status' = "authenticated")
    /\ UNCHANGED <<discard, server, withdrawn, refused>>

\* dispose -> lock("runtime_disposed"); what was under way goes on until the
\* process is gone.
Quit ==
    /\ running \in {"up", "starting"} /\ left.stops > 0
    /\ running' = "quitting"
    /\ epoch' = epoch + 1
    /\ status' = "locked"
    /\ UNCHANGED <<credential, disk, flow, online, discard, server, withdrawn,
                   refused, left>>

\* The process ends, by itself or killed.
Stop ==
    /\ Alive /\ left.stops > 0
    /\ left' = [left EXCEPT !.stops = @ - 1]
    /\ running' = "off" /\ status' = "unauthenticated"
    /\ credential' = None /\ epoch' = 0
    /\ flow' = Idle /\ discard' = "none" /\ online' = FALSE
    /\ UNCHANGED <<disk, server, withdrawn, refused>>

-----------------------------------------------------------------------------
\* What the window offers.

\* toPublicAuthState: what the window is told.
Public ==
    IF running \in {"off", "starting"} THEN "starting"
    ELSE IF status \in {"revoked", "error"} THEN "reauthorization_required" ELSE status

\* The button that comes with it.
Offered ==
    CASE Public \in {"unauthenticated", "reauthorization_required"} -> "authorize"
      [] Public = "locked" -> "retry"
      [] Public = "authenticated" -> "logout"
      [] OTHER -> "none"

\* runAuthorization up to its first await, or its refusal.
Authorize ==
    /\ Usable /\ Offered = "authorize" /\ left.presses > 0
    /\ left' = [left EXCEPT !.presses = @ - 1]
    /\ IF status = "unauthenticated"
       THEN /\ epoch' = epoch + 1
            /\ credential' = None
            /\ status' = "authorizing"
            /\ flow' = [kind |-> "authorize", at |-> "prepare", code |-> 0,
                        epoch |-> epoch + 1, tx |-> MaxPresses - left.presses + 1]
            /\ refused' = FALSE
       ELSE /\ refused' = TRUE
            /\ UNCHANGED <<epoch, credential, status, flow>>
    /\ UNCHANGED <<running, disk, online, discard, server, withdrawn>>

\* retryPendingRevocation, which fails where no revocation is pending; with a
\* credential it logs out.
Retry ==
    /\ Usable /\ Offered = "retry" /\ disk.marker
    /\ disk' = [disk EXCEPT !.marker = FALSE, !.credential =
                   IF credential = None THEN @ ELSE None]
    /\ credential' = None
    /\ status' = "unauthenticated"
    /\ UNCHANGED <<running, epoch, flow, online, discard, server, withdrawn, refused, left>>

\* runLogout, with and without an answer from the server.
Logout ==
    /\ Usable /\ Offered = "logout"
    /\ epoch' = epoch + 1
    /\ \/ /\ disk' = [credential |-> None, pending |-> Nothing, marker |-> FALSE]
          /\ credential' = None
          /\ status' = "unauthenticated"
          /\ UNCHANGED left
       \/ /\ Fault
          /\ disk' = [disk EXCEPT !.pending = Nothing, !.marker = TRUE]
          /\ status' = "locked"
          /\ UNCHANGED credential
    /\ withdrawn' = withdrawn \cup {credential}
    /\ UNCHANGED <<running, flow, online, discard, server, refused>>

\* A refresh that finds the family revoked, or fails.
SessionEnds ==
    /\ Usable /\ status = "authenticated" /\ Fault
    /\ status' \in {"revoked", "locked"}
    /\ UNCHANGED <<running, epoch, credential, disk, flow, online, discard, server,
                   withdrawn, refused>>

-----------------------------------------------------------------------------
\* discardLocalSession, which the network coordinator calls with a verdict of
\* its own, possibly of an earlier session.

Held == {credential, disk.credential, disk.pending.code, flow.code} \ {0}

Verdict ==
    /\ running = "up" /\ online /\ discard = "none" /\ Fault
    /\ epoch' = epoch + 1
    /\ discard' = "credential"
    /\ withdrawn' = withdrawn \cup Held
    /\ UNCHANGED <<running, status, credential, disk, flow, online, server, refused>>

\* mutateCredential, mutateAuthorization: what the authorization under way has
\* handed to a store comes before the removal, which is asked for later.
Behind == flow.at \in IF discard = "credential" THEN {"save"}
                     ELSE IF discard = "pending" THEN {"prepare", "keep", "remove"}
                     ELSE {}

Discarded(at, next, memory, kept) ==
    /\ Alive /\ discard = at /\ ~Behind
    /\ discard' = next
    /\ credential' = memory
    /\ disk' = kept
    /\ status' = IF next = "none" THEN "unauthenticated" ELSE status
    /\ UNCHANGED <<running, epoch, flow, online, server, withdrawn, refused, left>>

DiscardFails ==
    /\ Alive /\ discard # "none" /\ ~Behind /\ Fault
    /\ discard' = "none"
    /\ status' = "locked"
    /\ UNCHANGED <<running, epoch, credential, disk, flow, online, server, withdrawn,
                   refused>>

Discards ==
    \/ Discarded("credential", "pending", credential,
                 [disk EXCEPT !.credential = None])
    \/ Discarded("pending", "marker", None, [disk EXCEPT !.pending = Nothing])
    \/ Discarded("marker", "none", credential, [disk EXCEPT !.marker = FALSE])

-----------------------------------------------------------------------------
\* runAuthorization, resumeAuthorization and completeAuthorization.

Current == flow.epoch = epoch
Up == IF running = "starting" THEN "up" ELSE running

\* mutant: an error that leaves the status as it is
FailsQuietly(late, code) ==
    /\ flow' = Idle
    /\ running' = Up
    /\ UNCHANGED status

\* catch: the authorization ends with an error.  A late one says nothing of
\* the session any more, except that resumeAuthorization does not tell.
Fails(late, code) ==
    /\ flow' = Idle
    /\ running' = Up
    /\ status' = IF status = "locked" \/ (late /\ flow.kind = "authorize") THEN status
                 ELSE IF code = "idempotency_expired" THEN "revoked" ELSE "error"

Goes(at) ==
    /\ flow' = [flow EXCEPT !.at = at]
    /\ UNCHANGED <<running, status>>

\* An answer arrives, and is thrown away if the epoch has moved on.
Answered(at) == IF Current THEN Goes(at) ELSE Fails(TRUE, "stale_operation")

\* mutant: the transaction is kept in memory only
Unwritten(record, at) ==
    /\ Goes(at)
    /\ UNCHANGED <<disk, left>>

\* savePendingAuthorization: locked when it fails; what the file then holds is
\* AuthorizationStore's matter.
Write(record, at) ==
    \/ /\ disk' = [disk EXCEPT !.pending = record]
       /\ Goes(at)
       /\ UNCHANGED left
    \/ /\ Fault
       /\ status' = "locked" /\ flow' = Idle /\ running' = Up
       /\ disk' \in {disk, [disk EXCEPT !.pending = record]}

Prepare ==
    /\ flow.at = "prepare"
    /\ Write([phase |-> "prepared", tx |-> flow.tx, code |-> 0], "start")
    /\ UNCHANGED <<server, credential>>

\* startAuthorization, and its answer.
Start ==
    /\ flow.at = "start"
    /\ server' = Append(server, Fresh)
    /\ \/ /\ flow' = [flow EXCEPT !.at = "started", !.code = Len(server) + 1]
          /\ UNCHANGED <<running, status, left>>
       \/ Fault /\ Fails(FALSE, "network_error")
    /\ UNCHANGED <<disk, credential>>

Started ==
    /\ flow.at = "started"
    /\ IF flow.kind = "resume" THEN Goes("keep") ELSE Answered("keep")
    /\ UNCHANGED <<disk, server, credential, left>>

Keep ==
    /\ flow.at = "keep"
    /\ Write([phase |-> "started", tx |-> flow.tx, code |-> flow.code],
             IF flow.kind = "resume" THEN "poll" ELSE "open")
    /\ UNCHANGED <<server, credential>>

\* openExternal: the browser may not open.
Open ==
    /\ flow.at = "open"
    /\ \/ Goes("poll") /\ UNCHANGED left
       \/ Fault /\ Fails(FALSE, "authorization_failed")
    /\ UNCHANGED <<disk, server, credential>>

Entry == server[flow.code]

\* What exchange answers to a poll that is not early.
Exchange ==
    IF Entry.state = "consumed"
    THEN IF Entry.tx # flow.tx THEN "exchange_transaction_mismatch"
         ELSE IF Entry.over > 0 THEN "idempotency_expired" ELSE "issued"
    ELSE IF Entry.over > 0 THEN "authorization_expired"
    ELSE CASE Entry.state = "denied" -> "authorization_denied"
           [] Entry.state = "approved" -> "issued"
           [] OTHER -> "authorization_pending"

\* pollAuthorization: one exchange, after which it sleeps again, is given the
\* credentials or gives up.
Poll ==
    /\ flow.at = "poll" /\ Entry.over < 2
    /\ Exchange # "authorization_pending"
    /\ IF Exchange = "issued"
       THEN /\ server' = [server EXCEPT ![flow.code].state = "consumed",
                                        ![flow.code].tx = flow.tx]
            /\ \/ Goes("issued") /\ UNCHANGED left
               \/ Fault /\ Fails(FALSE, "network_error")
       ELSE /\ Fails(FALSE, Exchange)
            /\ UNCHANGED <<server, left>>
    /\ UNCHANGED <<disk, credential>>

\* The code's own clock runs out: authorization_expired.
PollExpires ==
    /\ flow.at = "poll" /\ Entry.over = 2
    /\ Fails(FALSE, "authorization_expired")
    /\ UNCHANGED <<disk, server, credential, left>>

Issued ==
    /\ flow.at = "issued"
    /\ Answered("probe")
    /\ UNCHANGED <<disk, server, credential, left>>

\* client.probe gives the user the credentials belong to.
Probe ==
    /\ flow.at = "probe"
    /\ \/ Answered("save") /\ UNCHANGED left
       \/ Fault /\ Fails(FALSE, "network_error")
    /\ UNCHANGED <<disk, server, credential>>

Save ==
    /\ flow.at = "save"
    /\ \/ /\ disk' = [disk EXCEPT !.credential = flow.code]
          /\ Goes("remove")
          /\ UNCHANGED left
       \/ /\ Fault
          /\ status' = "locked" /\ flow' = Idle /\ running' = Up
          /\ disk' \in {disk, [disk EXCEPT !.credential = flow.code]}
    /\ UNCHANGED <<server, credential>>

\* The transaction is forgotten; the session is taken over only now, and only
\* if nothing else happened since the authorization began.
Remove ==
    /\ flow.at = "remove"
    /\ \/ /\ disk' = [disk EXCEPT !.pending = Nothing]
          /\ IF Current
             THEN /\ credential' = flow.code
                  /\ status' = "authenticated"
                  /\ flow' = Idle /\ running' = Up
             ELSE /\ Fails(TRUE, "stale_operation")
                  /\ UNCHANGED credential
          /\ UNCHANGED left
       \/ /\ Fault
          /\ status' = "locked" /\ flow' = Idle /\ running' = Up
          /\ disk' \in {disk, [disk EXCEPT !.pending = Nothing]}
          /\ UNCHANGED credential
    /\ UNCHANGED server

FlowStep == \/ Prepare \/ Start \/ Started \/ Keep \/ Open \/ Poll
            \/ PollExpires \/ Issued \/ Probe \/ Save \/ Remove

Flows ==
    /\ Alive /\ flow # Idle
    /\ FlowStep
    /\ online' = (online \/ status' = "authenticated")
    /\ UNCHANGED <<epoch, discard, withdrawn, refused>>

-----------------------------------------------------------------------------
Expires == \E c \in 1 .. Len(server) : Lapse(c)

AuthorizationNext ==
    \/ Initialize \/ Quit \/ Stop
    \/ Authorize \/ Retry \/ Logout \/ SessionEnds
    \/ Verdict \/ DiscardFails \/ Discards
    \/ Flows
    \/ \E c \in 1 .. Len(server), v \in {"approved", "denied"} : Decide(c, v)
    \/ Expires

\* An answer or a file operation that is awaited comes, as an error at the
\* latest (request timeouts), and time passes.
AuthorizationFairness ==
    /\ WF_authorizationVars(Flows)
    /\ WF_authorizationVars(Discards)
    /\ WF_authorizationVars(Expires)

AuthorizationSpec ==
    AuthorizationInit /\ [][AuthorizationNext]_authorizationVars /\ AuthorizationFairness

-----------------------------------------------------------------------------
Recoverable(c) ==
    \/ disk.credential = c
    \/ disk.pending.code = c /\ disk.pending.tx = server[c].tx

\* Credentials the server has handed out for an approved authorization are
\* never lost by a crash, a lost answer or a failed write: they are on disk,
\* or the transaction is that asks for them again - until the session is
\* given up, or the server stops repeating its answer.
IssuedIsKept ==
    \A c \in 1 .. Len(server) :
        server[c].state = "consumed" /\ server[c].over = 0 /\ c \notin withdrawn
            => Recoverable(c)

\* "Waiting for authorization" never stays: it ends in a session, in an error
\* or with the process.
AuthorizationSettles == (status = "authorizing") ~> (status # "authorizing")

\* A button the window offers works: "start authorization" is never refused.
OffersWork == ~refused
=============================================================================
