----------------------- MODULE CredentialCoordinator -----------------------
(***************************************************************************)
(* The desktop's credential coordinator                                    *)
(* (desktop/src/auth/credential-coordinator.mjs) and the server it rotates *)
(* its refresh credential with, once a first credential has been issued.   *)
(*                                                                         *)
(* The coordinator is one JavaScript object on one thread.  Its async      *)
(* functions interleave at their awaits: an action below runs from one     *)
(* await to the next.  Each function that may be under way is a flow, and  *)
(* flow[f] holds where it waits and its local variables.  Credential store *)
(* writes go through credentialMutationTail, a FIFO queue; requests travel *)
(* on the wire and may be lost, or served after their sender gave up.      *)
(*                                                                         *)
(* operationEpoch is only ever compared with a value captured earlier, so  *)
(* it is modelled by marking the flows that captured an older one stale.   *)
(*                                                                         *)
(* The pending-authorization store belongs to the authorization flow,      *)
(* which is not part of this module: its removal always succeeds here.     *)
(***************************************************************************)
EXTENDS Naturals, Sequences, FiniteSets

CONSTANTS
    MaxTxn,         \* bound: transaction ids ever drawn (randomUUID)
    Scenarios       \* bounds: how many transaction ids, how many faults
                    \* (crashes, quits, lost requests, failed writes), and
                    \* what the environment may do, see AllEvents

\* "early": the host asks for a lease while initialize() still runs; "logout":
\* the user logs out; "revoke": the family is revoked from the browser;
\* "deactivate": an administrator disables or enables the user; "lapse": a
\* refresh credential or a rotation result outlives its lifetime; "drop": the
\* connection of the event stream breaks off.
AllEvents == {"early", "logout", "revoke", "deactivate", "lapse", "drop"}

ASSUME CoordinatorBounds ==
    /\ MaxTxn \in Nat \ {0}
    /\ Scenarios \subseteq [txns : 1 .. MaxTxn, faults : Nat,
                            events : SUBSET AllEvents]

Txns == 1 .. MaxTxn
NoTxn == 0

\* Every generation is the work of a transaction of its own.
MaxGeneration == MaxTxn - 1

VARIABLES
    \* the server
    famStatus, holder, \* the credential family, as CredentialFamily has it
    userActive,
    lapsed,            \* the newest refresh credential is past its lifetime
    refused,           \* history: this run of the process has been answered
                       \* user_inactive, which leaves the family as it is
    \* files, which survive a crash
    disk,              \* the credential record
    marker,            \* the pending-revocation marker
    \* the coordinator's variables
    credential, access, status,
    \* what is under way
    phase,             \* "down", "running" or "disposed"
    booted,            \* initialize() has returned
    flow, queue, wire,
    minted,            \* transaction ids drawn
    left               \* what is left of the scenario's bounds

serverVars == <<famStatus, holder, userActive, lapsed, refused>>
fileVars == <<disk, marker>>
memoryVars == <<credential, access, status>>
hostVars == <<phase, booted>>
boundVars == <<minted, left>>
vars == <<serverVars, fileVars, memoryVars, hostVars, flow, queue, wire,
          boundVars>>

Server == INSTANCE CredentialFamily
    WITH status <- famStatus

-----------------------------------------------------------------------------

Generations == 0 .. MaxGeneration
NoGen == MaxGeneration + 1

\* A credential record, reduced to its generation and pendingRotation.  A
\* pending rotation's sourceGeneration is the record's own generation.
Credentials == [gen : Generations, pending : Txns \cup {NoTxn}]
NoCredential == [gen |-> NoGen, pending |-> NoTxn]

Flows == {"init", "refresh", "logout", "retry", "discard"}

\* lockedPR is status "locked" with reason "pending_revocation".
Statuses == {"unauthenticated", "authenticated", "refreshing", "locked",
             "lockedPR", "revoked"}
Blocked == {"locked", "lockedPR", "revoked"}

Steps == {"idle", "load", "cleanup",                      \* initialize
          "rotSave", "rotWait", "rotCommit",              \* rotate
          "mark", "marked", "failRemove", "logoutWait",   \* runLogout
          "remove", "clear",
          "check", "retryClear", "retryWait",             \* runPendingRevocation
          "probe",                                        \* the network loop
          "discRemove", "discClear"}                      \* discardLocalSession

\* rotate() sorts a failure into these classes.
Classes == {"ok", "revoked", "transient", "stale"}

Idle == [pc |-> "idle", stale |-> FALSE, src |-> NoGen, txn |-> NoTxn,
         tok |-> NoGen, reply |-> "none", out |-> "none"]

At(pc) == [Idle EXCEPT !.pc = pc]

\* f returned, or threw: only a logout has another flow waiting for it.
Ended(f, out) == IF f = "logout" THEN [Idle EXCEPT !.out = out] ELSE Idle

Replies == {"none", "issued", "refresh_expired", "recovery_failed",
            "refresh_replay", "family_revoked", "user_inactive",
            "invalid_device_access", "logged_out", "network_error"}

\* REVOKED_CODES, and the client's securityFailure codes.
RevokedCodes == {"recovery_failed", "refresh_replay", "family_revoked",
                 "user_inactive"}

TypeOK ==
    /\ famStatus \in {"active", "revoked"}
    /\ holder \in [Generations -> Txns \cup {NoTxn}]
    /\ userActive \in BOOLEAN /\ lapsed \in BOOLEAN /\ refused \in BOOLEAN
    /\ disk \in Credentials \cup {NoCredential}
    /\ marker \in BOOLEAN
    /\ credential \in Credentials \cup {NoCredential}
    /\ access \in Generations \cup {NoGen}
    /\ status \in Statuses
    /\ phase \in {"down", "running", "disposed"}
    /\ booted \in BOOLEAN
    /\ flow \in [Flows -> [pc : Steps, stale : BOOLEAN,
                           src : Generations \cup {NoGen},
                           txn : Txns \cup {NoTxn},
                           tok : Generations \cup {NoGen},
                           reply : Replies, out : {"none", "ok", "throw"}]]
    /\ queue \in Seq([by : Flows, op : {"save", "remove"},
                      value : Credentials \cup {NoCredential}])
    /\ wire \subseteq [kind : {"refresh", "logout"}, gen : Generations,
                       txn : Txns \cup {NoTxn}, by : Flows \cup {"nobody"}]
    /\ minted \in 0 .. MaxTxn
    /\ left \in [txns : 1 .. MaxTxn, faults : Nat, events : SUBSET AllEvents]

\* The process starts with the record a first exchange left on disk.
Init ==
    /\ famStatus = "active"
    /\ holder = [g \in Generations |-> IF g = 0 THEN 1 ELSE NoTxn]
    /\ userActive = TRUE
    /\ lapsed = FALSE
    /\ refused = FALSE
    /\ disk = [gen |-> 0, pending |-> NoTxn]
    /\ marker = FALSE
    /\ credential = NoCredential
    /\ access = NoGen
    /\ status = "unauthenticated"
    /\ phase = "down"
    /\ booted = FALSE
    /\ flow = [f \in Flows |-> Idle]
    /\ queue = <<>>
    /\ wire = {}
    /\ minted = 1
    /\ left \in Scenarios

Fault == left.faults > 0 /\ left' = [left EXCEPT !.faults = @ - 1]
NoFault == UNCHANGED left

\* operationEpoch += 1
StaleAll(fl) ==
    [f \in Flows |-> [fl[f] EXCEPT !.stale = (fl[f].pc # "idle")]]

Memory(c, a, s) == credential' = c /\ access' = a /\ status' = s

SaveBy(f, c) == [by |-> f, op |-> "save", value |-> c]
RemoveBy(f) == [by |-> f, op |-> "remove", value |-> NoCredential]

RefreshRequest(f, g, txn) ==
    [kind |-> "refresh", gen |-> g, txn |-> txn, by |-> f]
LogoutRequest(f, g) ==
    [kind |-> "logout", gen |-> g, txn |-> NoTxn, by |-> f]

-----------------------------------------------------------------------------
\* What a flow does when the operation it awaited ends.  c, a and s are the
\* coordinator's variables at that point, fl and q the flows and the queue.

\* discardLocalSession up to its first await.
BeginDiscard(f, c, s, fl, q) ==
    /\ Memory(c, NoGen, s)
    /\ flow' = [StaleAll(fl) EXCEPT ![f] = At("discRemove")]
    /\ queue' = Append(q, RemoveBy(f))

\* An error thrown inside f.  initialize and refresh leave the state that
\* rotate chose; runLogout and runPendingRevocation discard a session proved
\* dead and otherwise stay locked until the revocation is retried.
Throw(f, class, c, a, s, fl, q) ==
    CASE f \in {"init", "refresh", "discard"} ->
           /\ Memory(c, a, s)
           /\ flow' = [fl EXCEPT ![f] = Ended(f, "throw")]
           /\ queue' = q
      [] f \in {"logout", "retry"} /\ (s = "revoked" \/ class = "revoked") ->
           BeginDiscard(f, c, s, fl, q)
      [] OTHER ->
           /\ Memory(c, a, "lockedPR")
           /\ flow' = [fl EXCEPT ![f] = Ended(f, "throw")]
           /\ queue' = q

\* runLogout up to its first await, with the access token a.
LogoutFrom(fl, a) ==
    [StaleAll(fl) EXCEPT !["logout"] = [Idle EXCEPT !.pc = "mark", !.tok = a]]

\* rotate() returned with generation c.gen committed.  A logout waiting for
\* it takes the new access token; a pending revocation goes on to logout(),
\* or joins the one under way.
Returned(f, c, q) ==
    /\ queue' = q
    /\ CASE f \in {"init", "refresh"} ->
              /\ Memory(c, c.gen, "authenticated")
              /\ flow' = [flow EXCEPT ![f] = Ended(f, "ok")]
              /\ UNCHANGED wire
         [] f = "logout" ->
              /\ Memory(c, NoGen, "lockedPR")
              /\ flow' = [flow EXCEPT ![f] = At("logoutWait")]
              /\ wire' = wire \cup {LogoutRequest(f, c.gen)}
         [] f = "retry" /\ flow["logout"].pc = "idle" ->
              /\ Memory(c, NoGen, "lockedPR")
              /\ flow' = [LogoutFrom(flow, c.gen) EXCEPT ![f] = At("retryWait")]
              /\ UNCHANGED wire
         [] OTHER ->
              /\ Memory(c, c.gen, "authenticated")
              /\ flow' = [flow EXCEPT ![f] = At("retryWait")]
              /\ UNCHANGED wire

-----------------------------------------------------------------------------
\* rotate({ recovery, allowLocked })

\* The flow of a rotation of the record in memory under transaction txn.
RotationFrom(f, pc, txn) ==
    [flow EXCEPT ![f] = [@ EXCEPT !.pc = pc, !.stale = FALSE,
                                  !.src = credential.gen, !.txn = txn,
                                  !.reply = "none"]]

\* (mutant) the request goes out without its transaction being on disk.
BeginRotateUnsaved(f, recovery) ==
    LET txn == IF recovery THEN credential.pending ELSE minted + 1
    IN  /\ Memory([credential EXCEPT !.pending = txn], access, "refreshing")
        /\ minted' = IF recovery THEN minted ELSE txn
        /\ flow' = RotationFrom(f, "rotWait", txn)
        /\ wire' = wire \cup {RefreshRequest(f, credential.gen, txn)}
        /\ UNCHANGED queue

\* With recovery, the pending transaction on record is sent again; without,
\* a new one is drawn and must be on disk before it is sent.
BeginRotate(f, recovery) ==
    IF recovery
    THEN /\ status' = "refreshing"
         /\ flow' = RotationFrom(f, "rotWait", credential.pending)
         /\ wire' = wire \cup
              {RefreshRequest(f, credential.gen, credential.pending)}
         /\ UNCHANGED <<credential, access, queue, minted>>
    ELSE /\ minted' = minted + 1
         /\ flow' = RotationFrom(f, "rotSave", minted')
         /\ queue' = Append(queue, SaveBy(f, [credential EXCEPT !.pending = minted']))
         /\ UNCHANGED <<memoryVars, wire>>

\* The pending transaction is on disk.  The epoch is not looked at here.
RotateSend(f) ==
    /\ Memory(Head(queue).value, access, "refreshing")
    /\ flow' = [flow EXCEPT ![f].pc = "rotWait"]
    /\ queue' = Tail(queue)
    /\ wire' = wire \cup {RefreshRequest(f, flow[f].src, flow[f].txn)}

\* The rotated record is on disk: it is used unless the epoch moved on.
RotateCommit(f) ==
    IF flow[f].stale
    THEN Throw(f, "stale", credential, NoGen, status, flow, Tail(queue))
            /\ UNCHANGED wire
    ELSE Returned(f, Head(queue).value, Tail(queue))

\* (mutant) an answer that came too late leaves its caller waiting.
RotateAnsweredLateHangs(f) ==
    LET reply == flow[f].reply
        matches == ~flow[f].stale /\ credential.gen = flow[f].src
                       /\ credential.pending = flow[f].txn
    IN  /\ flow[f].pc = "rotWait"
        /\ reply # "none"
        /\ \/ /\ reply = "issued"
              /\ matches
              /\ flow' = [flow EXCEPT ![f] = [@ EXCEPT !.pc = "rotCommit",
                                                       !.reply = "none"]]
              /\ queue' = Append(queue,
                    SaveBy(f, [gen |-> flow[f].src + 1, pending |-> NoTxn]))
              /\ UNCHANGED memoryVars
           \/ /\ reply # "issued"
              /\ Throw(f, IF reply \in RevokedCodes THEN "revoked" ELSE "transient",
                       credential, NoGen,
                       IF reply \in RevokedCodes THEN "revoked" ELSE "locked",
                       flow, queue)
        /\ booted' = (booted \/ (f = "init" /\ flow'[f].pc = "idle"))
        /\ UNCHANGED <<serverVars, fileVars, phase, wire, boundVars>>

\* client.refresh() settled.
RotateAnswered(f) ==
    LET reply == flow[f].reply
        matches == /\ ~flow[f].stale
                   /\ credential.gen = flow[f].src
                   /\ credential.pending = flow[f].txn
    IN  /\ flow[f].pc = "rotWait"
        /\ reply # "none"
        /\ \/ /\ reply = "issued"
              /\ matches
              /\ flow' = [flow EXCEPT ![f] = [@ EXCEPT !.pc = "rotCommit",
                                                       !.reply = "none"]]
              /\ queue' = Append(queue,
                    SaveBy(f, [gen |-> flow[f].src + 1, pending |-> NoTxn]))
              /\ UNCHANGED memoryVars
           \/ /\ reply = "issued"
              /\ ~matches
              /\ Throw(f, "stale", credential, NoGen, status, flow, queue)
           \/ /\ reply \in RevokedCodes
              /\ Throw(f, "revoked", credential, NoGen, "revoked", flow, queue)
           \/ /\ reply \notin RevokedCodes \cup {"issued"}
              /\ Throw(f, "transient", credential, NoGen,
                       IF status = "lockedPR" THEN status ELSE "locked",
                       flow, queue)
        /\ booted' = (booted \/ (f = "init" /\ flow'[f].pc = "idle"))
        /\ UNCHANGED <<serverVars, fileVars, phase, wire, boundVars>>

-----------------------------------------------------------------------------
\* credentialMutationTail: the write at the head of the queue ends, and the
\* flow that awaits it goes on.

StoreSucceeds ==
    LET op == Head(queue)
        f == op.by
    IN  /\ queue # <<>>
        /\ disk' = op.value
        /\ \/ flow[f].pc = "rotSave" /\ RotateSend(f)
           \/ flow[f].pc = "rotCommit" /\ RotateCommit(f)
           \/ /\ flow[f].pc = "failRemove"
              /\ Memory(NoCredential, access, "locked")
              /\ flow' = [flow EXCEPT ![f] = Ended(f, "throw")]
              /\ queue' = Tail(queue)
              /\ UNCHANGED wire
           \/ /\ flow[f].pc = "remove"
              /\ flow' = [flow EXCEPT ![f] = At("clear")]
              /\ queue' = Tail(queue)
              /\ UNCHANGED <<memoryVars, wire>>
           \/ /\ flow[f].pc = "discRemove"
              /\ Memory(NoCredential, access, status)
              /\ flow' = [flow EXCEPT ![f] = At("discClear")]
              /\ queue' = Tail(queue)
              /\ UNCHANGED wire
        /\ booted' = (booted \/ (f = "init" /\ flow'[f].pc = "idle"))
        /\ UNCHANGED <<serverVars, marker, phase, boundVars>>

\* (mutant) rotate() commits the rotated record without looking at whether it
\* was saved.
StoreFailsUnnoticed ==
    LET f == Head(queue).by
    IN  /\ queue # <<>>
        /\ Fault
        /\ flow[f].pc = "rotCommit"
        /\ RotateCommit(f)
        /\ booted' = (booted \/ (f = "init" /\ flow'[f].pc = "idle"))
        /\ UNCHANGED <<serverVars, fileVars, phase, minted>>

\* A write that failed may have reached the disk all the same.
StoreFails ==
    LET f == Head(queue).by
        rest == Tail(queue)
    IN  /\ queue # <<>>
        /\ Fault
        /\ disk' \in {disk, Head(queue).value}
        /\ \/ /\ flow[f].pc \in {"rotSave", "rotCommit"}
              /\ Throw(f, "transient", credential, NoGen, "locked", flow, rest)
           \/ /\ flow[f].pc = "remove"
              /\ Throw(f, "transient", credential, access, status, flow, rest)
           \/ /\ flow[f].pc \in {"failRemove", "discRemove"}
              /\ Memory(credential, access, "locked")
              /\ flow' = [flow EXCEPT ![f] = Ended(f, "throw")]
              /\ queue' = rest
        /\ booted' = (booted \/ (f = "init" /\ flow'[f].pc = "idle"))
        /\ UNCHANGED <<serverVars, marker, phase, wire, minted>>

-----------------------------------------------------------------------------
\* initialize()

\* The marker and the credential record are read.
InitLoad ==
    /\ flow["init"].pc = "load"
    /\ credential' = disk
    /\ access' = NoGen
    /\ \/ /\ disk = NoCredential
          /\ status' = IF marker THEN "lockedPR" ELSE "unauthenticated"
          /\ flow' = [flow EXCEPT !["init"] = Ended("init", "ok")]
          /\ booted' = TRUE
       \/ /\ disk # NoCredential
          /\ flow' = [flow EXCEPT !["init"].pc = "cleanup"]
          /\ UNCHANGED <<status, booted>>
    /\ UNCHANGED <<serverVars, fileVars, phase, queue, wire, boundVars>>

\* (mutant) the recovery draws a new transaction.
InitResumeNewTransaction ==
    /\ flow["init"].pc = "cleanup"
    /\ ~flow["init"].stale
    /\ minted < left.txns
    /\ BeginRotate("init", FALSE)
    /\ NoFault
    /\ UNCHANGED <<serverVars, fileVars, hostVars>>

\* The record was there; any pending authorization has been removed.  The
\* recovery rotation is not registered as refreshFlight.
InitResume ==
    /\ flow["init"].pc = "cleanup"
    /\ ~flow["init"].stale
    /\ \/ /\ marker
          /\ status' = "lockedPR"
          /\ flow' = [flow EXCEPT !["init"] = Ended("init", "ok")]
          /\ booted' = TRUE
          /\ UNCHANGED <<credential, access, queue, wire, minted>>
       \/ /\ ~marker
          /\ credential.pending # NoTxn
          /\ BeginRotate("init", TRUE)
          /\ UNCHANGED booted
       \/ /\ ~marker
          /\ credential.pending = NoTxn
          /\ status' = "authenticated"
          /\ flow' = [flow EXCEPT !["init"] = Ended("init", "ok")]
          /\ booted' = TRUE
          /\ UNCHANGED <<credential, access, queue, wire, minted>>
    /\ NoFault
    /\ UNCHANGED <<serverVars, fileVars, phase>>

\* The record cannot be read, or the pending authorization not be removed.
InitFails ==
    /\ flow["init"].pc \in {"load", "cleanup"}
    /\ ~flow["init"].stale
    /\ Fault
    /\ Memory(credential, NoGen, "locked")
    /\ flow' = [flow EXCEPT !["init"] = Ended("init", "ok")]
    /\ booted' = TRUE
    /\ UNCHANGED <<serverVars, fileVars, phase, queue, wire, minted>>

-----------------------------------------------------------------------------
\* getAccessLease and refreshAccess: the network loop and every request the
\* renderer makes may find no access token, or one about to expire.

\* The bound on transaction ids, as a guard of the operations that lead to
\* one being drawn: an operation once started is never cut short by it.  A
\* retry without a marker draws none.
MayDraw ==
    minted + Cardinality({f \in Flows : flow[f].pc \in {"mark", "marked", "check"}})
        < left.txns

HostReady == phase = "running" /\ (booted \/ "early" \in left.events)

Refresh ==
    /\ HostReady
    /\ flow["refresh"].pc = "idle"
    /\ credential # NoCredential
    /\ status \notin Blocked
    /\ MayDraw
    /\ BeginRotate("refresh", FALSE)
    /\ NoFault
    /\ UNCHANGED <<serverVars, fileVars, hostVars>>

-----------------------------------------------------------------------------
\* logout(): the renderer offers it while the public state is authenticated.

Logout ==
    /\ HostReady
    /\ "logout" \in left.events
    /\ status \in {"authenticated", "refreshing"}
    /\ flow["logout"].pc = "idle"
    /\ MayDraw
    /\ Memory(credential, NoGen, "lockedPR")
    /\ flow' = LogoutFrom(flow, access)
    /\ UNCHANGED <<serverVars, fileVars, hostVars, queue, wire, boundVars>>

\* The marker is on disk, and any pending authorization is removed next.
LogoutMarked ==
    /\ flow["logout"].pc = "mark"
    /\ marker' = TRUE
    /\ flow' = [flow EXCEPT !["logout"].pc = "marked"]
    /\ UNCHANGED <<serverVars, disk, memoryVars, hostVars, queue, wire,
                   boundVars>>

\* Without an access token one is rotated for first.
LogoutSend ==
    /\ flow["logout"].pc = "marked"
    /\ \/ /\ flow["logout"].tok # NoGen
          /\ flow' = [flow EXCEPT !["logout"] = At("logoutWait")]
          /\ wire' = wire \cup {LogoutRequest("logout", flow["logout"].tok)}
          /\ UNCHANGED <<memoryVars, queue, minted>>
       \/ /\ flow["logout"].tok = NoGen
          /\ credential # NoCredential
          /\ BeginRotate("logout", credential.pending # NoTxn)
       \/ /\ flow["logout"].tok = NoGen
          /\ credential = NoCredential
          /\ Throw("logout", "transient", credential, access, status, flow, queue)
          /\ UNCHANGED <<wire, minted>>
    /\ NoFault
    /\ UNCHANGED <<serverVars, fileVars, hostVars>>

\* The marker cannot be written: the record is destroyed instead.
LogoutMarkFails ==
    /\ flow["logout"].pc = "mark"
    /\ Fault
    /\ marker' \in {marker, TRUE}
    /\ flow' = [flow EXCEPT !["logout"] = At("failRemove")]
    /\ queue' = Append(queue, RemoveBy("logout"))
    /\ UNCHANGED <<serverVars, disk, memoryVars, hostVars, wire, minted>>

\* (mutant) whatever client.logout() failed with is taken for a dead session.
LogoutAnsweredGivesUp ==
    LET reply == flow["logout"].reply
    IN  /\ flow["logout"].pc = "logoutWait"
        /\ reply # "none"
        /\ IF reply = "logged_out"
           THEN /\ flow' = [flow EXCEPT !["logout"] = At("remove")]
                /\ queue' = Append(queue, RemoveBy("logout"))
                /\ UNCHANGED memoryVars
           ELSE BeginDiscard("logout", credential, status, flow, queue)
        /\ UNCHANGED <<serverVars, fileVars, hostVars, wire, boundVars>>

\* client.logout() settled.
LogoutAnswered ==
    LET reply == flow["logout"].reply
    IN  /\ flow["logout"].pc = "logoutWait"
        /\ reply # "none"
        /\ IF reply = "logged_out"
           THEN /\ flow' = [flow EXCEPT !["logout"] = At("remove")]
                /\ queue' = Append(queue, RemoveBy("logout"))
                /\ UNCHANGED memoryVars
           ELSE Throw("logout",
                      IF reply \in RevokedCodes THEN "revoked" ELSE "transient",
                      credential, access, status, flow, queue)
        /\ UNCHANGED <<serverVars, fileVars, hostVars, wire, boundVars>>

\* The last write of a logout or of discardLocalSession.
MarkerCleared(f) ==
    /\ flow[f].pc \in {"clear", "discClear", "retryClear"}
    /\ marker' = FALSE
    /\ Memory(IF flow[f].pc = "clear" THEN NoCredential ELSE credential,
              access, "unauthenticated")
    /\ flow' = [flow EXCEPT ![f] = Ended(f, "ok")]
    /\ UNCHANGED <<serverVars, disk, hostVars, queue, wire, boundVars>>

MarkerClearFails(f) ==
    /\ flow[f].pc \in {"clear", "discClear", "retryClear"}
    /\ Fault
    /\ marker' \in {marker, FALSE}
    /\ CASE flow[f].pc = "clear" ->
              Throw(f, "transient", credential, access, status, flow, queue)
         [] flow[f].pc = "discClear" ->
              /\ Memory(credential, access, "locked")
              /\ flow' = [flow EXCEPT ![f] = Ended(f, "throw")]
              /\ UNCHANGED queue
         [] OTHER ->
              /\ flow' = [flow EXCEPT ![f] = Ended(f, "throw")]
              /\ UNCHANGED <<memoryVars, queue>>
    /\ UNCHANGED <<serverVars, disk, hostVars, wire, minted>>

-----------------------------------------------------------------------------
\* retryPendingRevocation(): the renderer's "retry" while the session is
\* locked, for whatever reason it is locked.

Retry ==
    /\ HostReady
    /\ status \in {"locked", "lockedPR"}
    /\ flow["retry"].pc = "idle"
    /\ (~marker /\ flow["logout"].pc = "idle") \/ MayDraw
    /\ flow' = [flow EXCEPT !["retry"] = At("check")]
    /\ UNCHANGED <<serverVars, fileVars, memoryVars, hostVars, queue, wire,
                   boundVars>>

RetryChecked ==
    /\ flow["retry"].pc = "check"
    /\ \/ /\ ~marker
          /\ flow' = [flow EXCEPT !["retry"] = Ended("retry", "throw")]
          /\ UNCHANGED <<memoryVars, queue, wire, minted>>
       \/ /\ marker
          /\ credential = NoCredential
          /\ flow' = [flow EXCEPT !["retry"] = At("retryClear")]
          /\ UNCHANGED <<memoryVars, queue, wire, minted>>
       \/ /\ marker
          /\ credential # NoCredential
          /\ access = NoGen
          /\ BeginRotate("retry", credential.pending # NoTxn)
       \/ /\ marker
          /\ credential # NoCredential
          /\ access # NoGen
          /\ IF flow["logout"].pc = "idle"
             THEN /\ Memory(credential, NoGen, "lockedPR")
                  /\ flow' = [LogoutFrom(flow, access) EXCEPT
                                 !["retry"] = At("retryWait")]
             ELSE /\ flow' = [flow EXCEPT !["retry"] = At("retryWait")]
                  /\ UNCHANGED memoryVars
          /\ UNCHANGED <<queue, wire, minted>>
    /\ NoFault
    /\ UNCHANGED <<serverVars, fileVars, hostVars>>

\* The logout that retryPendingRevocation awaits has ended.
RetryJoined ==
    /\ flow["retry"].pc = "retryWait"
    /\ flow["logout"].pc = "idle"
    /\ IF flow["logout"].out = "throw"
       THEN Throw("retry", "transient", credential, access, status, flow, queue)
       ELSE /\ flow' = [flow EXCEPT !["retry"] = Ended("retry", "ok")]
            /\ UNCHANGED <<memoryVars, queue>>
    /\ UNCHANGED <<serverVars, fileVars, hostVars, wire, boundVars>>

-----------------------------------------------------------------------------
\* discardLocalSession(), called by the network loop (network-coordinator.mjs)
\* when a probe is told that the user is inactive, and when the event stream
\* fails in the middle.  The loop is the flow "discard".

\* A probe is sent with a live access token.
Probe ==
    /\ HostReady
    /\ "deactivate" \in left.events
    /\ status \in {"authenticated", "refreshing"}
    /\ access # NoGen
    /\ flow["discard"].pc = "idle"
    /\ flow' = [flow EXCEPT !["discard"] = At("probe")]
    /\ UNCHANGED <<serverVars, fileVars, memoryVars, hostVars, queue, wire,
                   boundVars>>

\* The probe after a 401 is not compared with the loop's generation again, so
\* its answer is acted on whatever has become of the session meanwhile.
ProbeAnswered ==
    /\ flow["discard"].pc = "probe"
    /\ \/ /\ ~userActive
          /\ phase = "running"
          /\ BeginDiscard("discard", credential, status, flow, queue)
       \/ /\ flow' = [flow EXCEPT !["discard"] = Idle]
          /\ UNCHANGED <<memoryVars, queue>>
    /\ UNCHANGED <<serverVars, fileVars, hostVars, wire, boundVars>>

\* The connection breaks off while the event stream is read: sse-client.mjs
\* reports invalid_stream, which the loop takes for a security failure.
StreamBreaks ==
    /\ HostReady
    /\ "drop" \in left.events
    /\ status \in {"authenticated", "refreshing"}
    /\ access # NoGen
    /\ flow["discard"].pc = "idle"
    /\ Fault
    /\ BeginDiscard("discard", credential, status, flow, queue)
    /\ UNCHANGED <<serverVars, fileVars, hostVars, wire, minted>>

-----------------------------------------------------------------------------
\* The server, and the requests in flight.

\* What the server may answer a refresh request, and what it does to it.
RefreshAnswer(g, txn, answer) ==
    \/ /\ ~userActive
       /\ answer = "user_inactive"
       /\ UNCHANGED <<famStatus, holder>>
    \/ /\ userActive
       /\ Server!Rotate(g, txn, answer)
       /\ answer = "refresh_expired" => lapsed
       /\ answer = "issued" /\ Server!IsTip(g) => ~lapsed
       /\ answer = "recovery_failed" => "lapse" \in left.events

LogoutAnswer(g, answer) ==
    \/ /\ ~userActive
       /\ answer = "user_inactive"
       /\ UNCHANGED <<famStatus, holder>>
    \/ /\ userActive
       /\ famStatus = "revoked"
       /\ answer = "family_revoked"
       /\ UNCHANGED <<famStatus, holder>>
    \/ /\ userActive
       /\ famStatus = "active"
       /\ ~Server!IsTip(g)
       /\ answer = "invalid_device_access"
       /\ UNCHANGED <<famStatus, holder>>
    \/ /\ userActive
       /\ Server!IsTip(g)
       /\ answer = "logged_out"
       /\ Server!Revoke

\* A request is served, and its sender, if it still waits, hears of it.
Serve(r, answer) ==
    /\ IF r.kind = "refresh" THEN RefreshAnswer(r.gen, r.txn, answer)
                             ELSE LogoutAnswer(r.gen, answer)
    /\ wire' = wire \ {r}
    /\ flow' = IF r.by = "nobody" THEN flow
               ELSE [flow EXCEPT ![r.by].reply = answer]
    /\ refused' = (refused \/ (r.by # "nobody" /\ answer = "user_inactive"))
    /\ NoFault
    /\ UNCHANGED <<userActive, lapsed, fileVars, memoryVars, hostVars, queue,
                   minted>>

\* The access token a logout request carries is past its lifetime.
AccessExpired(r) ==
    /\ r.kind = "logout"
    /\ r.by # "nobody"
    /\ Fault
    /\ wire' = wire \ {r}
    /\ flow' = [flow EXCEPT ![r.by].reply = "invalid_device_access"]
    /\ UNCHANGED <<serverVars, fileVars, memoryVars, hostVars, queue, minted>>

\* A request of f, or its reply, is lost, or its 15 s are over.  The server
\* may still serve it, before or after f goes on, or never.
Timeout(f) ==
    /\ \E r \in wire :
         /\ r.by = f
         /\ wire' = (wire \ {r}) \cup {[r EXCEPT !.by = "nobody"]}
    /\ Fault
    /\ flow' = [flow EXCEPT ![f].reply = "network_error"]
    /\ UNCHANGED <<serverVars, fileVars, memoryVars, hostVars, queue, minted>>

\* The user revokes the family from the browser, or changes the password.
BrowserRevokes ==
    /\ "revoke" \in left.events
    /\ Server!Revoke
    /\ UNCHANGED <<userActive, lapsed, refused, fileVars, memoryVars, hostVars,
                   flow, queue, wire, boundVars>>

SetUserStatus ==
    /\ "deactivate" \in left.events
    /\ userActive' = ~userActive
    /\ UNCHANGED <<famStatus, holder, lapsed, refused, fileVars, memoryVars,
                   hostVars, flow, queue, wire, boundVars>>

RefreshCredentialLapses ==
    /\ "lapse" \in left.events
    /\ ~lapsed
    /\ lapsed' = TRUE
    /\ UNCHANGED <<famStatus, holder, userActive, refused, fileVars, memoryVars,
                   hostVars, flow, queue, wire, boundVars>>

-----------------------------------------------------------------------------
\* The process.

Orphaned == {[r EXCEPT !.by = "nobody"] : r \in wire}

Down ==
    /\ phase' = "down"
    /\ booted' = FALSE
    /\ Memory(NoCredential, NoGen, "unauthenticated")
    /\ flow' = [f \in Flows |-> Idle]
    /\ queue' = <<>>
    /\ wire' = Orphaned
    /\ refused' = FALSE
    /\ UNCHANGED <<famStatus, holder, userActive, lapsed, fileVars, minted>>

Start ==
    /\ phase = "down"
    /\ phase' = "running"
    /\ flow' = [flow EXCEPT !["init"].pc = "load"]
    /\ UNCHANGED <<serverVars, fileVars, memoryVars, booted, queue, wire,
                   boundVars>>

Crash ==
    /\ phase # "down"
    /\ Fault
    /\ Down

\* dispose() locks the coordinator; flows under way go on until the exit.
\* initialize() overtaken by another operation ends the same way.
Dispose ==
    /\ phase = "running"
    /\ Fault
    /\ booted \/ (flow["init"].pc = "cleanup" /\ flow["init"].stale)
    /\ phase' = "disposed"
    /\ Memory(credential, NoGen, "locked")
    /\ flow' = StaleAll(IF booted THEN flow
                        ELSE [flow EXCEPT !["init"] = Ended("init", "throw")])
    /\ UNCHANGED <<serverVars, fileVars, booted, queue, wire, minted>>

Exit ==
    /\ phase = "disposed"
    /\ Down
    /\ NoFault

-----------------------------------------------------------------------------

\* f goes on after an await.
FlowStep(f) ==
    \/ f = "init" /\ (InitLoad \/ InitResume)
    \/ f = "logout" /\ (LogoutMarked \/ LogoutSend \/ LogoutAnswered)
    \/ f = "retry" /\ (RetryChecked \/ RetryJoined)
    \/ f = "discard" /\ ProbeAnswered
    \/ RotateAnswered(f)
    \/ MarkerCleared(f)

ServeFlow(f) == \E r \in wire, answer \in Replies : r.by = f /\ Serve(r, answer)

FaultStep ==
    \/ ServeFlow("nobody")
    \/ \E r \in wire : AccessExpired(r)
    \/ InitFails
    \/ StoreFails
    \/ LogoutMarkFails
    \/ StreamBreaks
    \/ \E f \in Flows : MarkerClearFails(f) \/ Timeout(f)
    \/ Crash

HostStep == Start \/ Refresh \/ Logout \/ Retry \/ Probe \/ Dispose \/ Exit

EnvironmentStep == BrowserRevokes \/ SetUserStatus \/ RefreshCredentialLapses

Next ==
    \/ \E f \in Flows : FlowStep(f) \/ ServeFlow(f)
    \/ StoreSucceeds
    \/ FaultStep
    \/ HostStep
    \/ EnvironmentStep

Spec == Init /\ [][Next]_vars

\* The event loop resumes what was awaited, file writes end, the server answers
\* a request that reached it, and a process asked to start or to exit does.
Fairness ==
    /\ \A f \in Flows : WF_vars(FlowStep(f)) /\ WF_vars(ServeFlow(f))
    /\ WF_vars(StoreSucceeds)
    /\ WF_vars(Start) /\ WF_vars(Exit)

FairSpec == Spec /\ Fairness

\* Besides, the user facing a locked session keeps pressing the one button it
\* offers.
RetryingSpec == FairSpec /\ WF_vars(Retry)

-----------------------------------------------------------------------------
\* Properties.

\* Nothing but rotations is asked of the coordinator: no logout, no discard
\* (the network loop calls it for a disabled user and a broken event stream),
\* no lease while initialize() still runs.  Each of these can move the record
\* away from under a rotation: see the README.
Undisturbed == left.events \subseteq {"revoke", "lapse"}

\* The client never sends the server a rotation request that the server must
\* take for a replay: whatever was lost, killed or not written before, the
\* transaction of a request is the one its successor generation was issued
\* under, if it was issued at all.  A replay revokes the whole family.
NeverReplays ==
    Undisturbed => \A r \in wire :
        r.kind = "refresh" /\ famStatus = "active" /\ r.gen + 1 \in Generations
            => holder[r.gen + 1] \in {NoTxn, r.txn}

\* At every moment the process may be killed and the record on disk is enough
\* to go on: it is the newest generation, or the one before it together with
\* the transaction that the newest was issued under.
DiskRecoverable ==
    Undisturbed /\ famStatus = "active" /\ disk # NoCredential =>
        \/ Server!IsTip(disk.gen)
        \/ /\ disk.gen + 1 \in Generations
           /\ Server!IsTip(disk.gen + 1)
           /\ disk.pending = holder[disk.gen + 1]

\* No operation of the coordinator is under way.
Quiet ==
    /\ phase = "running" /\ booted
    /\ queue = <<>>
    /\ \A f \in Flows : flow[f].pc = "idle"

\* When nothing is under way and the session is open, the record in memory is
\* the one on disk, whatever refreshes, logouts, retries and discards raced
\* before: what rotate() uses next is what a restart would use.
AuthenticatedMatchesDisk ==
    Quiet /\ status = "authenticated" => credential = disk

\* The record on disk is enough to go on after a kill, and at rest it is the one
\* in memory (rotate, logout, discardLocalSession against the mutation queue).
RecordInStep == DiskRecoverable /\ AuthenticatedMatchesDisk

\* Once a logout has left its marker and nothing is under way, the session is
\* not open again: it can only be retried, discarded or authorized anew.
LogoutHolds == marker /\ Quiet => status # "authenticated"

\* However a logout comes to report success, by client.logout() or by way of
\* discardLocalSession() in its catch, and whenever a logout or a retried
\* revocation discards the local session as dead, the server has answered for
\* it: the family is revoked, or the server has told this run of the process
\* that the user is inactive.  A transient failure is never enough.
LogoutConfirmed ==
    \/ flow["logout"].out = "ok"
    \/ \E f \in {"logout", "retry"} : flow[f].pc \in {"discRemove", "discClear"}
    => famStatus = "revoked" \/ refused

\* What does not hold: that every logout reporting success has had the family
\* revoked.  user_inactive is one of REVOKED_CODES, so the session of a disabled
\* user is discarded and the logout reported as done, while the family stays
\* active on the server and is usable again once the user is enabled.
SuccessMeansRevoked == flow["logout"].out = "ok" => famStatus = "revoked"

\* A credential record that was deleted is not written back: only a new
\* authorization, which this module leaves out, creates one.
DeletedRecordStaysDeleted ==
    [][disk = NoCredential => disk' = NoCredential]_vars

\* A fault of the network or of the process is not taken for a revocation: the
\* credential record goes only with a logout, a revoked family or a disabled
\* user, none of which happens in the scenario Dropping.
FaultsKeepTheSession == disk # NoCredential

\* Every operation that was started ends: no await waits for ever, on the
\* server, on the mutation queue or on another operation.
OperationsSettle ==
    \A f \in Flows : flow[f].pc # "idle" ~> flow[f].pc = "idle"

\* A session locked because a rotation was not answered, which sending the
\* same rotation again would settle, is unlocked again by retrying.
LockedRecovers ==
    status = "locked" /\ credential.pending # NoTxn ~> status # "locked"

=============================================================================
