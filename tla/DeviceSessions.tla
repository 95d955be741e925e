--------------------------- MODULE DeviceSessions ---------------------------
(***************************************************************************)
(* The server side of the desktop device session                           *)
(* (api/src/domains/device_sessions.rs): device authorizations and the     *)
(* credential families they are exchanged for.                             *)
(*                                                                         *)
(* Every operation of the module runs in one BEGIN IMMEDIATE transaction,  *)
(* so an operation is one atomic action.  An operation that fails with a   *)
(* domain error still commits what it wrote; a storage, crypto or          *)
(* invalid-state error rolls everything back (transaction_should_commit).  *)
(* Paths that write nothing are steps that change nothing and are left     *)
(* out, except those that hand a credential out again.                     *)
(*                                                                         *)
(* `now' is read by the HTTP handler before it waits for the write lock,   *)
(* so a transaction may carry a timestamp older than the clock and older   *)
(* than timestamps already committed: every action takes a stamp t.        *)
(*                                                                         *)
(* authorization_id is UNIQUE in device_credential_families, so a family   *)
(* is named by the authorization it was exchanged for; a refresh or access *)
(* token is named by its family and generation.                            *)
(***************************************************************************)
EXTENDS Naturals, FiniteSets

CONSTANTS
    Auths,              \* authorization ids (and so family ids)
    Users,
    Installations,
    Txns,               \* client-chosen transaction ids (UUIDs)
    NoUser, NoTxn,      \* SQL NULL
    AuthorizationTtl, PollInterval, AccessTtl,
    RefreshSlidingTtl, RefreshAbsoluteTtl, IdempotencyTtl,
    Retention,          \* EXPIRED_AUTHORIZATION_RETENTION_SECONDS
    MaxActiveAuthorizations,
    CleanupLimit,
    MaxGeneration,      \* bound: rotations of one family
    MaxTime,            \* bound: the clock
    MaxNextPoll,        \* bound: how far early polls push next_poll_at
    MaxLag              \* how long a transaction may wait for the write lock

\* validate_policy, and the constants' types
ASSUME PolicyAssumption ==
    /\ AuthorizationTtl \in Nat \ {0}
    /\ PollInterval \in Nat \ {0}
    /\ AccessTtl \in Nat \ {0}
    /\ RefreshSlidingTtl \in Nat \ {0}
    /\ RefreshAbsoluteTtl \in Nat
    /\ RefreshAbsoluteTtl >= RefreshSlidingTtl
    /\ IdempotencyTtl \in Nat \ {0}
    /\ Retention \in Nat \ {0}
    /\ MaxActiveAuthorizations \in Nat \ {0}
    /\ CleanupLimit \in Nat \ {0}

ASSUME BoundAssumption ==
    /\ MaxGeneration \in Nat
    /\ MaxTime \in Nat
    /\ MaxNextPoll \in Nat
    /\ MaxLag \in Nat

ASSUME NullAssumption == NoUser \notin Users /\ NoTxn \notin Txns

VARIABLES
    clock,
    userActive,  \* users.status = 'active'
    devices,     \* rows of devices, by their unique <<user, installation>>
    auth,        \* device_authorizations
    family,      \* device_credential_families
    access,      \* device_access_sessions
    refresh,     \* device_refresh_credentials
    rotation,    \* device_refresh_rotations, by source generation
    granted      \* history: <<family, generation, transaction>> handed out

vars == <<clock, userActive, devices, auth, family, access, refresh, rotation,
          granted>>

Generations == 0 .. MaxGeneration

LiveStatuses == {"pending", "approved"}

AuthRows ==
    [status : {"unused", "pending", "approved", "denied", "expired",
               "consumed", "deleted"},
     installation : Installations,
     user : Users \cup {NoUser},
     expires : Nat, nextPoll : Nat, updated : Nat,
     txn : Txns \cup {NoTxn},
     result : {"none", "stored", "blank"},
     resultExpires : Nat]

FamilyRows ==
    [status : {"none", "active", "revoked"},
     user : Users \cup {NoUser},
     version : Nat, sliding : Nat, absolute : Nat]

AccessRows ==
    [status : {"none", "active", "revoked", "expired"},
     version : Nat, expires : Nat]

RefreshRows ==
    [status : {"none", "active", "rotated", "revoked", "expired"},
     expires : Nat]

RotationRows ==
    [status : {"none", "completed", "family_revoked"},
     txn : Txns \cup {NoTxn},
     result : {"none", "stored", "blank"},
     expires : Nat]

TypeOK ==
    /\ clock \in Nat
    /\ userActive \in [Users -> BOOLEAN]
    /\ devices \subseteq Users \X Installations
    /\ auth \in [Auths -> AuthRows]
    /\ family \in [Auths -> FamilyRows]
    /\ access \in [Auths -> [Generations -> AccessRows]]
    /\ refresh \in [Auths -> [Generations -> RefreshRows]]
    /\ rotation \in [Auths -> [Generations -> RotationRows]]
    /\ granted \subseteq Auths \X Generations \X Txns

-----------------------------------------------------------------------------

\* The version a new devices row gets.  No code path changes a device's
\* status or version, so every device is active at this version.
DeviceVersion == 1

NoAuth(i) == [status |-> "unused", installation |-> i, user |-> NoUser,
              expires |-> 0, nextPoll |-> 0, updated |-> 0, txn |-> NoTxn,
              result |-> "none", resultExpires |-> 0]
NoFamily == [status |-> "none", user |-> NoUser, version |-> 0,
             sliding |-> 0, absolute |-> 0]
NoAccess == [status |-> "none", version |-> 0, expires |-> 0]
NoRefresh == [status |-> "none", expires |-> 0]
NoRotation == [status |-> "none", txn |-> NoTxn, result |-> "none",
               expires |-> 0]

Init ==
    /\ clock = 0
    /\ userActive = [u \in Users |-> TRUE]
    /\ devices = {}
    /\ \E i \in Installations : auth = [a \in Auths |-> NoAuth(i)]
    /\ family = [a \in Auths |-> NoFamily]
    /\ access = [a \in Auths |-> [g \in Generations |-> NoAccess]]
    /\ refresh = [a \in Auths |-> [g \in Generations |-> NoRefresh]]
    /\ rotation = [a \in Auths |-> [g \in Generations |-> NoRotation]]
    /\ granted = {}

\* The timestamps a transaction committing now may carry.
Stamps == {t \in 0 .. MaxTime : t <= clock /\ clock <= t + MaxLag}

MinOf(m, n) == IF m <= n THEN m ELSE n

Tick ==
    /\ clock < MaxTime
    /\ clock' = clock + 1
    /\ UNCHANGED <<userActive, devices, auth, family, access, refresh,
                   rotation, granted>>

-----------------------------------------------------------------------------
\* Device authorizations.

HasFamily(a) == family[a].status # "none"

\* UPDATE ... SET authorization_status = s, updated_at = t
WithStatus(row, s, t) == [row EXCEPT !.status = s, !.updated = t]

\* UPDATE ... SET next_poll_at = next, updated_at = t
WithGate(row, next, t) == [row EXCEPT !.nextPoll = next, !.updated = t]

\* The same for every overdue row, with status 'expired'.
ExpireOverdue(rows, t) ==
    [a \in Auths |->
        IF rows[a].status \in LiveStatuses /\ rows[a].expires <= t
        THEN WithStatus(rows[a], "expired", t)
        ELSE rows[a]]

\* Rows past the retention period that no family references.
Purgeable(rows, statuses, t) ==
    {a \in Auths : /\ rows[a].status \in statuses
                   /\ rows[a].updated + Retention <= t
                   /\ ~HasFamily(a)}

Delete(rows, S) ==
    [a \in Auths |->
        IF a \in S THEN [NoAuth(rows[a].installation) EXCEPT !.status = "deleted"]
        ELSE rows[a]]

\* prepare_authorization_capacity before the count.
Prepared(t) ==
    LET expired == ExpireOverdue(auth, t)
    IN  Delete(expired, Purgeable(expired, {"expired"}, t))

ActiveIn(rows) == {a \in Auths : rows[a].status \in LiveStatuses}

NewAuth(i, t) ==
    [NoAuth(i) EXCEPT !.status = "pending", !.expires = t + AuthorizationTtl,
                      !.nextPoll = t, !.updated = t]

\* (mutant) one authorization too many is let in.
StartAuthorizationOneMore(a, i, t) ==
    /\ auth[a].status = "unused"
    /\ auth' = IF Cardinality(ActiveIn(Prepared(t))) > MaxActiveAuthorizations
               THEN Prepared(t)
               ELSE [Prepared(t) EXCEPT ![a] = NewAuth(i, t)]
    /\ UNCHANGED <<clock, userActive, devices, family, access, refresh,
                   rotation, granted>>

\* start_authorization: the capacity is prepared whether or not the new row
\* then fits (SlowDown is a domain error, so the clean-up commits).
StartAuthorization(a, i, t) ==
    /\ auth[a].status = "unused"
    /\ auth' = IF Cardinality(ActiveIn(Prepared(t))) >= MaxActiveAuthorizations
               THEN Prepared(t)
               ELSE [Prepared(t) EXCEPT ![a] = NewAuth(i, t)]
    /\ UNCHANGED <<clock, userActive, devices, family, access, refresh,
                   rotation, granted>>

\* authorization_for_review, and classify_decision_failure: an overdue
\* pending row is marked expired.
ReviewOverdue(a, t) ==
    /\ auth[a].status = "pending"
    /\ auth[a].expires <= t
    /\ auth' = [auth EXCEPT ![a] = WithStatus(@, "expired", t)]
    /\ UNCHANGED <<clock, userActive, devices, family, access, refresh,
                   rotation, granted>>

\* (mutant) a disabled user is not told apart.
EnsureAnyUser(u) == TRUE

\* ensure_active_user
EnsureActiveUser(u) == userActive[u]

ApprovedBy(row, u, t) ==
    [row EXCEPT !.status = "approved", !.user = u, !.updated = t]

\* (mutant) the decision is written without comparing the status.
ApproveAnyStatus(a, u, t) ==
    /\ EnsureActiveUser(u)
    /\ auth[a].status # "unused"
    /\ auth[a].expires > t
    /\ auth' = [auth EXCEPT ![a] = ApprovedBy(@, u, t)]
    /\ UNCHANGED <<clock, userActive, devices, family, access, refresh,
                   rotation, granted>>

\* decide_authorization: one compare-and-set on the pending row.
Approve(a, u, t) ==
    /\ EnsureActiveUser(u)
    /\ auth[a].status = "pending"
    /\ auth[a].expires > t
    /\ auth' = [auth EXCEPT ![a] = ApprovedBy(@, u, t)]
    /\ UNCHANGED <<clock, userActive, devices, family, access, refresh,
                   rotation, granted>>

Deny(a, t) ==
    /\ auth[a].status = "pending"
    /\ auth[a].expires > t
    /\ auth' = [auth EXCEPT ![a] = WithStatus(@, "denied", t)]
    /\ UNCHANGED <<clock, userActive, devices, family, access, refresh,
                   rotation, granted>>

-----------------------------------------------------------------------------
\* exchange_authorization: the desktop polls with this same operation.

\* The authorization can still be exchanged at t.
Exchangeable(a, t) == auth[a].status \in LiveStatuses /\ auth[a].expires > t

\* enforce_poll_gate
GateOpen(a, t) == auth[a].nextPoll <= t

\* (mutant) the consumed row is not answered before the expiry check.
ExchangeOverdueAnyStatus(a, t) ==
    /\ auth[a].status \in LiveStatuses \cup {"consumed"}
    /\ auth[a].expires <= t
    /\ auth' = [auth EXCEPT ![a] = WithStatus(@, "expired", t)]
    /\ UNCHANGED <<clock, userActive, devices, family, access, refresh,
                   rotation, granted>>

ExchangeOverdue(a, t) ==
    /\ auth[a].status \in LiveStatuses
    /\ auth[a].expires <= t
    /\ auth' = [auth EXCEPT ![a] = WithStatus(@, "expired", t)]
    /\ UNCHANGED <<clock, userActive, devices, family, access, refresh,
                   rotation, granted>>

\* SlowDown: polling early pushes the gate back by one more interval.
ExchangeTooEarly(a, t) ==
    /\ Exchangeable(a, t)
    /\ ~GateOpen(a, t)
    /\ auth[a].nextPoll + PollInterval <= MaxNextPoll
    /\ auth' = [auth EXCEPT ![a] = WithGate(@, @.nextPoll + PollInterval, t)]
    /\ UNCHANGED <<clock, userActive, devices, family, access, refresh,
                   rotation, granted>>

\* AuthorizationPending, or UserInactive for an approval whose user has been
\* disabled since: only the gate moves.
ExchangeNotReady(a, t) ==
    /\ Exchangeable(a, t)
    /\ GateOpen(a, t)
    /\ \/ auth[a].status = "pending"
       \/ auth[a].status = "approved" /\ ~EnsureActiveUser(auth[a].user)
    /\ auth' = [auth EXCEPT ![a] = WithGate(@, t + PollInterval, t)]
    /\ UNCHANGED <<clock, userActive, devices, family, access, refresh,
                   rotation, granted>>

NewFamily(u, t) ==
    [status |-> "active", user |-> u, version |-> 1,
     sliding |-> t + RefreshSlidingTtl, absolute |-> t + RefreshAbsoluteTtl]

NewAccess(t) ==
    [status |-> "active", version |-> DeviceVersion, expires |-> t + AccessTtl]

ConsumedBy(row, txn, t) ==
    [row EXCEPT !.status = "consumed", !.txn = txn,
                !.nextPoll = t + PollInterval, !.updated = t,
                !.result = "stored", !.resultExpires = t + IdempotencyTtl]

\* exchange_in_transaction, issuing generation 0.  A transaction id another
\* authorization already used violates a UNIQUE column and rolls back.
ExchangeIssue(a, txn, t) ==
    /\ Exchangeable(a, t)
    /\ GateOpen(a, t)
    /\ auth[a].status = "approved"
    /\ EnsureActiveUser(auth[a].user)
    /\ \A b \in Auths : auth[b].txn # txn
    /\ devices' = devices \cup {<<auth[a].user, auth[a].installation>>}
    /\ family' = [family EXCEPT ![a] = NewFamily(auth[a].user, t)]
    /\ access' = [access EXCEPT ![a][0] = NewAccess(t)]
    /\ refresh' = [refresh EXCEPT ![a][0] =
                      [status |-> "active", expires |-> t + RefreshSlidingTtl]]
    /\ auth' = [auth EXCEPT ![a] = ConsumedBy(@, txn, t)]
    /\ granted' = granted \cup {<<a, 0, txn>>}
    /\ UNCHANGED <<clock, userActive, rotation>>

\* The recorded result is handed out again to the transaction that made it,
\* without looking at the family, the user or the device.
ExchangeRecover(a, txn, t) ==
    /\ auth[a].status = "consumed"
    /\ auth[a].txn = txn
    /\ auth[a].result = "stored"
    /\ auth[a].resultExpires > t
    /\ granted' = granted \cup {<<a, 0, txn>>}
    /\ UNCHANGED <<clock, userActive, devices, auth, family, access, refresh,
                   rotation>>

Exchange(a, txn, t) ==
    \/ ExchangeOverdue(a, t)
    \/ ExchangeTooEarly(a, t)
    \/ ExchangeNotReady(a, t)
    \/ ExchangeIssue(a, txn, t)
    \/ ExchangeRecover(a, txn, t)

-----------------------------------------------------------------------------
\* Credential families.

\* (mutant) the rotation table's status in the wrong table.
RevokeRowMislabelled(row, targets) ==
    IF row.status \in targets THEN [row EXCEPT !.status = "family_revoked"]
    ELSE row

\* UPDATE ... SET status = 'revoked' WHERE status IN targets
RevokeRow(row, targets) ==
    IF row.status \in targets THEN [row EXCEPT !.status = "revoked"] ELSE row

RevokedFamily(row) ==
    [row EXCEPT !.status = "revoked", !.version = row.version + 1]

\* revoke_family_in_transaction
RevokeFamily(a) ==
    /\ family' = [family EXCEPT ![a] = RevokedFamily(@)]
    /\ access' = [access EXCEPT ![a] =
          [g \in Generations |-> RevokeRow(access[a][g], {"active"})]]
    /\ refresh' = [refresh EXCEPT ![a] =
          [g \in Generations |-> RevokeRow(refresh[a][g], {"active", "rotated"})]]

\* (mutant) the family's own status is not looked at.
RotationAllowedAnyFamily(a, g) ==
    /\ refresh[a][g].status # "none"
    /\ userActive[family[a].user]

\* rotate_refresh_in_transaction up to the look-up of the rotation row.
RotationAllowed(a, g) ==
    /\ refresh[a][g].status # "none"
    /\ family[a].status = "active"
    /\ userActive[family[a].user]
    /\ family[a].version = DeviceVersion

\* (mutant) a second transaction takes the rotation over.
RotateReplayTakesOver(a, g, txn) ==
    /\ RotationAllowed(a, g)
    /\ rotation[a][g].status # "none"
    /\ rotation[a][g].txn # txn
    /\ rotation' = [rotation EXCEPT ![a][g].txn = txn]
    /\ UNCHANGED <<clock, userActive, devices, auth, family, access, refresh,
                   granted>>

\* The source generation was already rotated, by another transaction.
RotateReplay(a, g, txn) ==
    /\ RotationAllowed(a, g)
    /\ rotation[a][g].status # "none"
    /\ rotation[a][g].txn # txn
    /\ RevokeFamily(a)
    /\ rotation' = [rotation EXCEPT ![a][g].status = "family_revoked"]
    /\ UNCHANGED <<clock, userActive, devices, auth, granted>>

ErasedRotation(row) ==
    [row EXCEPT !.status = "family_revoked", !.result = "blank"]

\* The same transaction asks after its result expired.
RotateResultExpired(a, g, txn, t) ==
    /\ RotationAllowed(a, g)
    /\ rotation[a][g].status # "none"
    /\ rotation[a][g].txn = txn
    /\ rotation[a][g].expires <= t
    /\ RevokeFamily(a)
    /\ rotation' = [rotation EXCEPT ![a][g] = ErasedRotation(@)]
    /\ UNCHANGED <<clock, userActive, devices, auth, granted>>

\* (mutant) whoever presents the source credential gets the recorded result.
RotateRecoverAnyTransaction(a, g, txn, t) ==
    /\ RotationAllowed(a, g)
    /\ rotation[a][g].status # "none"
    /\ rotation[a][g].expires > t
    /\ rotation[a][g].result = "stored"
    /\ g < MaxGeneration
    /\ granted' = granted \cup {<<a, g + 1, txn>>}
    /\ UNCHANGED <<clock, userActive, devices, auth, family, access, refresh,
                   rotation>>

\* The same transaction gets the recorded result.
RotateRecover(a, g, txn, t) ==
    /\ RotationAllowed(a, g)
    /\ rotation[a][g].status # "none"
    /\ rotation[a][g].txn = txn
    /\ rotation[a][g].expires > t
    /\ rotation[a][g].result = "stored"
    /\ g < MaxGeneration
    /\ granted' = granted \cup {<<a, g + 1, txn>>}
    /\ UNCHANGED <<clock, userActive, devices, auth, family, access, refresh,
                   rotation>>

\* The result cannot be decrypted: it was erased, or was written under
\* another master key.
RotateUnreadable(a, g, txn, t) ==
    /\ RotationAllowed(a, g)
    /\ rotation[a][g].status # "none"
    /\ rotation[a][g].txn = txn
    /\ rotation[a][g].expires > t
    /\ RevokeFamily(a)
    /\ rotation' = [rotation EXCEPT ![a][g].status = "family_revoked"]
    /\ UNCHANGED <<clock, userActive, devices, auth, granted>>

RefreshOverdue(a, g, t) ==
    refresh[a][g].expires <= t \/ family[a].absolute <= t

\* (mutant) a credential lapses one second early.
RotateExpiredEarly(a, g, t) ==
    /\ RotationAllowed(a, g)
    /\ rotation[a][g].status = "none"
    /\ refresh[a][g].status = "active"
    /\ RefreshOverdue(a, g, t + 1)
    /\ refresh' = [refresh EXCEPT ![a][g].status = "expired"]
    /\ UNCHANGED <<clock, userActive, devices, auth, family, access, rotation,
                   granted>>

RotateExpired(a, g, t) ==
    /\ RotationAllowed(a, g)
    /\ rotation[a][g].status = "none"
    /\ refresh[a][g].status = "active"
    /\ RefreshOverdue(a, g, t)
    /\ refresh' = [refresh EXCEPT ![a][g].status = "expired"]
    /\ UNCHANGED <<clock, userActive, devices, auth, family, access, rotation,
                   granted>>

\* (mutant) every rotation starts a full sliding lifetime.
NextRefreshUncapped(a, t) == t + RefreshSlidingTtl

\* next_refresh_expires_at
NextRefreshExpires(a, t) == MinOf(t + RefreshSlidingTtl, family[a].absolute)

\* (mutant) the source credential stays active.
RefreshWithoutConsuming(a, g, expires) ==
    [refresh EXCEPT ![a][g + 1] = [status |-> "active", expires |-> expires]]

\* The source credential is consumed and its successor inserted.
RefreshRotated(a, g, expires) ==
    [refresh EXCEPT ![a][g].status = "rotated",
                    ![a][g + 1] = [status |-> "active", expires |-> expires]]

\* (mutant) the source's access session stays active.
AccessWithoutRevoking(a, g, t) == [access EXCEPT ![a][g + 1] = NewAccess(t)]

\* The source's access session is revoked and its successor inserted.
AccessRotated(a, g, t) ==
    [access EXCEPT ![a][g] = RevokeRow(@, {"active"}),
                   ![a][g + 1] = NewAccess(t)]

\* Consume generation g and issue generation g + 1.
RotateIssue(a, g, txn, t) ==
    LET expires == NextRefreshExpires(a, t)
    IN  /\ RotationAllowed(a, g)
        /\ rotation[a][g].status = "none"
        /\ refresh[a][g].status = "active"
        /\ ~RefreshOverdue(a, g, t)
        /\ \A b \in Auths, h \in Generations : rotation[b][h].txn # txn
        /\ g < MaxGeneration
        /\ refresh' = RefreshRotated(a, g, expires)
        /\ access' = AccessRotated(a, g, t)
        /\ family' = [family EXCEPT ![a].sliding = expires]
        /\ rotation' = [rotation EXCEPT ![a][g] =
              [status |-> "completed", txn |-> txn, result |-> "stored",
               expires |-> t + IdempotencyTtl]]
        /\ granted' = granted \cup {<<a, g + 1, txn>>}
        /\ UNCHANGED <<clock, userActive, devices, auth>>

\* rotate_refresh_token
Rotate(a, g, txn, t) ==
    \/ RotateReplay(a, g, txn)
    \/ RotateResultExpired(a, g, txn, t)
    \/ RotateRecover(a, g, txn, t)
    \/ RotateUnreadable(a, g, txn, t)
    \/ RotateExpired(a, g, t)
    \/ RotateIssue(a, g, txn, t)

\* What authenticate_access_in_transaction and revalidate_access_lease both
\* ask of the rows an access token joins.
AccessStanding(a, g) ==
    /\ family[a].status = "active"
    /\ userActive[family[a].user]
    /\ access[a][g].status = "active"

\* authenticate_access_token accepts generation g of family a at t.
Authenticates(a, g, t) ==
    /\ AccessStanding(a, g)
    /\ access[a][g].expires > t
    /\ access[a][g].version = DeviceVersion

\* revalidate_access_lease keeps an event stream open at t for a lease taken
\* on generation g of family a.
Revalidates(a, g, t) ==
    /\ access[a][g].expires > t
    /\ AccessStanding(a, g)
    /\ family[a].version = access[a][g].version
    /\ DeviceVersion = access[a][g].version

\* authenticate_access_token on a token whose time is over.  Accepting one
\* only writes last_seen_at, which nothing here reads.
AuthenticateOverdue(a, g, t) ==
    /\ AccessStanding(a, g)
    /\ access[a][g].expires <= t
    /\ access' = [access EXCEPT ![a][g].status = "expired"]
    /\ UNCHANGED <<clock, userActive, devices, auth, family, refresh, rotation,
                   granted>>

\* revoke_family_for_user: the user's device list, and device logout.
RevokeFamilyForUser(a) ==
    /\ family[a].status = "active"
    /\ RevokeFamily(a)
    /\ UNCHANGED <<clock, userActive, devices, auth, rotation, granted>>

\* (mutant) the version moves but the families stay active.
ChangeOwnPasswordVersionOnly(u, keep) ==
    /\ userActive[u]
    /\ \E a \in Auths \ keep : family[a].status = "active" /\ family[a].user = u
    /\ family' = [a \in Auths |->
          IF family[a].user = u /\ family[a].status = "active" /\ a \notin keep
          THEN [family[a] EXCEPT !.version = @ + 1]
          ELSE family[a]]
    /\ UNCHANGED <<clock, userActive, devices, auth, access, refresh, rotation,
                   granted>>

\* users.rs change_own_password: every family of the user but the one the
\* change was made from.  The access and refresh rows keep their status.
ChangeOwnPassword(u, keep) ==
    /\ userActive[u]
    /\ \E a \in Auths \ keep : family[a].status = "active" /\ family[a].user = u
    /\ family' = [a \in Auths |->
          IF family[a].user = u /\ family[a].status = "active" /\ a \notin keep
          THEN RevokedFamily(family[a])
          ELSE family[a]]
    /\ UNCHANGED <<clock, userActive, devices, auth, access, refresh, rotation,
                   granted>>

\* users.rs set_user_status
SetUserStatus(u, b) ==
    /\ userActive[u] # b
    /\ userActive' = [userActive EXCEPT ![u] = b]
    /\ UNCHANGED <<clock, devices, auth, family, access, refresh, rotation,
                   granted>>

-----------------------------------------------------------------------------
\* The hourly clean-up (app/serve.rs).

\* D is what SELECT ... ORDER BY key LIMIT CleanupLimit picks from S.
OldestOf(D, S, key(_)) ==
    /\ D \subseteq S
    /\ Cardinality(D) = MinOf(CleanupLimit, Cardinality(S))
    /\ \A d \in D, s \in S \ D : key(d) <= key(s)

CleanupAuthorizations(t) ==
    LET expired == ExpireOverdue(auth, t)
        Updated(a) == expired[a].updated
    IN  /\ \E D \in SUBSET Auths :
             /\ OldestOf(D, Purgeable(expired, {"expired", "denied"}, t), Updated)
             /\ auth' = Delete(expired, D)
        /\ auth' # auth
        /\ UNCHANGED <<clock, userActive, devices, family, access, refresh,
                       rotation, granted>>

EraseExchangeResults(t) ==
    LET due == {a \in Auths : /\ auth[a].status = "consumed"
                              /\ auth[a].result = "stored"
                              /\ auth[a].resultExpires <= t}
    IN  /\ due # {}
        /\ auth' = [a \in Auths |->
              IF a \in due
              THEN [auth[a] EXCEPT !.result = "blank", !.updated = t]
              ELSE auth[a]]
        /\ UNCHANGED <<clock, userActive, devices, family, access, refresh,
                       rotation, granted>>

\* (mutant) the rotation of a revoked family is passed over.
CleanupCompletedResults(t) ==
    LET due == {p \in Auths \X Generations :
                  /\ rotation[p[1]][p[2]].status = "completed"
                  /\ rotation[p[1]][p[2]].result = "stored"
                  /\ rotation[p[1]][p[2]].expires <= t}
        Expires(p) == rotation[p[1]][p[2]].expires
    IN  /\ due # {}
        /\ \E D \in SUBSET due :
             /\ OldestOf(D, due, Expires)
             /\ rotation' = [a \in Auths |-> [g \in Generations |->
                   IF <<a, g>> \in D
                   THEN [rotation[a][g] EXCEPT !.result = "blank"]
                   ELSE rotation[a][g]]]
        /\ UNCHANGED <<clock, userActive, devices, auth, family, access,
                       refresh, granted>>

CleanupRotationResults(t) ==
    LET due == {p \in Auths \X Generations :
                  /\ rotation[p[1]][p[2]].result = "stored"
                  /\ rotation[p[1]][p[2]].expires <= t}
        Expires(p) == rotation[p[1]][p[2]].expires
    IN  /\ due # {}
        /\ \E D \in SUBSET due :
             /\ OldestOf(D, due, Expires)
             /\ rotation' = [a \in Auths |-> [g \in Generations |->
                   IF <<a, g>> \in D
                   THEN [rotation[a][g] EXCEPT !.result = "blank"]
                   ELSE rotation[a][g]]]
        /\ UNCHANGED <<clock, userActive, devices, auth, family, access,
                       refresh, granted>>

Cleanup(t) ==
    CleanupAuthorizations(t) \/ EraseExchangeResults(t)
        \/ CleanupRotationResults(t)

-----------------------------------------------------------------------------

AuthorizationStep(a, t) ==
    \/ \E i \in Installations : StartAuthorization(a, i, t)
    \/ ReviewOverdue(a, t)
    \/ \E u \in Users : Approve(a, u, t)
    \/ Deny(a, t)
    \/ \E txn \in Txns : Exchange(a, txn, t)

FamilyStep(a, t) ==
    \/ \E g \in Generations, txn \in Txns : Rotate(a, g, txn, t)
    \/ \E g \in Generations : AuthenticateOverdue(a, g, t)
    \/ RevokeFamilyForUser(a)

UserStep ==
    \/ \E u \in Users, keep \in {{}} \cup {{a} : a \in Auths} :
          ChangeOwnPassword(u, keep)
    \/ \E u \in Users, b \in BOOLEAN : SetUserStatus(u, b)

Next ==
    \/ Tick
    \/ \E a \in Auths, t \in Stamps : AuthorizationStep(a, t) \/ FamilyStep(a, t)
    \/ UserStep
    \/ \E t \in Stamps : Cleanup(t)

\* The clean-up task loops for as long as the server runs, one call at a time
\* and each whatever became of the one before.
Fairness ==
    /\ WF_vars(\E t \in Stamps : CleanupAuthorizations(t))
    /\ WF_vars(\E t \in Stamps : EraseExchangeResults(t))
    /\ WF_vars(\E t \in Stamps : CleanupRotationResults(t))

Spec == Init /\ [][Next]_vars

FairSpec == Spec /\ Fairness

-----------------------------------------------------------------------------
\* Properties.

Exists(a, g) == refresh[a][g].status # "none"
WasRotated(a, g) == rotation[a][g].status # "none"

\* An authorization is consumed exactly when it has a credential family, the
\* family belongs to the user who approved it, and its device row exists: an
\* exchange that raced with expiry, clean-up, a second poll or a decision
\* leaves neither a consumed row without credentials nor credentials nobody
\* approved (exchange_in_transaction).
ConsumedHasFamily ==
    \A a \in Auths :
        /\ auth[a].status = "consumed" <=> HasFamily(a)
        /\ HasFamily(a) =>
              /\ family[a].user = auth[a].user
              /\ <<family[a].user, auth[a].installation>> \in devices

\* The generations of a family form one unbroken line: generation 0 exists
\* from the exchange on, each rotation row stands for exactly one successor,
\* every generation has its access session, and a refresh credential counts
\* as rotated only if its rotation row exists (rotate_refresh_in_transaction).
Lineage ==
    \A a \in Auths, g \in Generations :
        /\ Exists(a, 0) <=> HasFamily(a)
        /\ access[a][g].status # "none" <=> Exists(a, g)
        /\ WasRotated(a, g) <=> g + 1 \in Generations /\ Exists(a, g + 1)
        /\ WasRotated(a, g) => refresh[a][g].status \in {"rotated", "revoked"}
        /\ refresh[a][g].status = "rotated" => WasRotated(a, g)

\* A generation that was rotated away is dead at once: its access token is
\* refused by every later request, whatever stamp that request carries, and
\* its refresh credential cannot issue again.
SupersededTokensDie ==
    \A a \in Auths, g \in Generations :
        WasRotated(a, g) =>
            /\ refresh[a][g].status # "active"
            /\ \A t \in Stamps : ~Authenticates(a, g, t)

\* An active family is never stranded: its newest refresh credential can
\* still rotate, or has really outlived its sliding or absolute lifetime.
TipUsable ==
    \A a \in Auths, g \in Generations :
        family[a].status = "active" /\ Exists(a, g) /\ ~WasRotated(a, g) =>
            \/ refresh[a][g].status = "active"
            \/ refresh[a][g].status = "expired" /\ RefreshOverdue(a, g, clock)

\* A generation is handed to one client transaction only, however often
\* requests are repeated, reordered or replayed: two parties never hold the
\* same credential (the recovery paths of exchange and rotation).
OneHolder ==
    \A x, y \in granted : x[1] = y[1] /\ x[2] = y[2] => x[3] = y[3]

\* The event stream's periodic check and the per-request authentication,
\* written separately, agree on every token at every moment: a stream is
\* neither kept open for a token requests would refuse, nor cut while the
\* token is good (revalidate_access_lease, authenticate_access_in_transaction).
LeaseAgreement ==
    \A a \in Auths, g \in Generations, t \in Stamps :
        Authenticates(a, g, t) <=> Revalidates(a, g, t)

\* Rotating never extends a family past the absolute end fixed when it was
\* created, and the sliding end shown for the family is that of its newest
\* credential (next_refresh_expires_at).
LifetimeBounded ==
    \A a \in Auths, g \in Generations :
        HasFamily(a) /\ Exists(a, g) =>
            /\ refresh[a][g].expires <= family[a].absolute
            /\ ~WasRotated(a, g) => refresh[a][g].expires = family[a].sliding

\* The two sides of a credential's life: neither cut short nor drawn out
\* (next_refresh_expires_at and the expiry checks of rotate_in_transaction).
LivesItsTime == TipUsable /\ LifetimeBounded

\* start_authorization never lets more than MAX_ACTIVE_AUTHORIZATIONS rows be
\* pending or approved, even when its stamp lags behind the clock.
CapacityRespected == Cardinality(ActiveIn(auth)) <= MaxActiveAuthorizations

\* Revocation is final: a revoked family stays revoked, whatever requests are
\* still under way, and never gains a generation, a live access token or a
\* new holder (revoke_family_in_transaction, change_own_password).
RevocationFinal ==
    [][\A a \in Auths :
          family[a].status = "revoked" =>
             /\ family'[a].status = "revoked"
             /\ \A g \in Generations : Exists(a, g)' = Exists(a, g)
             /\ \A x \in granted' \ granted : x[1] # a]_vars

\* A refused or lapsed authorization never yields credentials afterwards: it
\* can only be deleted (decide_authorization against a concurrent exchange).
RefusalFinal ==
    [][\A a \in Auths :
          auth[a].status \in {"denied", "expired", "deleted"} =>
             /\ auth'[a].status \in {auth[a].status, "deleted"}
             /\ family'[a] = family[a]]_vars

\* A credential is first handed out only for an active user and into a family
\* that is still active when the transaction commits (ensure_active_user and
\* the status checks of rotate_refresh_in_transaction).
FreshGrantsAreLive ==
    [][\A x \in granted' \ granted :
          /\ userActive[family'[x[1]].user]
          /\ family'[x[1]].status = "active"]_vars

\* The transaction that generation g of family a was issued to.
HolderOf(a) ==
    [g \in Generations |->
        IF g = 0 THEN auth[a].txn ELSE rotation[a][g - 1].txn]

Family(a) == INSTANCE CredentialFamily
    WITH status <- family[a].status, holder <- HolderOf(a)

\* Every family keeps the promise of CredentialFamily, with the tables, the
\* lagging stamps, expiry and clean-up in place: generations advance one at a
\* time from the newest, each to one transaction, and never after revocation.
\* This is \A a \in Auths : Family(a)!CFSpec with the quantifier moved inside.
FamiliesRefine ==
    /\ \A a \in Auths : Family(a)!CFInit
    /\ [][\A a \in Auths :
             Family(a)!CFNext \/ UNCHANGED Family(a)!cfVars]_vars

\* Encrypted results do not outlive their recovery window: whatever becomes
\* of the family, the clean-up task blanks every stored result in the end.
ResultsErased ==
    \A a \in Auths :
        /\ auth[a].result = "stored" /\ auth[a].resultExpires <= clock
              ~> auth[a].result # "stored"
        /\ \A g \in Generations :
              rotation[a][g].result = "stored" /\ rotation[a][g].expires <= clock
                 ~> rotation[a][g].result # "stored"

=============================================================================
