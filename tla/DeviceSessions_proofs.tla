----------------------- MODULE DeviceSessions_proofs -----------------------
(***************************************************************************)
(* Proofs about DeviceSessions, for any number of authorizations, users    *)
(* and generations and any policy: what a token is worth, then how long a  *)
(* credential lives, how many authorizations may be open, what becomes of  *)
(* a refused one, and that every family implements CredentialFamily.       *)
(***************************************************************************)
EXTENDS DeviceSessions, FiniteSetTheorems, TLAPS

-----------------------------------------------------------------------------
\* The row operators: what they return, and which fields they leave alone.

AuthStatuses ==
    {"unused", "pending", "approved", "denied", "expired", "consumed", "deleted"}

\* The fields of an authorization that a consumed row must keep.
SameGrant(r, s) ==
    r.user = s.user /\ r.installation = s.installation /\ r.txn = s.txn

\* A transaction's stamp is a natural number.
LEMMA StampIsNat == ASSUME NEW t \in Stamps PROVE t \in Nat
  BY BoundAssumption DEF BoundAssumption, Stamps

\* Adding a lifetime to a stamp stays within the naturals.
LEMMA Deadlines ==
  ASSUME NEW t \in Nat
  PROVE  /\ t + AuthorizationTtl \in Nat
         /\ t + PollInterval \in Nat
         /\ t + AccessTtl \in Nat
         /\ t + RefreshSlidingTtl \in Nat
         /\ t + RefreshAbsoluteTtl \in Nat
         /\ t + IdempotencyTtl \in Nat
  BY PolicyAssumption DEF PolicyAssumption

\* The placeholder for a row not yet inserted is a well-formed row.
LEMMA NoAuthRow ==
  ASSUME NEW i \in Installations
  PROVE  /\ NoAuth(i) \in AuthRows
         /\ NoAuth(i).status = "unused"
         /\ NoAuth(i).installation = i
  BY DEF NoAuth, AuthRows

\* The row start_authorization inserts is well-formed and pending.
LEMMA NewAuthRow ==
  ASSUME NEW i \in Installations, NEW t \in Nat
  PROVE  NewAuth(i, t) \in AuthRows /\ NewAuth(i, t).status = "pending"
  <1>1. NoAuth(i) \in AuthRows
    BY NoAuthRow
  <1>2. t + AuthorizationTtl \in Nat
    BY Deadlines
  <1> QED
    BY <1>1, <1>2 DEF NewAuth, AuthRows

\* Writing a status changes nothing a grant depends on.
LEMMA WithStatusRow ==
  ASSUME NEW row \in AuthRows, NEW s \in AuthStatuses, NEW t \in Nat
  PROVE  /\ WithStatus(row, s, t) \in AuthRows
         /\ WithStatus(row, s, t).status = s
         /\ SameGrant(WithStatus(row, s, t), row)
  BY DEF WithStatus, AuthRows, SameGrant, AuthStatuses

\* Moving the poll gate changes neither the status nor the grant.
LEMMA WithGateRow ==
  ASSUME NEW row \in AuthRows, NEW next \in Nat, NEW t \in Nat
  PROVE  /\ WithGate(row, next, t) \in AuthRows
         /\ WithGate(row, next, t).status = row.status
         /\ SameGrant(WithGate(row, next, t), row)
  BY DEF WithGate, AuthRows, SameGrant

\* Approval names the user.
LEMMA ApprovedByRow ==
  ASSUME NEW row \in AuthRows, NEW u \in Users, NEW t \in Nat
  PROVE  /\ ApprovedBy(row, u, t) \in AuthRows
         /\ ApprovedBy(row, u, t).status = "approved"
         /\ ApprovedBy(row, u, t).user = u
  BY DEF ApprovedBy, AuthRows

\* Consuming a row records the transaction and keeps user and installation.
LEMMA ConsumedByRow ==
  ASSUME NEW row \in AuthRows, NEW txn \in Txns, NEW t \in Nat
  PROVE  /\ ConsumedBy(row, txn, t) \in AuthRows
         /\ ConsumedBy(row, txn, t).status = "consumed"
         /\ ConsumedBy(row, txn, t).txn = txn
         /\ ConsumedBy(row, txn, t).user = row.user
         /\ ConsumedBy(row, txn, t).installation = row.installation
  BY Deadlines DEF ConsumedBy, AuthRows

\* A revoked family keeps its user.
LEMMA RevokedFamilyRow ==
  ASSUME NEW row \in FamilyRows
  PROVE  /\ RevokedFamily(row) \in FamilyRows
         /\ RevokedFamily(row).status = "revoked"
         /\ RevokedFamily(row).user = row.user
  <1>1. row.version + 1 \in Nat
    BY DEF FamilyRows
  <1> QED
    BY <1>1 DEF RevokedFamily, FamilyRows

\* Revoking an access session changes its status only, and only from S.
LEMMA RevokeAccessRow ==
  ASSUME NEW row \in AccessRows, NEW S
  PROVE  /\ RevokeRow(row, S) \in AccessRows
         /\ RevokeRow(row, S).status =
               IF row.status \in S THEN "revoked" ELSE row.status
         /\ RevokeRow(row, S).version = row.version
  BY DEF RevokeRow, AccessRows

\* Revoking a refresh credential changes its status only, and only from S.
LEMMA RevokeRefreshRow ==
  ASSUME NEW row \in RefreshRows, NEW S
  PROVE  /\ RevokeRow(row, S) \in RefreshRows
         /\ RevokeRow(row, S).status =
               IF row.status \in S THEN "revoked" ELSE row.status
  BY DEF RevokeRow, RefreshRows

\* Erasing a rotation's result keeps its transaction on record.
LEMMA ErasedRotationRow ==
  ASSUME NEW row \in RotationRows
  PROVE  /\ ErasedRotation(row) \in RotationRows
         /\ ErasedRotation(row).status = "family_revoked"
         /\ ErasedRotation(row).txn = row.txn
  BY DEF ErasedRotation, RotationRows

-----------------------------------------------------------------------------
\* The inductive invariant.  ConsumedHasFamily and Lineage are inductive given
\* each other; the rest is what they and the other properties lean on.

\* Lineage for one generation of one family.
LineageAt(a, g) ==
    /\ Exists(a, 0) <=> HasFamily(a)
    /\ access[a][g].status # "none" <=> Exists(a, g)
    /\ WasRotated(a, g) <=> g + 1 \in Generations /\ Exists(a, g + 1)
    /\ WasRotated(a, g) => refresh[a][g].status \in {"rotated", "revoked"}
    /\ refresh[a][g].status = "rotated" => WasRotated(a, g)

\* An approved or consumed authorization names its user.
ApprovedHasUser ==
    \A a \in Auths :
        auth[a].status \in {"approved", "consumed"} => auth[a].user \in Users

\* The access session of a rotated generation is not active.
SupersededAccessDead ==
    \A a \in Auths, g \in Generations :
        WasRotated(a, g) => access[a][g].status # "active"

\* Every exchange is on record with the transaction it was made for.
ExchangeRecorded ==
    \A a \in Auths :
        auth[a].status = "consumed" =>
            auth[a].txn \in Txns /\ <<a, 0, auth[a].txn>> \in granted

\* Generation 0 is only ever handed to the transaction of the exchange.
FirstGrantHeld ==
    \A a \in Auths, x \in Txns :
        <<a, 0, x>> \in granted =>
            auth[a].status = "consumed" /\ auth[a].txn = x

\* A later generation is only ever handed to the transaction of its rotation.
LaterGrantHeld ==
    \A a \in Auths, g \in Generations, x \in Txns :
        <<a, g + 1, x>> \in granted =>
            WasRotated(a, g) /\ rotation[a][g].txn = x

\* Every rotation is on record with the transaction it was made for.
RotationRecorded ==
    \A a \in Auths, g \in Generations :
        WasRotated(a, g) =>
            /\ rotation[a][g].txn \in Txns
            /\ <<a, g + 1, rotation[a][g].txn>> \in granted

GrantsRecorded ==
    /\ ExchangeRecorded
    /\ FirstGrantHeld
    /\ LaterGrantHeld
    /\ RotationRecorded

\* Only revocation moves a family's version.
VersionsAgree ==
    \A a \in Auths :
        family[a].status = "active" => family[a].version = DeviceVersion

IInv ==
    /\ TypeOK
    /\ ApprovedHasUser
    /\ ConsumedHasFamily
    /\ Lineage
    /\ SupersededAccessDead
    /\ GrantsRecorded
    /\ VersionsAgree

\* The empty database satisfies the invariant.
LEMMA InitIInv == Init => IInv
  <1> SUFFICES ASSUME Init PROVE IInv
    OBVIOUS
  <1>1. PICK i \in Installations : auth = [a \in Auths |-> NoAuth(i)]
    BY DEF Init
  <1>2. auth \in [Auths -> AuthRows] /\ \A a \in Auths : auth[a].status = "unused"
    BY <1>1, NoAuthRow
  <1>3. TypeOK
    BY <1>2 DEF Init, TypeOK, NoFamily, NoAccess, NoRefresh, NoRotation,
                FamilyRows, AccessRows, RefreshRows, RotationRows
  <1>4. \A a \in Auths : ~HasFamily(a)
    BY DEF Init, HasFamily, NoFamily
  <1>5. \A a \in Auths, g \in Generations :
           /\ ~Exists(a, g)
           /\ ~WasRotated(a, g)
           /\ refresh[a][g].status = "none"
           /\ access[a][g].status = "none"
    BY DEF Init, Exists, WasRotated, NoRefresh, NoRotation, NoAccess
  <1>6. 0 \in Generations
    BY BoundAssumption DEF BoundAssumption, Generations
  <1>7. ApprovedHasUser /\ ConsumedHasFamily
    BY <1>2, <1>4 DEF ApprovedHasUser, ConsumedHasFamily
  <1>8. Lineage /\ SupersededAccessDead
    BY <1>4, <1>5, <1>6 DEF Lineage, SupersededAccessDead
  <1>9. GrantsRecorded
    BY <1>2, <1>5 DEF GrantsRecorded, ExchangeRecorded, FirstGrantHeld,
                      LaterGrantHeld, RotationRecorded, Init
  <1>10. VersionsAgree
    BY <1>4 DEF VersionsAgree, HasFamily
  <1> QED
    BY <1>3, <1>7, <1>8, <1>9, <1>10 DEF IInv

-----------------------------------------------------------------------------
\* Steps that only write device_authorizations.

AuthorizationFrame ==
    UNCHANGED <<clock, userActive, devices, family, access, refresh, rotation,
                granted>>

\* Consumed rows are neither made nor changed, and approved rows have a user.
KeepsGrants ==
    \A a \in Auths :
        /\ auth'[a].status = "consumed" <=> auth[a].status = "consumed"
        /\ auth[a].status = "consumed" => SameGrant(auth'[a], auth[a])
        /\ auth'[a].status = "approved" => auth'[a].user \in Users

\* A step confined to device_authorizations that keeps the grants keeps the
\* invariant.
LEMMA AuthorizationStepKeeps ==
  ASSUME IInv, AuthorizationFrame, auth' \in [Auths -> AuthRows], KeepsGrants
  PROVE  IInv'
  <1> USE DEF IInv, AuthorizationFrame
  <1>1. TypeOK'
    BY DEF TypeOK
  <1>2. ApprovedHasUser'
    BY DEF ApprovedHasUser, KeepsGrants, SameGrant
  <1>3. ConsumedHasFamily'
    BY DEF ConsumedHasFamily, KeepsGrants, SameGrant, HasFamily
  <1>4. Lineage' /\ SupersededAccessDead'
    BY DEF Lineage, SupersededAccessDead, Exists, WasRotated, HasFamily
  <1>5. GrantsRecorded'
    <2>1. ExchangeRecorded'
      BY DEF GrantsRecorded, ExchangeRecorded, KeepsGrants, SameGrant
    <2>2. FirstGrantHeld'
      BY DEF GrantsRecorded, FirstGrantHeld, KeepsGrants, SameGrant
    <2>3. LaterGrantHeld' /\ RotationRecorded'
      BY DEF GrantsRecorded, LaterGrantHeld, RotationRecorded, WasRotated
    <2> QED
      BY <2>1, <2>2, <2>3 DEF GrantsRecorded
  <1>6. VersionsAgree'
    BY DEF VersionsAgree
  <1> QED
    BY <1>1, <1>2, <1>3, <1>4, <1>5, <1>6

\* A step that changes one row, neither from nor to consumed.
LEMMA OneRowKeepsGrants ==
  ASSUME IInv, NEW a \in Auths, NEW row \in AuthRows,
         auth' = [auth EXCEPT ![a] = row],
         auth[a].status # "consumed", row.status # "consumed",
         row.status = "approved" => row.user \in Users
  PROVE  auth' \in [Auths -> AuthRows] /\ KeepsGrants
  BY DEF IInv, TypeOK, KeepsGrants, ApprovedHasUser, SameGrant

\* Expiring overdue rows touches open rows only.
LEMMA ExpireOverdueRows ==
  ASSUME NEW rows \in [Auths -> AuthRows], NEW t \in Nat
  PROVE  /\ ExpireOverdue(rows, t) \in [Auths -> AuthRows]
         /\ \A a \in Auths :
               \/ ExpireOverdue(rows, t)[a] = rows[a]
               \/ /\ rows[a].status \in LiveStatuses
                  /\ ExpireOverdue(rows, t)[a].status = "expired"
  <1>1. \A a \in Auths : /\ WithStatus(rows[a], "expired", t) \in AuthRows
                        /\ WithStatus(rows[a], "expired", t).status = "expired"
    BY WithStatusRow DEF AuthStatuses
  <1> QED
    BY <1>1 DEF ExpireOverdue

\* Deleting rows leaves every other row as it was.
LEMMA DeleteRows ==
  ASSUME NEW rows \in [Auths -> AuthRows], NEW S
  PROVE  /\ Delete(rows, S) \in [Auths -> AuthRows]
         /\ \A a \in Auths : a \notin S => Delete(rows, S)[a] = rows[a]
         /\ \A a \in Auths : a \in S => Delete(rows, S)[a].status = "deleted"
  <1>1. \A a \in Auths : NoAuth(rows[a].installation) \in AuthRows
    BY NoAuthRow DEF AuthRows
  <1>2. \A a \in Auths :
           LET row == [NoAuth(rows[a].installation) EXCEPT !.status = "deleted"]
           IN  row \in AuthRows /\ row.status = "deleted"
    BY <1>1 DEF AuthRows
  <1> QED
    BY <1>2 DEF Delete

\* Expiring the overdue rows and deleting purgeable ones keeps the grants.
LEMMA PurgeKeepsGrants ==
  ASSUME IInv, NEW t \in Nat, NEW D \in SUBSET Auths,
         \A d \in D : ExpireOverdue(auth, t)[d].status \in {"expired", "denied"}
  PROVE  LET rows == Delete(ExpireOverdue(auth, t), D)
         IN  /\ rows \in [Auths -> AuthRows]
             /\ \A a \in Auths :
                   \/ rows[a] = auth[a]
                   \/ /\ auth[a].status \notin {"consumed"}
                      /\ rows[a].status \in {"expired", "deleted"}
  <1> DEFINE E == ExpireOverdue(auth, t)
             rows == Delete(E, D)
  <1>1. auth \in [Auths -> AuthRows]
    BY DEF IInv, TypeOK
  <1>2. /\ E \in [Auths -> AuthRows]
        /\ \A a \in Auths : \/ E[a] = auth[a]
                            \/ /\ auth[a].status \in LiveStatuses
                               /\ E[a].status = "expired"
    BY <1>1, ExpireOverdueRows
  <1> HIDE DEF E
  <1>3. /\ rows \in [Auths -> AuthRows]
        /\ \A a \in Auths : a \notin D => rows[a] = E[a]
        /\ \A a \in Auths : a \in D => rows[a].status = "deleted"
    BY <1>2, DeleteRows
  <1> HIDE DEF rows
  <1>4. \A d \in D : E[d].status \in {"expired", "denied"}
    BY DEF E
  <1>5. \A a \in Auths :
           \/ rows[a] = auth[a]
           \/ /\ auth[a].status \notin {"consumed"}
              /\ rows[a].status \in {"expired", "deleted"}
    BY <1>2, <1>3, <1>4 DEF LiveStatuses
  <1> QED
    BY <1>3, <1>5 DEF rows, E

\* The sweep that StartAuthorization and the clean-up begin with, as a step.
LEMMA SweepKeepsGrants ==
  ASSUME IInv, NEW rows \in [Auths -> AuthRows], auth' = rows,
         \A a \in Auths :
            \/ rows[a] = auth[a]
            \/ /\ auth[a].status \notin {"consumed"}
               /\ rows[a].status \in {"expired", "deleted", "pending"}
  PROVE  auth' \in [Auths -> AuthRows] /\ KeepsGrants
  BY DEF IInv, KeepsGrants, ApprovedHasUser, SameGrant

\* start_authorization keeps the invariant, whether or not the new row fits.
LEMMA StartAuthorizationKeeps ==
  ASSUME IInv, NEW a \in Auths, NEW i \in Installations, NEW t \in Stamps,
         StartAuthorization(a, i, t)
  PROVE  IInv'
  <1> DEFINE E == ExpireOverdue(auth, t)
             D == Purgeable(E, {"expired"}, t)
             rows == Delete(E, D)
  <1>1. t \in Nat
    BY StampIsNat
  <1>2. D \in SUBSET Auths /\ \A d \in D : E[d].status \in {"expired", "denied"}
    BY DEF Purgeable
  <1>3. /\ rows \in [Auths -> AuthRows]
        /\ \A b \in Auths :
              \/ rows[b] = auth[b]
              \/ /\ auth[b].status \notin {"consumed"}
                 /\ rows[b].status \in {"expired", "deleted"}
    BY <1>1, <1>2, PurgeKeepsGrants
  <1>4. NewAuth(i, t) \in AuthRows /\ NewAuth(i, t).status = "pending"
    BY <1>1, NewAuthRow
  <1>5. /\ auth[a].status = "unused"
        /\ AuthorizationFrame
        /\ auth' = rows \/ auth' = [rows EXCEPT ![a] = NewAuth(i, t)]
    BY DEF StartAuthorization, Prepared, AuthorizationFrame
  <1> HIDE DEF rows
  <1>6. auth' \in [Auths -> AuthRows] /\ KeepsGrants
    <2>1. CASE auth' = rows
      BY <2>1, <1>3, SweepKeepsGrants
    <2>2. CASE auth' = [rows EXCEPT ![a] = NewAuth(i, t)]
      <3>1. auth' \in [Auths -> AuthRows]
        BY <2>2, <1>3, <1>4
      <3>2. \A b \in Auths :
               \/ auth'[b] = auth[b]
               \/ /\ auth[b].status \notin {"consumed"}
                  /\ auth'[b].status \in {"expired", "deleted", "pending"}
        BY <2>2, <1>3, <1>4, <1>5
      <3> QED
        BY <3>1, <3>2, SweepKeepsGrants
    <2> QED
      BY <2>1, <2>2, <1>5
  <1> QED
    BY <1>5, <1>6, AuthorizationStepKeeps

\* Marking an overdue row, and either decision, change one open row.
LEMMA DecisionKeeps ==
  ASSUME IInv, NEW a \in Auths, NEW t \in Stamps,
         \/ ReviewOverdue(a, t)
         \/ ExchangeOverdue(a, t)
         \/ Deny(a, t)
         \/ \E u \in Users : Approve(a, u, t)
  PROVE  IInv'
  <1>1. t \in Nat /\ auth[a] \in AuthRows
    BY StampIsNat DEF IInv, TypeOK
  <1>2. AuthorizationFrame /\ auth[a].status # "consumed"
    BY DEF ReviewOverdue, ExchangeOverdue, Deny, Approve, AuthorizationFrame,
           LiveStatuses
  <1>3. CASE ReviewOverdue(a, t) \/ ExchangeOverdue(a, t) \/ Deny(a, t)
    <2>1. PICK s \in {"expired", "denied"} :
             auth' = [auth EXCEPT ![a] = WithStatus(auth[a], s, t)]
      BY <1>3 DEF ReviewOverdue, ExchangeOverdue, Deny
    <2>2. s \in AuthStatuses /\ s \notin {"consumed", "approved"}
      BY DEF AuthStatuses
    <2>3. /\ WithStatus(auth[a], s, t) \in AuthRows
          /\ WithStatus(auth[a], s, t).status = s
      BY <1>1, <2>2, WithStatusRow
    <2>4. auth' \in [Auths -> AuthRows] /\ KeepsGrants
      BY <1>2, <2>1, <2>2, <2>3, OneRowKeepsGrants
    <2> QED
      BY <1>2, <2>4, AuthorizationStepKeeps
  <1>4. ASSUME NEW u \in Users, Approve(a, u, t)
        PROVE  IInv'
    <2>1. auth' = [auth EXCEPT ![a] = ApprovedBy(auth[a], u, t)]
      BY <1>4 DEF Approve
    <2>2. /\ ApprovedBy(auth[a], u, t) \in AuthRows
          /\ ApprovedBy(auth[a], u, t).status = "approved"
          /\ ApprovedBy(auth[a], u, t).user = u
      BY <1>1, ApprovedByRow
    <2>3. auth' \in [Auths -> AuthRows] /\ KeepsGrants
      BY <1>2, <2>1, <2>2, OneRowKeepsGrants
    <2> QED
      BY <1>2, <2>3, AuthorizationStepKeeps
  <1> QED
    BY <1>3, <1>4

\* A poll that is not answered with credentials only moves the gate.
LEMMA PollKeeps ==
  ASSUME IInv, NEW a \in Auths, NEW t \in Stamps,
         ExchangeTooEarly(a, t) \/ ExchangeNotReady(a, t)
  PROVE  IInv'
  <1>1. t \in Nat /\ auth[a] \in AuthRows
    BY StampIsNat DEF IInv, TypeOK
  <1>2. auth[a].nextPoll + PollInterval \in Nat /\ t + PollInterval \in Nat
    BY <1>1, Deadlines DEF AuthRows
  <1>3. PICK next \in Nat : auth' = [auth EXCEPT ![a] = WithGate(auth[a], next, t)]
    BY <1>2 DEF ExchangeTooEarly, ExchangeNotReady
  <1>4. /\ AuthorizationFrame
        /\ auth[a].status \in LiveStatuses
    BY DEF ExchangeTooEarly, ExchangeNotReady, Exchangeable, AuthorizationFrame
  <1>5. /\ WithGate(auth[a], next, t) \in AuthRows
        /\ WithGate(auth[a], next, t).status = auth[a].status
        /\ WithGate(auth[a], next, t).user = auth[a].user
    BY <1>1, WithGateRow DEF SameGrant
  <1>6. auth[a].status = "approved" => auth[a].user \in Users
    BY DEF IInv, ApprovedHasUser
  <1>7. auth' \in [Auths -> AuthRows] /\ KeepsGrants
    BY <1>3, <1>4, <1>5, <1>6, OneRowKeepsGrants DEF LiveStatuses
  <1> QED
    BY <1>4, <1>7, AuthorizationStepKeeps

\* The clean-up of authorizations never deletes one that has a family.
LEMMA CleanupAuthorizationsKeeps ==
  ASSUME IInv, NEW t \in Stamps, CleanupAuthorizations(t)
  PROVE  IInv'
  <1> DEFINE E == ExpireOverdue(auth, t)
  <1>1. t \in Nat
    BY StampIsNat
  <1>2. PICK D \in SUBSET Auths :
           /\ D \subseteq Purgeable(E, {"expired", "denied"}, t)
           /\ auth' = Delete(E, D)
    BY DEF CleanupAuthorizations, OldestOf
  <1>3. \A d \in D : E[d].status \in {"expired", "denied"}
    BY <1>2 DEF Purgeable
  <1> DEFINE rows == Delete(E, D)
  <1>4. /\ rows \in [Auths -> AuthRows]
        /\ \A b \in Auths :
              \/ rows[b] = auth[b]
              \/ /\ auth[b].status \notin {"consumed"}
                 /\ rows[b].status \in {"expired", "deleted"}
    BY <1>1, <1>3, PurgeKeepsGrants
  <1>5. auth' = rows /\ AuthorizationFrame
    BY <1>2 DEF CleanupAuthorizations, AuthorizationFrame
  <1> HIDE DEF rows
  <1>6. auth' \in [Auths -> AuthRows] /\ KeepsGrants
    BY <1>4, <1>5, SweepKeepsGrants
  <1> QED
    BY <1>5, <1>6, AuthorizationStepKeeps

\* Blanking an exchange result leaves the grant itself in place.
LEMMA EraseExchangeResultsKeeps ==
  ASSUME IInv, NEW t \in Stamps, EraseExchangeResults(t)
  PROVE  IInv'
  <1>1. t \in Nat /\ auth \in [Auths -> AuthRows]
    BY StampIsNat DEF IInv, TypeOK
  <1>2. \A a \in Auths :
           LET row == [auth[a] EXCEPT !.result = "blank", !.updated = t]
           IN  /\ row \in AuthRows
               /\ row.status = auth[a].status
               /\ SameGrant(row, auth[a])
    BY <1>1 DEF AuthRows, SameGrant
  <1>3. /\ auth' \in [Auths -> AuthRows]
        /\ \A a \in Auths : /\ auth'[a].status = auth[a].status
                            /\ SameGrant(auth'[a], auth[a])
    BY <1>1, <1>2 DEF EraseExchangeResults, SameGrant
  <1>4. KeepsGrants
    BY <1>3 DEF KeepsGrants, SameGrant, IInv, ApprovedHasUser
  <1>5. AuthorizationFrame
    BY DEF EraseExchangeResults, AuthorizationFrame
  <1> QED
    BY <1>3, <1>4, <1>5, AuthorizationStepKeeps

-----------------------------------------------------------------------------
\* Steps on a family.

\* Revoking a family, whatever is done to its rotation rows besides, as long
\* as they keep existing with the transaction they are recorded under.
LEMMA RevokeKeeps ==
  ASSUME IInv, NEW a \in Auths, family[a].status = "active", RevokeFamily(a),
         rotation' \in [Auths -> [Generations -> RotationRows]],
         \A b \in Auths, g \in Generations :
            /\ rotation'[b][g].txn = rotation[b][g].txn
            /\ rotation'[b][g].status = "none" <=> rotation[b][g].status = "none",
         UNCHANGED <<clock, userActive, devices, auth, granted>>
  PROVE  IInv'
  <1>1. TypeOK
    BY DEF IInv
  <1>2. /\ RevokedFamily(family[a]) \in FamilyRows
        /\ RevokedFamily(family[a]).status = "revoked"
        /\ RevokedFamily(family[a]).user = family[a].user
    BY <1>1, RevokedFamilyRow DEF TypeOK
  <1>3. /\ family' \in [Auths -> FamilyRows]
        /\ \A b \in Auths :
              /\ family'[b].user = family[b].user
              /\ family'[b].status = "none" <=> family[b].status = "none"
              /\ family'[b].status = "active" => family'[b] = family[b]
    BY <1>1, <1>2 DEF RevokeFamily, TypeOK
  <1>4. \A g \in Generations :
           /\ RevokeRow(access[a][g], {"active"}) \in AccessRows
           /\ RevokeRow(access[a][g], {"active"}).status =
                 IF access[a][g].status \in {"active"} THEN "revoked"
                 ELSE access[a][g].status
    BY <1>1, RevokeAccessRow DEF TypeOK
  <1>5. /\ access' \in [Auths -> [Generations -> AccessRows]]
        /\ \A b \in Auths, g \in Generations :
              /\ access'[b][g].status = "none" <=> access[b][g].status = "none"
              /\ access'[b][g].status = "active" => access[b][g].status = "active"
    BY <1>1, <1>4 DEF RevokeFamily, TypeOK
  <1>6. \A g \in Generations :
           /\ RevokeRow(refresh[a][g], {"active", "rotated"}) \in RefreshRows
           /\ RevokeRow(refresh[a][g], {"active", "rotated"}).status =
                 IF refresh[a][g].status \in {"active", "rotated"} THEN "revoked"
                 ELSE refresh[a][g].status
    BY <1>1, RevokeRefreshRow DEF TypeOK
  <1>7. /\ refresh' \in [Auths -> [Generations -> RefreshRows]]
        /\ \A b \in Auths, g \in Generations :
              \/ refresh'[b][g].status = refresh[b][g].status
              \/ /\ refresh[b][g].status \in {"active", "rotated"}
                 /\ refresh'[b][g].status = "revoked"
    BY <1>1, <1>6 DEF RevokeFamily, TypeOK
  <1>8. TypeOK'
    BY <1>1, <1>3, <1>5, <1>7 DEF TypeOK
  <1>9. ApprovedHasUser' /\ ConsumedHasFamily'
    BY <1>3 DEF IInv, ApprovedHasUser, ConsumedHasFamily, HasFamily
  <1>10. /\ \A b \in Auths, g \in Generations :
               /\ Exists(b, g)' <=> Exists(b, g)
               /\ WasRotated(b, g)' <=> WasRotated(b, g)
         /\ \A b \in Auths : HasFamily(b)' <=> HasFamily(b)
    BY <1>3, <1>7 DEF Exists, WasRotated, HasFamily
  <1>11. 0 \in Generations
    BY BoundAssumption DEF BoundAssumption, Generations
  <1>12. Lineage'
    <2> SUFFICES ASSUME NEW b \in Auths, NEW g \in Generations
                 PROVE  LineageAt(b, g)'
      BY DEF Lineage, LineageAt
    <2>1. /\ Exists(b, 0)' <=> Exists(b, 0)
          /\ g + 1 \in Generations => (Exists(b, g + 1)' <=> Exists(b, g + 1))
      BY <1>10, <1>11
    <2>2. LineageAt(b, g)
      BY DEF IInv, Lineage, LineageAt
    <2> QED
      BY <1>5, <1>7, <1>10, <2>1, <2>2 DEF LineageAt
  <1>13. SupersededAccessDead'
    BY <1>5, <1>10 DEF IInv, SupersededAccessDead
  <1>14. GrantsRecorded'
    BY <1>10 DEF IInv, GrantsRecorded, ExchangeRecorded, FirstGrantHeld,
                 LaterGrantHeld, RotationRecorded
  <1>15. VersionsAgree'
    BY <1>3 DEF IInv, VersionsAgree
  <1> QED
    BY <1>8, <1>9, <1>12, <1>13, <1>14, <1>15 DEF IInv

\* Every way of revoking a family keeps the invariant: by the user, after a
\* replay, after the recovery window, and for a result that cannot be read.
LEMMA RevocationKeeps ==
  ASSUME IInv, NEW a \in Auths, NEW t \in Stamps,
         \/ RevokeFamilyForUser(a)
         \/ \E g \in Generations, txn \in Txns :
               \/ RotateReplay(a, g, txn)
               \/ RotateResultExpired(a, g, txn, t)
               \/ RotateUnreadable(a, g, txn, t)
  PROVE  IInv'
  <1>1. rotation \in [Auths -> [Generations -> RotationRows]]
    BY DEF IInv, TypeOK
  <1>2. CASE RevokeFamilyForUser(a)
    BY <1>1, <1>2, RevokeKeeps DEF RevokeFamilyForUser
  <1>3. ASSUME NEW g \in Generations, NEW txn \in Txns,
               \/ RotateReplay(a, g, txn)
               \/ RotateResultExpired(a, g, txn, t)
               \/ RotateUnreadable(a, g, txn, t)
        PROVE  IInv'
    <2>1. /\ rotation[a][g] \in RotationRows
          /\ rotation[a][g].status # "none"
          /\ family[a].status = "active"
          /\ RevokeFamily(a)
          /\ UNCHANGED <<clock, userActive, devices, auth, granted>>
      BY <1>1, <1>3 DEF RotateReplay, RotateResultExpired, RotateUnreadable,
                        RotationAllowed
    <2>2. /\ ErasedRotation(rotation[a][g]) \in RotationRows
          /\ ErasedRotation(rotation[a][g]).status = "family_revoked"
          /\ ErasedRotation(rotation[a][g]).txn = rotation[a][g].txn
      BY <2>1, ErasedRotationRow
    <2>3. LET row == [rotation[a][g] EXCEPT !.status = "family_revoked"]
          IN  /\ row \in RotationRows
              /\ row.status = "family_revoked"
              /\ row.txn = rotation[a][g].txn
      BY <2>1 DEF RotationRows
    <2>4. PICK row \in RotationRows :
             /\ rotation' = [rotation EXCEPT ![a][g] = row]
             /\ row.status = "family_revoked"
             /\ row.txn = rotation[a][g].txn
      BY <1>3, <2>2, <2>3 DEF RotateReplay, RotateResultExpired,
                              RotateUnreadable
    <2>5. /\ rotation' \in [Auths -> [Generations -> RotationRows]]
          /\ \A b \in Auths, h \in Generations :
                /\ rotation'[b][h].txn = rotation[b][h].txn
                /\ rotation'[b][h].status = "none" <=>
                      rotation[b][h].status = "none"
      BY <1>1, <2>1, <2>4
    <2> QED
      BY <2>1, <2>5, RevokeKeeps
  <1> QED
    BY <1>2, <1>3

\* A refresh credential that has outlived its time is marked as such.
LEMMA RotateExpiredKeeps ==
  ASSUME IInv, NEW a \in Auths, NEW g \in Generations, NEW t \in Stamps,
         RotateExpired(a, g, t)
  PROVE  IInv'
  <1> USE DEF IInv
  <1>1. /\ refresh[a][g].status = "active"
        /\ rotation[a][g].status = "none"
        /\ UNCHANGED <<clock, userActive, devices, auth, family, access,
                       rotation, granted>>
    BY DEF RotateExpired
  <1>2. /\ refresh' \in [Auths -> [Generations -> RefreshRows]]
        /\ \A b \in Auths, h \in Generations :
              \/ refresh'[b][h].status = refresh[b][h].status
              \/ /\ b = a /\ h = g
                 /\ refresh'[b][h].status = "expired"
    <2> DEFINE row == [refresh[a][g] EXCEPT !.status = "expired"]
    <2>1. refresh[a][g] \in RefreshRows
      BY DEF TypeOK
    <2>2. row \in RefreshRows /\ row.status = "expired"
      BY <2>1 DEF RefreshRows
    <2>3. refresh' = [refresh EXCEPT ![a][g] = row]
      BY DEF RotateExpired
    <2> HIDE DEF row
    <2> QED
      BY <2>2, <2>3 DEF TypeOK
  <1>3. TypeOK'
    BY <1>1, <1>2 DEF TypeOK
  <1>4. /\ \A b \in Auths, h \in Generations :
              /\ Exists(b, h)' <=> Exists(b, h)
              /\ WasRotated(b, h)' <=> WasRotated(b, h)
        /\ \A b \in Auths : HasFamily(b)' <=> HasFamily(b)
    BY <1>1, <1>2 DEF Exists, WasRotated, HasFamily
  <1>5. 0 \in Generations
    BY BoundAssumption DEF BoundAssumption, Generations
  <1>6. Lineage'
    <2> SUFFICES ASSUME NEW b \in Auths, NEW h \in Generations
                 PROVE  LineageAt(b, h)'
      BY DEF Lineage, LineageAt
    <2>1. /\ Exists(b, 0)' <=> Exists(b, 0)
          /\ h + 1 \in Generations => (Exists(b, h + 1)' <=> Exists(b, h + 1))
      BY <1>4, <1>5
    <2>2. LineageAt(b, h)
      BY DEF Lineage, LineageAt
    <2>3. ~WasRotated(a, g)
      BY <1>1 DEF WasRotated
    <2> QED
      BY <1>1, <1>2, <1>4, <2>1, <2>2, <2>3 DEF LineageAt
  <1>7. /\ ApprovedHasUser' /\ ConsumedHasFamily' /\ SupersededAccessDead'
        /\ VersionsAgree'
    BY <1>1, <1>4 DEF ApprovedHasUser, ConsumedHasFamily, SupersededAccessDead,
                      VersionsAgree
  <1>8. GrantsRecorded'
    BY <1>1, <1>4 DEF GrantsRecorded, ExchangeRecorded, FirstGrantHeld,
                      LaterGrantHeld, RotationRecorded
  <1> QED
    BY <1>3, <1>6, <1>7, <1>8

\* An access session that has outlived its time is marked as such.
LEMMA AuthenticateOverdueKeeps ==
  ASSUME IInv, NEW a \in Auths, NEW g \in Generations, NEW t \in Stamps,
         AuthenticateOverdue(a, g, t)
  PROVE  IInv'
  <1> USE DEF IInv
  <1>1. /\ access[a][g].status = "active"
        /\ UNCHANGED <<clock, userActive, devices, auth, family, refresh,
                       rotation, granted>>
    BY DEF AuthenticateOverdue, AccessStanding
  <1>2. /\ access' \in [Auths -> [Generations -> AccessRows]]
        /\ \A b \in Auths, h \in Generations :
              /\ access'[b][h].status = "none" <=> access[b][h].status = "none"
              /\ access'[b][h].status = "active" => access[b][h].status = "active"
    <2> DEFINE row == [access[a][g] EXCEPT !.status = "expired"]
    <2>1. access[a][g] \in AccessRows
      BY DEF TypeOK
    <2>2. row \in AccessRows /\ row.status = "expired"
      BY <2>1 DEF AccessRows
    <2>3. access' = [access EXCEPT ![a][g] = row]
      BY DEF AuthenticateOverdue
    <2> HIDE DEF row
    <2> QED
      BY <1>1, <2>2, <2>3 DEF TypeOK
  <1>3. TypeOK'
    BY <1>1, <1>2 DEF TypeOK
  <1>4. Lineage' /\ SupersededAccessDead'
    <2>1. \A b \in Auths, h \in Generations : LineageAt(b, h)
      BY DEF Lineage, LineageAt
    <2>2. \A b \in Auths, h \in Generations : LineageAt(b, h)'
      BY <1>1, <1>2, <2>1 DEF LineageAt, Exists, WasRotated, HasFamily
    <2>3. Lineage'
      BY <2>2 DEF Lineage, LineageAt
    <2>4. SupersededAccessDead'
      BY <1>1, <1>2 DEF SupersededAccessDead, WasRotated
    <2> QED
      BY <2>3, <2>4
  <1>5. ApprovedHasUser' /\ ConsumedHasFamily' /\ VersionsAgree'
    BY <1>1 DEF ApprovedHasUser, ConsumedHasFamily, VersionsAgree, HasFamily
  <1>6. GrantsRecorded'
    BY <1>1 DEF GrantsRecorded, ExchangeRecorded, FirstGrantHeld,
                LaterGrantHeld, RotationRecorded, WasRotated
  <1> QED
    BY <1>3, <1>4, <1>5, <1>6

\* A step that leaves every table but users alone keeps the invariant.
LEMMA TablesKeep ==
  ASSUME IInv, clock' \in Nat, userActive' \in [Users -> BOOLEAN],
         UNCHANGED <<devices, auth, family, access, refresh, rotation, granted>>
  PROVE  IInv'
  <1> USE DEF IInv
  <1>1. TypeOK'
    BY DEF TypeOK
  <1>2. ApprovedHasUser' /\ ConsumedHasFamily' /\ VersionsAgree'
    BY DEF ApprovedHasUser, ConsumedHasFamily, VersionsAgree, HasFamily
  <1>3. Lineage' /\ SupersededAccessDead'
    BY DEF Lineage, SupersededAccessDead, Exists, WasRotated, HasFamily
  <1>4. GrantsRecorded'
    BY DEF GrantsRecorded, ExchangeRecorded, FirstGrantHeld, LaterGrantHeld,
           RotationRecorded, WasRotated
  <1> QED
    BY <1>1, <1>2, <1>3, <1>4

\* Time passing keeps the invariant.
LEMMA TickKeeps == ASSUME IInv, Tick PROVE IInv'
  <1>1. clock' \in Nat /\ userActive' \in [Users -> BOOLEAN]
    BY DEF Tick, IInv, TypeOK
  <1> QED
    BY <1>1, TablesKeep DEF Tick

\* Enabling or disabling a user keeps the invariant.
LEMMA SetUserStatusKeeps ==
  ASSUME IInv, NEW u \in Users, NEW b \in BOOLEAN, SetUserStatus(u, b)
  PROVE  IInv'
  <1>1. clock' \in Nat /\ userActive' \in [Users -> BOOLEAN]
    BY DEF SetUserStatus, IInv, TypeOK
  <1> QED
    BY <1>1, TablesKeep DEF SetUserStatus

\* A password change revokes families without touching their other rows.
LEMMA ChangeOwnPasswordKeeps ==
  ASSUME IInv, NEW u \in Users, NEW keep, ChangeOwnPassword(u, keep)
  PROVE  IInv'
  <1> USE DEF IInv
  <1>1. \A b \in Auths :
           /\ RevokedFamily(family[b]) \in FamilyRows
           /\ RevokedFamily(family[b]).status = "revoked"
           /\ RevokedFamily(family[b]).user = family[b].user
    BY RevokedFamilyRow DEF TypeOK
  <1>2. /\ family' \in [Auths -> FamilyRows]
        /\ \A b \in Auths :
              /\ family'[b].user = family[b].user
              /\ family'[b].status = "none" <=> family[b].status = "none"
              /\ family'[b].status = "active" => family'[b] = family[b]
    BY <1>1 DEF ChangeOwnPassword, TypeOK
  <1>3. UNCHANGED <<clock, userActive, devices, auth, access, refresh,
                    rotation, granted>>
    BY DEF ChangeOwnPassword
  <1>4. TypeOK'
    BY <1>2, <1>3 DEF TypeOK
  <1>5. ApprovedHasUser' /\ ConsumedHasFamily' /\ VersionsAgree'
    BY <1>2, <1>3 DEF ApprovedHasUser, ConsumedHasFamily, VersionsAgree,
                      HasFamily
  <1>6. Lineage' /\ SupersededAccessDead'
    BY <1>2, <1>3 DEF Lineage, SupersededAccessDead, Exists, WasRotated,
                      HasFamily
  <1>7. GrantsRecorded'
    BY <1>3 DEF GrantsRecorded, ExchangeRecorded, FirstGrantHeld,
                LaterGrantHeld, RotationRecorded, WasRotated
  <1> QED
    BY <1>4, <1>5, <1>6, <1>7

\* Blanking rotation results leaves the rotations themselves in place.
LEMMA CleanupRotationResultsKeeps ==
  ASSUME IInv, NEW t \in Stamps, CleanupRotationResults(t)
  PROVE  IInv'
  <1> USE DEF IInv
  <1>1. \A b \in Auths, h \in Generations :
           LET row == [rotation[b][h] EXCEPT !.result = "blank"]
           IN  /\ row \in RotationRows
               /\ row.status = rotation[b][h].status
               /\ row.txn = rotation[b][h].txn
    <2>1. \A r \in RotationRows :
             LET row == [r EXCEPT !.result = "blank"]
             IN  row \in RotationRows /\ row.status = r.status /\ row.txn = r.txn
      BY DEF RotationRows
    <2> QED
      BY <2>1 DEF TypeOK
  <1>2. PICK D :
           rotation' = [b \in Auths |-> [h \in Generations |->
              IF <<b, h>> \in D THEN [rotation[b][h] EXCEPT !.result = "blank"]
              ELSE rotation[b][h]]]
    BY DEF CleanupRotationResults
  <1>3. /\ rotation' \in [Auths -> [Generations -> RotationRows]]
        /\ \A b \in Auths, h \in Generations :
              /\ rotation'[b][h].status = rotation[b][h].status
              /\ rotation'[b][h].txn = rotation[b][h].txn
    BY <1>1, <1>2 DEF TypeOK
  <1>4. UNCHANGED <<clock, userActive, devices, auth, family, access, refresh,
                    granted>>
    BY DEF CleanupRotationResults
  <1>5. TypeOK'
    BY <1>3, <1>4 DEF TypeOK
  <1>6. ApprovedHasUser' /\ ConsumedHasFamily' /\ VersionsAgree'
    BY <1>4 DEF ApprovedHasUser, ConsumedHasFamily, VersionsAgree, HasFamily
  <1>7. \A b \in Auths, h \in Generations : WasRotated(b, h)' <=> WasRotated(b, h)
    BY <1>3 DEF WasRotated
  <1>8. Lineage' /\ SupersededAccessDead'
    BY <1>4, <1>7 DEF Lineage, SupersededAccessDead, Exists, HasFamily
  <1>9. GrantsRecorded'
    BY <1>3, <1>4, <1>7 DEF GrantsRecorded, ExchangeRecorded, FirstGrantHeld,
                            LaterGrantHeld, RotationRecorded
  <1> QED
    BY <1>5, <1>6, <1>8, <1>9

\* Answering a repeated exchange or rotation from the stored result hands out
\* only what its transaction already holds, so it changes nothing at all.
LEMMA RecoverChangesNothing ==
  ASSUME IInv, NEW a \in Auths, NEW txn \in Txns, NEW t \in Stamps,
         \/ ExchangeRecover(a, txn, t)
         \/ \E g \in Generations : RotateRecover(a, g, txn, t)
  PROVE  UNCHANGED vars
  <1>1. CASE ExchangeRecover(a, txn, t)
    <2>1. <<a, 0, txn>> \in granted
      BY <1>1 DEF ExchangeRecover, IInv, GrantsRecorded, ExchangeRecorded
    <2> QED
      BY <1>1, <2>1 DEF ExchangeRecover, vars
  <1>2. ASSUME NEW g \in Generations, RotateRecover(a, g, txn, t)
        PROVE  UNCHANGED vars
    <2>1. <<a, g + 1, txn>> \in granted
      BY <1>2 DEF RotateRecover, IInv, GrantsRecorded, RotationRecorded,
                  WasRotated
    <2> QED
      BY <1>2, <2>1 DEF RotateRecover, vars
  <1> QED
    BY <1>1, <1>2

\* A step that changes nothing keeps the invariant.
LEMMA StutterKeeps == IInv /\ UNCHANGED vars => IInv'
  BY TablesKeep DEF vars, IInv, TypeOK

\* The exchange opens a family on an authorization that had none.
LEMMA ExchangeIssueKeeps ==
  ASSUME IInv, NEW a \in Auths, NEW txn \in Txns, NEW t \in Stamps,
         ExchangeIssue(a, txn, t)
  PROVE  IInv'
  <1> DEFINE u == auth[a].user
             refreshRow == [status |-> "active", expires |-> t + RefreshSlidingTtl]
  <1>1. t \in Nat /\ 0 \in Generations
    BY StampIsNat, BoundAssumption DEF BoundAssumption, Generations
  <1>2. TypeOK /\ Lineage /\ ConsumedHasFamily
    BY DEF IInv
  <1>3. auth[a].status = "approved" /\ u \in Users
    BY DEF ExchangeIssue, IInv, ApprovedHasUser
  <1>4. /\ devices' = devices \cup {<<u, auth[a].installation>>}
        /\ family' = [family EXCEPT ![a] = NewFamily(u, t)]
        /\ access' = [access EXCEPT ![a][0] = NewAccess(t)]
        /\ refresh' = [refresh EXCEPT ![a][0] = refreshRow]
        /\ auth' = [auth EXCEPT ![a] = ConsumedBy(auth[a], txn, t)]
        /\ granted' = granted \cup {<<a, 0, txn>>}
        /\ UNCHANGED <<clock, userActive, rotation>>
    BY DEF ExchangeIssue
  <1>5. /\ ~HasFamily(a)
        /\ ~Exists(a, 0)
        /\ ~WasRotated(a, 0)
    <2>1. LineageAt(a, 0) /\ ~HasFamily(a)
      BY <1>1, <1>2, <1>3 DEF Lineage, LineageAt, ConsumedHasFamily
    <2> QED
      BY <2>1 DEF LineageAt, Exists
  <1>6. /\ NewFamily(u, t) \in FamilyRows
        /\ NewFamily(u, t).status = "active"
        /\ NewFamily(u, t).user = u
        /\ NewFamily(u, t).version = DeviceVersion
    BY <1>1, <1>3, Deadlines DEF NewFamily, FamilyRows, DeviceVersion
  <1>7. NewAccess(t) \in AccessRows /\ NewAccess(t).status = "active"
    BY <1>1, Deadlines DEF NewAccess, AccessRows, DeviceVersion
  <1>8. refreshRow \in RefreshRows /\ refreshRow.status = "active"
    BY <1>1, Deadlines DEF RefreshRows
  <1>9. /\ ConsumedBy(auth[a], txn, t) \in AuthRows
        /\ ConsumedBy(auth[a], txn, t).status = "consumed"
        /\ ConsumedBy(auth[a], txn, t).txn = txn
        /\ ConsumedBy(auth[a], txn, t).user = u
        /\ ConsumedBy(auth[a], txn, t).installation = auth[a].installation
    BY <1>1, <1>2, ConsumedByRow DEF TypeOK
  <1> HIDE DEF u, refreshRow
  <1>10. auth[a].installation \in Installations
    BY <1>2 DEF TypeOK, AuthRows
  <1>11. /\ auth' \in [Auths -> AuthRows]
         /\ family' \in [Auths -> FamilyRows]
         /\ access' \in [Auths -> [Generations -> AccessRows]]
         /\ refresh' \in [Auths -> [Generations -> RefreshRows]]
    BY <1>1, <1>2, <1>4, <1>6, <1>7, <1>8, <1>9 DEF TypeOK
  <1>12. /\ devices' \subseteq Users \X Installations
         /\ granted' \subseteq Auths \X Generations \X Txns
    BY <1>1, <1>2, <1>3, <1>4, <1>10 DEF TypeOK
  <1>13. TypeOK'
    BY <1>2, <1>4, <1>11, <1>12 DEF TypeOK
  <1>14. /\ auth'[a] = ConsumedBy(auth[a], txn, t)
         /\ family'[a] = NewFamily(u, t)
         /\ \A b \in Auths \ {a} : /\ auth'[b] = auth[b]
                                   /\ family'[b] = family[b]
                                   /\ access'[b] = access[b]
                                   /\ refresh'[b] = refresh[b]
    BY <1>2, <1>4 DEF TypeOK
  <1>15. ApprovedHasUser'
    BY <1>3, <1>9, <1>14 DEF IInv, ApprovedHasUser
  <1>16. ConsumedHasFamily'
    BY <1>2, <1>4, <1>6, <1>9, <1>14 DEF ConsumedHasFamily, HasFamily
  <1>17. Lineage'
    <2> SUFFICES ASSUME NEW b \in Auths, NEW h \in Generations
                 PROVE  LineageAt(b, h)'
      BY DEF Lineage, LineageAt
    <2>1. LineageAt(b, h)
      BY <1>2 DEF Lineage, LineageAt
    <2>2. CASE b # a
      BY <1>4, <1>14, <2>1, <2>2 DEF LineageAt, Exists, WasRotated, HasFamily
    <2>3. CASE b = a
      <3>1. /\ access'[a][0] = NewAccess(t)
            /\ refresh'[a][0] = refreshRow
            /\ \A g \in Generations \ {0} : /\ access'[a][g] = access[a][g]
                                            /\ refresh'[a][g] = refresh[a][g]
        BY <1>1, <1>2, <1>4 DEF TypeOK
      <3>2. HasFamily(a)' /\ Exists(a, 0)'
        BY <1>6, <1>8, <1>14, <3>1 DEF HasFamily, Exists
      <3>3. h + 1 \in Generations => h + 1 # 0
        BY DEF Generations
      <3>4. /\ WasRotated(a, h)' <=> WasRotated(a, h)
            /\ h + 1 \in Generations => (Exists(a, h + 1)' <=> Exists(a, h + 1))
        BY <1>4, <3>1, <3>3 DEF WasRotated, Exists
      <3>5. CASE h = 0
        BY <1>5, <1>7, <1>8, <2>1, <2>3, <3>1, <3>2, <3>4, <3>5 DEF LineageAt
      <3>6. CASE h # 0
        BY <2>1, <2>3, <3>1, <3>2, <3>4, <3>6 DEF LineageAt, Exists
      <3> QED
        BY <3>5, <3>6
    <2> QED
      BY <2>2, <2>3
  <1>18. SupersededAccessDead'
    <2> SUFFICES ASSUME NEW b \in Auths, NEW h \in Generations, WasRotated(b, h)'
                 PROVE  access'[b][h].status # "active"
      BY DEF SupersededAccessDead
    <2>1. WasRotated(b, h)
      BY <1>4 DEF WasRotated
    <2>2. b # a \/ h # 0
      BY <1>5, <2>1
    <2>3. access'[b][h] = access[b][h]
      BY <1>1, <1>2, <1>4, <2>2 DEF TypeOK
    <2> QED
      BY <2>1, <2>3 DEF IInv, SupersededAccessDead
  <1>19. GrantsRecorded'
    <2>1. ExchangeRecorded'
      BY <1>4, <1>9, <1>14 DEF IInv, GrantsRecorded, ExchangeRecorded
    <2>2. FirstGrantHeld'
      BY <1>3, <1>4, <1>9, <1>14 DEF IInv, GrantsRecorded, FirstGrantHeld
    <2>3. \A g \in Generations : g + 1 # 0
      BY DEF Generations
    <2>4. LaterGrantHeld'
      BY <1>4, <2>3 DEF IInv, GrantsRecorded, LaterGrantHeld, WasRotated
    <2>5. RotationRecorded'
      BY <1>4 DEF IInv, GrantsRecorded, RotationRecorded, WasRotated
    <2> QED
      BY <2>1, <2>2, <2>4, <2>5 DEF GrantsRecorded
  <1>20. VersionsAgree'
    BY <1>6, <1>14 DEF IInv, VersionsAgree
  <1> QED
    BY <1>13, <1>15, <1>16, <1>17, <1>18, <1>19, <1>20 DEF IInv

\* A rotation puts generation g + 1 where nothing was, retires generation g
\* and records the transaction.
LEMMA RotateIssueKeeps ==
  ASSUME IInv, NEW a \in Auths, NEW g \in Generations, NEW txn \in Txns,
         NEW t \in Stamps, RotateIssue(a, g, txn, t)
  PROVE  IInv'
  <1> DEFINE expires == NextRefreshExpires(a, t)
             rotated == [refresh[a][g] EXCEPT !.status = "rotated"]
             issued == [status |-> "active", expires |-> expires]
             retired == RevokeRow(access[a][g], {"active"})
             record == [status |-> "completed", txn |-> txn, result |-> "stored",
                        expires |-> t + IdempotencyTtl]
             slid == [family[a] EXCEPT !.sliding = expires]
  <1>1. /\ t \in Nat
        /\ g \in Nat
        /\ g + 1 \in Generations
        /\ g + 1 # g
        /\ 0 \in Generations
        /\ g + 1 # 0
    BY StampIsNat, BoundAssumption DEF BoundAssumption, Generations, RotateIssue
  <1>2. TypeOK /\ Lineage
    BY DEF IInv
  <1>3. expires \in Nat
    <2>1. family[a].absolute \in Nat /\ t + RefreshSlidingTtl \in Nat
      BY <1>1, <1>2, Deadlines DEF TypeOK, FamilyRows
    <2> QED
      BY <2>1 DEF NextRefreshExpires, MinOf
  <1>4. /\ refresh[a][g].status = "active"
        /\ rotation[a][g].status = "none"
        /\ family' = [family EXCEPT ![a] = slid]
        /\ access' = [access EXCEPT ![a][g] = retired,
                                    ![a][g + 1] = NewAccess(t)]
        /\ refresh' = [refresh EXCEPT ![a][g] = rotated,
                                      ![a][g + 1] = issued]
        /\ rotation' = [rotation EXCEPT ![a][g] = record]
        /\ granted' = granted \cup {<<a, g + 1, txn>>}
        /\ UNCHANGED <<clock, userActive, devices, auth>>
    BY DEF RotateIssue, RefreshRotated, AccessRotated
  <1>5. rotated \in RefreshRows /\ rotated.status = "rotated"
    <2>1. refresh[a][g] \in RefreshRows
      BY <1>2 DEF TypeOK
    <2> QED
      BY <2>1 DEF RefreshRows
  <1>6. issued \in RefreshRows /\ issued.status = "active"
    BY <1>3 DEF RefreshRows
  <1>7. /\ retired \in AccessRows
        /\ retired.status # "active"
        /\ retired.status # "none" <=> access[a][g].status # "none"
    BY <1>2, RevokeAccessRow DEF TypeOK
  <1>8. NewAccess(t) \in AccessRows /\ NewAccess(t).status = "active"
    BY <1>1, Deadlines DEF NewAccess, AccessRows, DeviceVersion
  <1>9. record \in RotationRows /\ record.status = "completed" /\ record.txn = txn
    BY <1>1, Deadlines DEF RotationRows
  <1>10. /\ slid \in FamilyRows
         /\ slid.status = family[a].status
         /\ slid.user = family[a].user
         /\ slid.version = family[a].version
    <2>1. family[a] \in FamilyRows
      BY <1>2 DEF TypeOK
    <2> QED
      BY <1>3, <2>1 DEF FamilyRows
  <1> HIDE DEF expires, rotated, issued, retired, record, slid
  <1>11. /\ refresh'[a][g] = rotated /\ refresh'[a][g + 1] = issued
         /\ access'[a][g] = retired /\ access'[a][g + 1] = NewAccess(t)
         /\ rotation'[a][g] = record
         /\ family'[a] = slid
    BY <1>1, <1>2, <1>4 DEF TypeOK
  <1>12. \A b \in Auths, h \in Generations :
            /\ b # a \/ h \notin {g, g + 1} => /\ refresh'[b][h] = refresh[b][h]
                                               /\ access'[b][h] = access[b][h]
            /\ b # a \/ h # g => rotation'[b][h] = rotation[b][h]
            /\ b # a => family'[b] = family[b]
    BY <1>1, <1>2, <1>4 DEF TypeOK
  <1>13. TypeOK'
    <2>1. /\ refresh' \in [Auths -> [Generations -> RefreshRows]]
          /\ access' \in [Auths -> [Generations -> AccessRows]]
      BY <1>1, <1>2, <1>4, <1>5, <1>6, <1>7, <1>8 DEF TypeOK
    <2>2. /\ rotation' \in [Auths -> [Generations -> RotationRows]]
          /\ family' \in [Auths -> FamilyRows]
      BY <1>2, <1>4, <1>9, <1>10 DEF TypeOK
    <2>3. granted' \subseteq Auths \X Generations \X Txns
      BY <1>1, <1>2, <1>4 DEF TypeOK
    <2> QED
      BY <1>2, <1>4, <2>1, <2>2, <2>3 DEF TypeOK
  <1>14. /\ Exists(a, g) /\ ~WasRotated(a, g)
         /\ ~Exists(a, g + 1) /\ ~WasRotated(a, g + 1)
    <2>1. LineageAt(a, g) /\ LineageAt(a, g + 1)
      BY <1>1, <1>2 DEF Lineage, LineageAt
    <2> QED
      BY <1>1, <1>4, <2>1 DEF LineageAt, Exists, WasRotated
  <1>15. /\ \A b \in Auths : HasFamily(b)' <=> HasFamily(b)
         /\ \A b \in Auths, h \in Generations :
               /\ Exists(b, h)' <=> Exists(b, h) \/ (b = a /\ h = g + 1)
               /\ WasRotated(b, h)' <=> WasRotated(b, h) \/ (b = a /\ h = g)
    <2>1. \A b \in Auths : HasFamily(b)' <=> HasFamily(b)
      BY <1>1, <1>10, <1>11, <1>12 DEF HasFamily
    <2>2. \A b \in Auths, h \in Generations :
             Exists(b, h)' <=> Exists(b, h) \/ (b = a /\ h = g + 1)
      BY <1>1, <1>5, <1>6, <1>11, <1>12, <1>14 DEF Exists
    <2>3. \A b \in Auths, h \in Generations :
             WasRotated(b, h)' <=> WasRotated(b, h) \/ (b = a /\ h = g)
      BY <1>9, <1>11, <1>12 DEF WasRotated
    <2> QED
      BY <2>1, <2>2, <2>3
  <1>16. Lineage'
    <2> SUFFICES ASSUME NEW b \in Auths, NEW h \in Generations
                 PROVE  LineageAt(b, h)'
      BY DEF Lineage, LineageAt
    <2>1. LineageAt(b, h)
      BY <1>2 DEF Lineage, LineageAt
    <2>2. Exists(b, 0)' <=> HasFamily(b)'
      BY <1>1, <1>15, <2>1 DEF LineageAt
    <2>3. access'[b][h].status # "none" <=> Exists(b, h)'
      <3>1. CASE b = a /\ h = g
        BY <1>7, <1>11, <1>14, <1>15, <2>1, <3>1 DEF LineageAt
      <3>2. CASE b = a /\ h = g + 1
        BY <1>8, <1>11, <1>15, <3>2
      <3>3. CASE b # a \/ h \notin {g, g + 1}
        BY <1>12, <1>15, <2>1, <3>3 DEF LineageAt
      <3> QED
        BY <3>1, <3>2, <3>3
    <2>4. WasRotated(b, h)' <=> h + 1 \in Generations /\ Exists(b, h + 1)'
      <3>1. h + 1 = g + 1 <=> h = g
        BY DEF Generations
      <3> QED
        BY <1>1, <1>15, <2>1, <3>1 DEF LineageAt
    <2>5. /\ WasRotated(b, h)' => refresh'[b][h].status \in {"rotated", "revoked"}
          /\ refresh'[b][h].status = "rotated" => WasRotated(b, h)'
      <3>1. CASE b = a /\ h = g
        BY <1>5, <1>11, <1>15, <3>1
      <3>2. CASE b = a /\ h = g + 1
        BY <1>1, <1>6, <1>11, <1>14, <1>15, <3>2
      <3>3. CASE b # a \/ h \notin {g, g + 1}
        BY <1>12, <1>15, <2>1, <3>3 DEF LineageAt
      <3> QED
        BY <3>1, <3>2, <3>3
    <2> QED
      BY <2>2, <2>3, <2>4, <2>5 DEF LineageAt
  <1>17. SupersededAccessDead'
    <2> SUFFICES ASSUME NEW b \in Auths, NEW h \in Generations, WasRotated(b, h)'
                 PROVE  access'[b][h].status # "active"
      BY DEF SupersededAccessDead
    <2>1. CASE b = a /\ h = g
      BY <1>7, <1>11, <2>1
    <2>2. CASE ~(b = a /\ h = g)
      <3>1. WasRotated(b, h)
        BY <1>15, <2>2
      <3>2. b # a \/ h \notin {g, g + 1}
        BY <1>14, <2>2, <3>1
      <3> QED
        BY <1>12, <3>1, <3>2 DEF IInv, SupersededAccessDead
    <2> QED
      BY <2>1, <2>2
  <1>18. GrantsRecorded'
    <2>1. ExchangeRecorded'
      BY <1>4 DEF IInv, GrantsRecorded, ExchangeRecorded
    <2>2. FirstGrantHeld'
      BY <1>1, <1>4 DEF IInv, GrantsRecorded, FirstGrantHeld
    <2>3. LaterGrantHeld'
      <3> SUFFICES ASSUME NEW b \in Auths, NEW h \in Generations, NEW x \in Txns,
                          <<b, h + 1, x>> \in granted'
                   PROVE  WasRotated(b, h)' /\ rotation'[b][h].txn = x
        BY DEF LaterGrantHeld
      <3>1. h + 1 = g + 1 <=> h = g
        BY DEF Generations
      <3>2. CASE <<b, h + 1, x>> \in granted
        <4>1. WasRotated(b, h) /\ rotation[b][h].txn = x
          BY <3>2 DEF IInv, GrantsRecorded, LaterGrantHeld
        <4>2. b # a \/ h # g
          BY <1>14, <4>1
        <4> QED
          BY <1>12, <1>15, <4>1, <4>2
      <3>3. CASE <<b, h + 1, x>> = <<a, g + 1, txn>>
        BY <1>9, <1>11, <1>15, <3>1, <3>3
      <3> QED
        BY <1>4, <3>2, <3>3
    <2>4. RotationRecorded'
      <3> SUFFICES ASSUME NEW b \in Auths, NEW h \in Generations,
                          WasRotated(b, h)'
                   PROVE  /\ rotation'[b][h].txn \in Txns
                          /\ <<b, h + 1, rotation'[b][h].txn>> \in granted'
        BY DEF RotationRecorded
      <3>1. CASE b = a /\ h = g
        BY <1>4, <1>9, <1>11, <3>1
      <3>2. CASE ~(b = a /\ h = g)
        BY <1>4, <1>12, <1>15, <3>2 DEF IInv, GrantsRecorded, RotationRecorded
      <3> QED
        BY <3>1, <3>2
    <2> QED
      BY <2>1, <2>2, <2>3, <2>4 DEF GrantsRecorded
  <1>19. ApprovedHasUser' /\ ConsumedHasFamily' /\ VersionsAgree'
    BY <1>1, <1>4, <1>10, <1>11, <1>12, <1>15 DEF IInv, ApprovedHasUser,
       ConsumedHasFamily, VersionsAgree
  <1> QED
    BY <1>13, <1>16, <1>17, <1>18, <1>19 DEF IInv

-----------------------------------------------------------------------------
\* Every step keeps the invariant, one action at a time.
LEMMA NextIInv == IInv /\ [Next]_vars => IInv'
  <1> SUFFICES ASSUME IInv, [Next]_vars PROVE IInv'
    OBVIOUS
  <1>1. CASE UNCHANGED vars
    BY <1>1, StutterKeeps
  <1>2. CASE Tick
    BY <1>2, TickKeeps
  <1>3. ASSUME NEW a \in Auths, NEW t \in Stamps, AuthorizationStep(a, t)
        PROVE  IInv'
    <2>1. ASSUME NEW i \in Installations, StartAuthorization(a, i, t)
          PROVE  IInv'
      BY <2>1, StartAuthorizationKeeps
    <2>2. CASE \/ ReviewOverdue(a, t) \/ ExchangeOverdue(a, t) \/ Deny(a, t)
               \/ \E u \in Users : Approve(a, u, t)
      BY <2>2, DecisionKeeps
    <2>3. CASE ExchangeTooEarly(a, t) \/ ExchangeNotReady(a, t)
      BY <2>3, PollKeeps
    <2>4. ASSUME NEW txn \in Txns, ExchangeIssue(a, txn, t)
          PROVE  IInv'
      BY <2>4, ExchangeIssueKeeps
    <2>5. ASSUME NEW txn \in Txns, ExchangeRecover(a, txn, t)
          PROVE  IInv'
      BY <2>5, RecoverChangesNothing, StutterKeeps
    <2> QED
      BY <1>3, <2>1, <2>2, <2>3, <2>4, <2>5 DEF AuthorizationStep, Exchange
  <1>4. ASSUME NEW a \in Auths, NEW t \in Stamps, FamilyStep(a, t)
        PROVE  IInv'
    <2>1. CASE RevokeFamilyForUser(a)
      BY <2>1, RevocationKeeps
    <2>2. ASSUME NEW g \in Generations, AuthenticateOverdue(a, g, t)
          PROVE  IInv'
      BY <2>2, AuthenticateOverdueKeeps
    <2>3. ASSUME NEW g \in Generations, NEW txn \in Txns, Rotate(a, g, txn, t)
          PROVE  IInv'
      <3>1. CASE \/ RotateReplay(a, g, txn)
                 \/ RotateResultExpired(a, g, txn, t)
                 \/ RotateUnreadable(a, g, txn, t)
        BY <3>1, RevocationKeeps
      <3>2. CASE RotateRecover(a, g, txn, t)
        BY <3>2, RecoverChangesNothing, StutterKeeps
      <3>3. CASE RotateExpired(a, g, t)
        BY <3>3, RotateExpiredKeeps
      <3>4. CASE RotateIssue(a, g, txn, t)
        BY <3>4, RotateIssueKeeps
      <3> QED
        BY <2>3, <3>1, <3>2, <3>3, <3>4 DEF Rotate
    <2> QED
      BY <1>4, <2>1, <2>2, <2>3 DEF FamilyStep
  <1>5. CASE UserStep
    <2>1. ASSUME NEW u \in Users, NEW keep, ChangeOwnPassword(u, keep)
          PROVE  IInv'
      BY <2>1, ChangeOwnPasswordKeeps
    <2>2. ASSUME NEW u \in Users, NEW b \in BOOLEAN, SetUserStatus(u, b)
          PROVE  IInv'
      BY <2>2, SetUserStatusKeeps
    <2> QED
      BY <1>5, <2>1, <2>2 DEF UserStep
  <1>6. ASSUME NEW t \in Stamps, Cleanup(t)
        PROVE  IInv'
    BY <1>6, CleanupAuthorizationsKeeps, EraseExchangeResultsKeeps,
       CleanupRotationResultsKeeps DEF Cleanup
  <1> QED
    BY <1>1, <1>2, <1>3, <1>4, <1>5, <1>6 DEF Next

\* The inductive invariant holds throughout.
THEOREM Invariance == Spec => []IInv
  BY InitIInv, NextIInv, PTL DEF Spec

\* No operation of device_sessions.rs, in any order and with any stamps,
\* writes a row outside the columns' domains.
THEOREM TypeCorrect == Spec => []TypeOK
  <1>1. IInv => TypeOK
    BY DEF IInv
  <1> QED
    BY <1>1, Invariance, PTL

\* An authorization is consumed exactly when it has a family, belonging to the
\* user who approved it (exchange_in_transaction).
THEOREM ExchangeSound == Spec => []ConsumedHasFamily
  <1>1. IInv => ConsumedHasFamily
    BY DEF IInv
  <1> QED
    BY <1>1, Invariance, PTL

\* The generations of every family form one unbroken line
\* (rotate_refresh_in_transaction).
THEOREM OneLine == Spec => []Lineage
  <1>1. IInv => Lineage
    BY DEF IInv
  <1> QED
    BY <1>1, Invariance, PTL

\* A rotated generation neither authenticates nor rotates again.
THEOREM SupersededDead == Spec => []SupersededTokensDie
  <1>1. IInv => SupersededTokensDie
    <2> SUFFICES ASSUME IInv, NEW a \in Auths, NEW g \in Generations,
                        WasRotated(a, g)
                 PROVE  /\ refresh[a][g].status # "active"
                        /\ \A t \in Stamps : ~Authenticates(a, g, t)
      BY DEF SupersededTokensDie
    <2>1. refresh[a][g].status # "active"
      BY DEF IInv, Lineage
    <2>2. access[a][g].status # "active"
      BY DEF IInv, SupersededAccessDead
    <2> QED
      BY <2>1, <2>2 DEF Authenticates, AccessStanding
  <1> QED
    BY <1>1, Invariance, PTL

\* No two client transactions are ever handed the same generation.
THEOREM SingleHolder == Spec => []OneHolder
  <1>1. IInv => OneHolder
    <2> SUFFICES ASSUME IInv, NEW x \in granted, NEW y \in granted,
                        x[1] = y[1], x[2] = y[2]
                 PROVE  x[3] = y[3]
      BY DEF OneHolder
    <2> DEFINE a == x[1]
               g == x[2]
    <2>1. /\ a \in Auths /\ g \in Generations
          /\ x[3] \in Txns /\ y[3] \in Txns
          /\ x = <<a, g, x[3]>> /\ y = <<a, g, y[3]>>
      BY DEF IInv, TypeOK
    <2>2. CASE g = 0
      <3>1. <<a, 0, x[3]>> \in granted /\ <<a, 0, y[3]>> \in granted
        BY <2>1, <2>2
      <3> QED
        BY <2>1, <3>1 DEF IInv, GrantsRecorded, FirstGrantHeld
    <2>3. CASE g # 0
      <3>1. PICK h \in Generations : g = h + 1
        <4>1. g - 1 \in Generations /\ g = (g - 1) + 1
          BY <2>1, <2>3, BoundAssumption DEF BoundAssumption, Generations
        <4> QED
          BY <4>1
      <3>2. <<a, h + 1, x[3]>> \in granted /\ <<a, h + 1, y[3]>> \in granted
        BY <2>1, <3>1
      <3> QED
        BY <2>1, <3>2 DEF IInv, GrantsRecorded, LaterGrantHeld
    <2> QED
      BY <2>2, <2>3
  <1> QED
    BY <1>1, Invariance, PTL

\* The event stream's check and the per-request check agree on every token.
THEOREM ChecksAgree == Spec => []LeaseAgreement
  <1>1. IInv => LeaseAgreement
    BY DEF IInv, VersionsAgree, LeaseAgreement, Authenticates, Revalidates,
           AccessStanding
  <1> QED
    BY <1>1, Invariance, PTL

-----------------------------------------------------------------------------
\* What a step may do to families: only the exchange and the rotation issue.

\* Nothing is handed out, no generation appears or vanishes, and a family's
\* status changes from active to revoked if at all.
NothingIssued ==
    /\ granted' = granted
    /\ \A b \in Auths :
          \/ family'[b].status = family[b].status
          \/ family[b].status = "active" /\ family'[b].status = "revoked"
    /\ \A b \in Auths, g \in Generations : Exists(b, g)' <=> Exists(b, g)

\* Revoking a family issues nothing.
LEMMA RevokeIssuesNothing ==
  ASSUME IInv, NEW a \in Auths, family[a].status = "active", RevokeFamily(a),
         granted' = granted
  PROVE  NothingIssued
  <1>1. TypeOK
    BY DEF IInv
  <1>2. RevokedFamily(family[a]).status = "revoked"
    BY <1>1, RevokedFamilyRow DEF TypeOK
  <1>3. \A b \in Auths :
           \/ family'[b].status = family[b].status
           \/ family[b].status = "active" /\ family'[b].status = "revoked"
    BY <1>1, <1>2 DEF RevokeFamily, TypeOK
  <1>4. \A g \in Generations :
           RevokeRow(refresh[a][g], {"active", "rotated"}).status =
              IF refresh[a][g].status \in {"active", "rotated"} THEN "revoked"
              ELSE refresh[a][g].status
    BY <1>1, RevokeRefreshRow DEF TypeOK
  <1>5. \A b \in Auths, g \in Generations : Exists(b, g)' <=> Exists(b, g)
    BY <1>1, <1>4 DEF RevokeFamily, TypeOK, Exists
  <1> QED
    BY <1>3, <1>5 DEF NothingIssued

\* Every step but an issuing exchange or rotation issues nothing.
LEMMA OnlyIssuingIssues ==
  ASSUME IInv, [Next]_vars
  PROVE  \/ NothingIssued
         \/ \E a \in Auths, txn \in Txns, t \in Stamps : ExchangeIssue(a, txn, t)
         \/ \E a \in Auths, g \in Generations, txn \in Txns, t \in Stamps :
               RotateIssue(a, g, txn, t)
  <1>1. ASSUME UNCHANGED <<family, refresh, granted>>
        PROVE  NothingIssued
    BY <1>1 DEF NothingIssued, Exists
  <1>2. CASE UNCHANGED vars
    BY <1>1, <1>2 DEF vars
  <1>3. CASE Tick
    BY <1>1, <1>3 DEF Tick
  <1>4. CASE \E t \in Stamps : Cleanup(t)
    BY <1>1, <1>4 DEF Cleanup, CleanupAuthorizations, EraseExchangeResults,
                      CleanupRotationResults
  <1>5. CASE UserStep
    <2>1. ASSUME NEW u \in Users, NEW b \in BOOLEAN, SetUserStatus(u, b)
          PROVE  NothingIssued
      BY <1>1, <2>1 DEF SetUserStatus
    <2>2. ASSUME NEW u \in Users, NEW keep, ChangeOwnPassword(u, keep)
          PROVE  NothingIssued
      <3>1. \A b \in Auths : RevokedFamily(family[b]).status = "revoked"
        BY RevokedFamilyRow DEF IInv, TypeOK
      <3>2. \A b \in Auths :
               \/ family'[b].status = family[b].status
               \/ family[b].status = "active" /\ family'[b].status = "revoked"
        BY <2>2, <3>1 DEF ChangeOwnPassword
      <3>3. UNCHANGED <<refresh, granted>>
        BY <2>2 DEF ChangeOwnPassword
      <3> QED
        BY <3>2, <3>3 DEF NothingIssued, Exists
    <2> QED
      BY <1>5, <2>1, <2>2 DEF UserStep
  <1>6. ASSUME NEW a \in Auths, NEW t \in Stamps, AuthorizationStep(a, t)
        PROVE  \/ NothingIssued
               \/ \E txn \in Txns : ExchangeIssue(a, txn, t)
    <2>1. ASSUME NEW txn \in Txns, ExchangeRecover(a, txn, t)
          PROVE  NothingIssued
      BY <1>1, <2>1, RecoverChangesNothing DEF vars
    <2>2. \/ UNCHANGED <<family, refresh, granted>>
          \/ \E txn \in Txns : ExchangeRecover(a, txn, t)
          \/ \E txn \in Txns : ExchangeIssue(a, txn, t)
      BY <1>6 DEF AuthorizationStep, StartAuthorization, ReviewOverdue, Approve,
                  Deny, Exchange, ExchangeOverdue, ExchangeTooEarly,
                  ExchangeNotReady
    <2> QED
      BY <1>1, <2>1, <2>2
  <1>7. ASSUME NEW a \in Auths, NEW t \in Stamps, FamilyStep(a, t)
        PROVE  \/ NothingIssued
               \/ \E g \in Generations, txn \in Txns : RotateIssue(a, g, txn, t)
    <2>1. CASE RevokeFamilyForUser(a)
      BY <2>1, RevokeIssuesNothing DEF RevokeFamilyForUser
    <2>2. ASSUME NEW g \in Generations, AuthenticateOverdue(a, g, t)
          PROVE  NothingIssued
      BY <1>1, <2>2 DEF AuthenticateOverdue
    <2>3. ASSUME NEW g \in Generations, NEW txn \in Txns,
                 \/ RotateReplay(a, g, txn)
                 \/ RotateResultExpired(a, g, txn, t)
                 \/ RotateUnreadable(a, g, txn, t)
          PROVE  NothingIssued
      BY <2>3, RevokeIssuesNothing DEF RotateReplay, RotateResultExpired,
         RotateUnreadable, RotationAllowed
    <2>4. ASSUME NEW g \in Generations, NEW txn \in Txns,
                 RotateRecover(a, g, txn, t)
          PROVE  NothingIssued
      BY <1>1, <2>4, RecoverChangesNothing DEF vars
    <2>5. ASSUME NEW g \in Generations, RotateExpired(a, g, t)
          PROVE  NothingIssued
      <3> DEFINE row == [refresh[a][g] EXCEPT !.status = "expired"]
      <3>1. row.status = "expired" /\ refresh[a][g].status = "active"
        BY <2>5 DEF RotateExpired, IInv, TypeOK, RefreshRows
      <3>2. refresh' = [refresh EXCEPT ![a][g] = row]
        BY <2>5 DEF RotateExpired
      <3> HIDE DEF row
      <3>3. \A b \in Auths, h \in Generations : Exists(b, h)' <=> Exists(b, h)
        BY <3>1, <3>2 DEF Exists, IInv, TypeOK
      <3>4. UNCHANGED <<family, granted>>
        BY <2>5 DEF RotateExpired
      <3> QED
        BY <3>3, <3>4 DEF NothingIssued
    <2> QED
      BY <1>7, <2>1, <2>2, <2>3, <2>4, <2>5 DEF FamilyStep, Rotate
  <1> QED
    BY <1>2, <1>3, <1>4, <1>5, <1>6, <1>7 DEF Next

\* What an issuing exchange does to the families: a had none and gets an
\* active one of its user, who is active; nothing else moves.
LEMMA ExchangeIssues ==
  ASSUME IInv, NEW a \in Auths, NEW txn \in Txns, NEW t \in Stamps,
         ExchangeIssue(a, txn, t)
  PROVE  /\ family[a].status = "none"
         /\ family'[a].status = "active"
         /\ userActive[family'[a].user]
         /\ granted' = granted \cup {<<a, 0, txn>>}
         /\ \A b \in Auths \ {a} : family'[b] = family[b] /\ refresh'[b] = refresh[b]
  <1>1. family[a].status = "none"
    BY DEF ExchangeIssue, IInv, ConsumedHasFamily, HasFamily
  <1>2. family'[a] = NewFamily(auth[a].user, t)
    BY DEF ExchangeIssue, IInv, TypeOK
  <1>3. family'[a].status = "active" /\ family'[a].user = auth[a].user
    BY <1>2 DEF NewFamily
  <1>4. userActive[auth[a].user]
    BY DEF ExchangeIssue, EnsureActiveUser
  <1>5. \A b \in Auths \ {a} : family'[b] = family[b] /\ refresh'[b] = refresh[b]
    BY DEF ExchangeIssue, IInv, TypeOK
  <1> QED
    BY <1>1, <1>3, <1>4, <1>5 DEF ExchangeIssue

\* What an issuing rotation does to the families: a is active, with an active
\* user, and stays so; nothing else moves.
LEMMA RotationIssues ==
  ASSUME IInv, NEW a \in Auths, NEW g \in Generations, NEW txn \in Txns,
         NEW t \in Stamps, RotateIssue(a, g, txn, t)
  PROVE  /\ family[a].status = "active"
         /\ family'[a].status = "active"
         /\ userActive[family'[a].user]
         /\ granted' = granted \cup {<<a, g + 1, txn>>}
         /\ \A b \in Auths \ {a} : family'[b] = family[b] /\ refresh'[b] = refresh[b]
  <1>1. family[a].status = "active" /\ userActive[family[a].user]
    BY DEF RotateIssue, RotationAllowed
  <1> DEFINE row == [family[a] EXCEPT !.sliding = NextRefreshExpires(a, t)]
  <1>2. family' = [family EXCEPT ![a] = row]
    BY DEF RotateIssue
  <1>3. row.status = family[a].status /\ row.user = family[a].user
    BY DEF IInv, TypeOK, FamilyRows
  <1> HIDE DEF row
  <1>4. family'[a] = row /\ \A b \in Auths \ {a} : family'[b] = family[b]
    BY <1>2 DEF IInv, TypeOK
  <1>5. \A b \in Auths \ {a} : refresh'[b] = refresh[b]
    BY DEF RotateIssue, RefreshRotated, IInv, TypeOK
  <1>6. granted' = granted \cup {<<a, g + 1, txn>>}
    BY DEF RotateIssue
  <1> QED
    BY <1>1, <1>3, <1>4, <1>5, <1>6

\* Revocation is final: a revoked family stays revoked and gains neither a
\* generation nor a holder, whatever requests are under way.
THEOREM RevokedForGood == Spec => RevocationFinal
  <1> DEFINE A == \A a \in Auths :
                     family[a].status = "revoked" =>
                        /\ family'[a].status = "revoked"
                        /\ \A g \in Generations : Exists(a, g)' = Exists(a, g)
                        /\ \A x \in granted' \ granted : x[1] # a
  <1>1. IInv /\ [Next]_vars => [A]_vars
    <2> SUFFICES ASSUME IInv, [Next]_vars, NEW a \in Auths,
                        family[a].status = "revoked"
                 PROVE  /\ family'[a].status = "revoked"
                        /\ \A g \in Generations : Exists(a, g)' <=> Exists(a, g)
                        /\ \A x \in granted' \ granted : x[1] # a
      BY DEF Exists
    <2>1. CASE NothingIssued
      BY <2>1 DEF NothingIssued
    <2>2. ASSUME NEW b \in Auths, NEW txn \in Txns, NEW t \in Stamps,
                 ExchangeIssue(b, txn, t)
          PROVE  /\ family'[a].status = "revoked"
                 /\ \A g \in Generations : Exists(a, g)' <=> Exists(a, g)
                 /\ \A x \in granted' \ granted : x[1] # a
      <3>1. b # a /\ family'[a] = family[a] /\ refresh'[a] = refresh[a]
        BY <2>2, ExchangeIssues
      <3>2. \A x \in granted' \ granted : x[1] = b
        BY <2>2, ExchangeIssues
      <3> QED
        BY <3>1, <3>2 DEF Exists
    <2>3. ASSUME NEW b \in Auths, NEW g \in Generations, NEW txn \in Txns,
                 NEW t \in Stamps, RotateIssue(b, g, txn, t)
          PROVE  /\ family'[a].status = "revoked"
                 /\ \A h \in Generations : Exists(a, h)' <=> Exists(a, h)
                 /\ \A x \in granted' \ granted : x[1] # a
      <3>1. b # a /\ family'[a] = family[a] /\ refresh'[a] = refresh[a]
        BY <2>3, RotationIssues
      <3>2. \A x \in granted' \ granted : x[1] = b
        BY <2>3, RotationIssues
      <3> QED
        BY <3>1, <3>2 DEF Exists
    <2> QED
      BY <2>1, <2>2, <2>3, OnlyIssuingIssues
  <1> QED
    BY <1>1, Invariance, PTL DEF Spec, RevocationFinal

\* A credential is first handed out only for an active user and into a family
\* that is active when the transaction commits.
THEOREM GrantedLive == Spec => FreshGrantsAreLive
  <1> DEFINE A == \A x \in granted' \ granted :
                     /\ userActive[family'[x[1]].user]
                     /\ family'[x[1]].status = "active"
  <1>1. IInv /\ [Next]_vars => [A]_vars
    <2> SUFFICES ASSUME IInv, [Next]_vars, NEW x \in granted' \ granted
                 PROVE  /\ userActive[family'[x[1]].user]
                        /\ family'[x[1]].status = "active"
      OBVIOUS
    <2>1. CASE NothingIssued
      BY <2>1 DEF NothingIssued
    <2>2. ASSUME NEW b \in Auths, NEW txn \in Txns, NEW t \in Stamps,
                 ExchangeIssue(b, txn, t)
          PROVE  /\ userActive[family'[x[1]].user]
                 /\ family'[x[1]].status = "active"
      <3>1. x[1] = b
        BY <2>2, ExchangeIssues
      <3> QED
        BY <2>2, <3>1, ExchangeIssues
    <2>3. ASSUME NEW b \in Auths, NEW g \in Generations, NEW txn \in Txns,
                 NEW t \in Stamps, RotateIssue(b, g, txn, t)
          PROVE  /\ userActive[family'[x[1]].user]
                 /\ family'[x[1]].status = "active"
      <3>1. x[1] = b
        BY <2>3, RotationIssues
      <3> QED
        BY <2>3, <3>1, RotationIssues
    <2> QED
      BY <2>1, <2>2, <2>3, OnlyIssuingIssues
  <1> QED
    BY <1>1, Invariance, PTL DEF Spec, FreshGrantsAreLive

-----------------------------------------------------------------------------
\* The inductive invariant of lifetimes and limits, on top of IInv.

\* A generation belongs to a family.
GenerationHasFamily ==
    \A a \in Auths, g \in Generations : Exists(a, g) => HasFamily(a)

\* Whatever is older than an existing generation was rotated away, so that a
\* family has one newest generation.
OlderRotated ==
    \A a \in Auths, g, h \in Generations :
        Exists(a, h) /\ g < h => WasRotated(a, g)

\* A transaction is on record only where credentials were issued to it.
TxnsOfGrants ==
    \A a \in Auths :
        /\ auth[a].status # "consumed" => auth[a].txn = NoTxn
        /\ \A g \in Generations : ~WasRotated(a, g) => rotation[a][g].txn = NoTxn

\* The open authorizations can be counted, and there are not too many.
CapacityInv == IsFiniteSet(ActiveIn(auth)) /\ CapacityRespected

LifeInv ==
    /\ GenerationHasFamily
    /\ OlderRotated
    /\ TxnsOfGrants
    /\ LivesItsTime

-----------------------------------------------------------------------------
\* What a step that issues nothing does to the families.

\* Lifetimes are left alone; a family's status moves from active to revoked
\* if at all; a refresh credential lapses only when overdue or with its
\* family; rotations stay on record under their transaction.
FamilyMoved(b) ==
    /\ family'[b].sliding = family[b].sliding
    /\ family'[b].absolute = family[b].absolute
    /\ \/ family'[b] = family[b]
       \/ family[b].status = "active" /\ family'[b].status = "revoked"

RefreshMoved(b, g) ==
    /\ refresh'[b][g].expires = refresh[b][g].expires
    /\ \/ refresh'[b][g].status = refresh[b][g].status
       \/ /\ refresh[b][g].status # "none"
          /\ refresh'[b][g].status = "revoked"
          /\ family'[b].status = "revoked"
       \/ /\ refresh[b][g].status = "active"
          /\ refresh'[b][g].status = "expired"
          /\ RefreshOverdue(b, g, clock)

RotationMoved(b, g) ==
    /\ rotation'[b][g].txn = rotation[b][g].txn
    /\ rotation'[b][g].status = "none" <=> rotation[b][g].status = "none"

QuietStep ==
    /\ clock' \in Nat /\ clock <= clock'
    /\ \A b \in Auths :
          /\ FamilyMoved(b)
          /\ \A g \in Generations : RefreshMoved(b, g) /\ RotationMoved(b, g)

\* A step that leaves the three tables alone is quiet.
LEMMA TablesQuiet ==
  ASSUME IInv, UNCHANGED <<clock, family, refresh, rotation>>
  PROVE  QuietStep
  BY DEF IInv, TypeOK, QuietStep, FamilyMoved, RefreshMoved, RotationMoved

\* A revoked family keeps its lifetimes.
LEMMA RevokedFamilyLifetimes ==
  ASSUME NEW row \in FamilyRows
  PROVE  /\ RevokedFamily(row).status = "revoked"
         /\ RevokedFamily(row).sliding = row.sliding
         /\ RevokedFamily(row).absolute = row.absolute
  BY DEF RevokedFamily, FamilyRows

\* Revoking a credential keeps its lifetime.
LEMMA RevokedRefreshLifetime ==
  ASSUME NEW row \in RefreshRows, NEW S
  PROVE  RevokeRow(row, S).expires = row.expires
  BY DEF RevokeRow, RefreshRows

\* Revoking a family is quiet, whatever is done to its rotation rows besides,
\* as long as they stay on record.
LEMMA RevokeQuiet ==
  ASSUME IInv, NEW a \in Auths, family[a].status = "active", RevokeFamily(a),
         \A b \in Auths, g \in Generations : RotationMoved(b, g),
         clock' = clock
  PROVE  QuietStep
  <1>1. TypeOK
    BY DEF IInv
  <1>2. /\ RevokedFamily(family[a]).status = "revoked"
        /\ RevokedFamily(family[a]).sliding = family[a].sliding
        /\ RevokedFamily(family[a]).absolute = family[a].absolute
    BY <1>1, RevokedFamilyLifetimes DEF TypeOK
  <1>3. /\ family'[a] = RevokedFamily(family[a])
        /\ \A b \in Auths \ {a} : family'[b] = family[b]
    BY <1>1 DEF RevokeFamily, TypeOK
  <1>4. \A b \in Auths : FamilyMoved(b)
    BY <1>2, <1>3 DEF FamilyMoved
  <1>5. \A g \in Generations :
           /\ RevokeRow(refresh[a][g], {"active", "rotated"}).status =
                 IF refresh[a][g].status \in {"active", "rotated"} THEN "revoked"
                 ELSE refresh[a][g].status
           /\ RevokeRow(refresh[a][g], {"active", "rotated"}).expires =
                 refresh[a][g].expires
    BY <1>1, RevokeRefreshRow, RevokedRefreshLifetime DEF TypeOK
  <1>6. /\ \A g \in Generations :
              refresh'[a][g] = RevokeRow(refresh[a][g], {"active", "rotated"})
        /\ \A b \in Auths \ {a} : refresh'[b] = refresh[b]
    BY <1>1 DEF RevokeFamily, TypeOK
  <1>7. \A b \in Auths, g \in Generations : RefreshMoved(b, g)
    BY <1>2, <1>3, <1>5, <1>6 DEF RefreshMoved
  <1>8. clock' \in Nat /\ clock <= clock'
    BY <1>1 DEF TypeOK
  <1> QED
    BY <1>4, <1>7, <1>8 DEF QuietStep

\* Marking an overdue refresh credential is quiet.
LEMMA RotateExpiredQuiet ==
  ASSUME IInv, NEW a \in Auths, NEW g \in Generations, NEW t \in Stamps,
         RotateExpired(a, g, t)
  PROVE  QuietStep
  <1> DEFINE row == [refresh[a][g] EXCEPT !.status = "expired"]
  <1>1. TypeOK
    BY DEF IInv
  <1>2. /\ row.status = "expired" /\ row.expires = refresh[a][g].expires
        /\ refresh[a][g].status = "active"
    BY <1>1 DEF RotateExpired, TypeOK, RefreshRows
  <1>3. refresh' = [refresh EXCEPT ![a][g] = row]
    BY DEF RotateExpired
  <1> HIDE DEF row
  <1>4. RefreshOverdue(a, g, clock)
    <2>1. t \in Nat /\ t <= clock
      BY StampIsNat DEF Stamps
    <2>2. RefreshOverdue(a, g, t)
      BY DEF RotateExpired
    <2>3. /\ clock \in Nat /\ refresh[a][g].expires \in Nat
          /\ family[a].absolute \in Nat
      BY <1>1 DEF TypeOK, RefreshRows, FamilyRows
    <2> QED
      BY <2>1, <2>2, <2>3 DEF RefreshOverdue
  <1>5. \A b \in Auths, h \in Generations :
           \/ refresh'[b][h] = refresh[b][h]
           \/ b = a /\ h = g /\ refresh'[b][h] = row
    BY <1>1, <1>3 DEF TypeOK
  <1>6. \A b \in Auths, h \in Generations : RefreshMoved(b, h)
    BY <1>2, <1>4, <1>5 DEF RefreshMoved
  <1>7. UNCHANGED <<clock, family, rotation>>
    BY DEF RotateExpired
  <1>8. \A b \in Auths : FamilyMoved(b)
    BY <1>7 DEF FamilyMoved
  <1>9. \A b \in Auths, h \in Generations : RotationMoved(b, h)
    BY <1>7 DEF RotationMoved
  <1> QED
    BY <1>1, <1>6, <1>7, <1>8, <1>9 DEF QuietStep, TypeOK

\* The ways a rotation request ends in the revocation of its family.
LEMMA RotationRevokesQuiet ==
  ASSUME IInv, NEW a \in Auths, NEW g \in Generations, NEW txn \in Txns,
         NEW t \in Stamps,
         \/ RotateReplay(a, g, txn)
         \/ RotateResultExpired(a, g, txn, t)
         \/ RotateUnreadable(a, g, txn, t)
  PROVE  QuietStep
  <1>1. /\ rotation[a][g].status # "none" /\ family[a].status = "active"
        /\ RevokeFamily(a) /\ clock' = clock
    BY DEF RotateReplay, RotateResultExpired, RotateUnreadable, RotationAllowed
  <1>2. rotation[a][g] \in RotationRows
    BY DEF IInv, TypeOK
  <1>3. /\ ErasedRotation(rotation[a][g]).status = "family_revoked"
        /\ ErasedRotation(rotation[a][g]).txn = rotation[a][g].txn
    BY <1>2, ErasedRotationRow
  <1>4. LET row == [rotation[a][g] EXCEPT !.status = "family_revoked"]
        IN  row.status = "family_revoked" /\ row.txn = rotation[a][g].txn
    BY <1>2 DEF RotationRows
  <1>5. PICK row : /\ rotation' = [rotation EXCEPT ![a][g] = row]
                   /\ row.status = "family_revoked"
                   /\ row.txn = rotation[a][g].txn
    BY <1>3, <1>4 DEF RotateReplay, RotateResultExpired, RotateUnreadable
  <1>6. \A b \in Auths, h \in Generations : RotationMoved(b, h)
    BY <1>1, <1>5 DEF RotationMoved, IInv, TypeOK
  <1> QED
    BY <1>1, <1>6, RevokeQuiet

\* A password change revokes families and does nothing else.
LEMMA ChangeOwnPasswordQuiet ==
  ASSUME IInv, NEW u \in Users, NEW keep, ChangeOwnPassword(u, keep)
  PROVE  QuietStep
  <1>1. UNCHANGED <<clock, refresh, rotation>>
    BY DEF ChangeOwnPassword
  <1>2. \A b \in Auths : /\ RevokedFamily(family[b]).status = "revoked"
                        /\ RevokedFamily(family[b]).sliding = family[b].sliding
                        /\ RevokedFamily(family[b]).absolute = family[b].absolute
    BY RevokedFamilyLifetimes DEF IInv, TypeOK
  <1>3. \A b \in Auths :
           \/ family'[b] = family[b]
           \/ /\ family[b].status = "active"
              /\ family'[b] = RevokedFamily(family[b])
    BY DEF ChangeOwnPassword
  <1>4. \A b \in Auths : FamilyMoved(b)
    BY <1>2, <1>3 DEF FamilyMoved
  <1>5. \A b \in Auths, g \in Generations : RefreshMoved(b, g) /\ RotationMoved(b, g)
    BY <1>1 DEF RefreshMoved, RotationMoved
  <1> QED
    BY <1>1, <1>4, <1>5 DEF QuietStep, IInv, TypeOK

\* Blanking rotation results is quiet.
LEMMA CleanupRotationResultsQuiet ==
  ASSUME IInv, NEW t \in Stamps, CleanupRotationResults(t)
  PROVE  QuietStep
  <1>1. \A r \in RotationRows :
           LET row == [r EXCEPT !.result = "blank"]
           IN  row.status = r.status /\ row.txn = r.txn
    BY DEF RotationRows
  <1>2. PICK D :
           rotation' = [b \in Auths |-> [h \in Generations |->
              IF <<b, h>> \in D THEN [rotation[b][h] EXCEPT !.result = "blank"]
              ELSE rotation[b][h]]]
    BY DEF CleanupRotationResults
  <1>3. \A b \in Auths, h \in Generations : RotationMoved(b, h)
    BY <1>1, <1>2 DEF RotationMoved, IInv, TypeOK
  <1>4. UNCHANGED <<clock, family, refresh>>
    BY DEF CleanupRotationResults
  <1>5. \A b \in Auths : FamilyMoved(b)
    BY <1>4 DEF FamilyMoved
  <1>6. \A b \in Auths, h \in Generations : RefreshMoved(b, h)
    BY <1>4 DEF RefreshMoved
  <1> QED
    BY <1>3, <1>4, <1>5, <1>6 DEF QuietStep, IInv, TypeOK

\* Every step but an issuing exchange or rotation is quiet.
LEMMA QuietOrIssuing ==
  ASSUME IInv, [Next]_vars
  PROVE  \/ QuietStep
         \/ \E a \in Auths, txn \in Txns, t \in Stamps : ExchangeIssue(a, txn, t)
         \/ \E a \in Auths, g \in Generations, txn \in Txns, t \in Stamps :
               RotateIssue(a, g, txn, t)
  <1>1. CASE UNCHANGED vars
    BY <1>1, TablesQuiet DEF vars
  <1>2. CASE Tick
    <2>1. /\ clock' \in Nat /\ clock <= clock'
          /\ UNCHANGED <<family, refresh, rotation>>
      BY <1>2 DEF Tick, IInv, TypeOK
    <2> QED
      BY <2>1 DEF QuietStep, FamilyMoved, RefreshMoved, RotationMoved
  <1>3. ASSUME NEW t \in Stamps, Cleanup(t)
        PROVE  QuietStep
    BY <1>3, TablesQuiet, CleanupRotationResultsQuiet
       DEF Cleanup, CleanupAuthorizations, EraseExchangeResults
  <1>4. CASE UserStep
    BY <1>4, TablesQuiet, ChangeOwnPasswordQuiet DEF UserStep, SetUserStatus
  <1>5. ASSUME NEW a \in Auths, NEW t \in Stamps, AuthorizationStep(a, t)
        PROVE  QuietStep \/ \E txn \in Txns : ExchangeIssue(a, txn, t)
    <2>1. \/ UNCHANGED <<clock, family, refresh, rotation>>
          \/ \E txn \in Txns : ExchangeIssue(a, txn, t)
      BY <1>5 DEF AuthorizationStep, StartAuthorization, ReviewOverdue, Approve,
                  Deny, Exchange, ExchangeOverdue, ExchangeTooEarly,
                  ExchangeNotReady, ExchangeRecover
    <2> QED
      BY <2>1, TablesQuiet
  <1>6. ASSUME NEW a \in Auths, NEW t \in Stamps, FamilyStep(a, t)
        PROVE  \/ QuietStep
               \/ \E g \in Generations, txn \in Txns : RotateIssue(a, g, txn, t)
    <2>1. CASE RevokeFamilyForUser(a)
      <3>1. \A b \in Auths, g \in Generations : RotationMoved(b, g)
        BY <2>1 DEF RevokeFamilyForUser, RotationMoved
      <3> QED
        BY <2>1, <3>1, RevokeQuiet DEF RevokeFamilyForUser
    <2>2. ASSUME NEW g \in Generations, AuthenticateOverdue(a, g, t)
          PROVE  QuietStep
      BY <2>2, TablesQuiet DEF AuthenticateOverdue
    <2>3. ASSUME NEW g \in Generations, NEW txn \in Txns,
                 RotateRecover(a, g, txn, t)
          PROVE  QuietStep
      BY <2>3, TablesQuiet DEF RotateRecover
    <2> QED
      BY <1>6, <2>1, <2>2, <2>3, RotationRevokesQuiet, RotateExpiredQuiet
         DEF FamilyStep, Rotate
  <1> QED
    BY <1>1, <1>2, <1>3, <1>4, <1>5, <1>6 DEF Next

-----------------------------------------------------------------------------
\* What a step does to the authorizations.

\* A row is inserted pending, moves on only while it is open, and is deleted
\* only once it is open no more or overdue; a consumed row stays.
AuthMoved(b) ==
    \/ auth'[b].status = auth[b].status /\ auth'[b].txn = auth[b].txn
    \/ /\ auth[b].status \in LiveStatuses
       /\ auth'[b].status \in {"approved", "denied", "expired"}
       /\ auth'[b].txn = auth[b].txn
    \/ /\ auth[b].status \in LiveStatuses \cup {"denied", "expired"}
       /\ auth'[b].status = "deleted"
       /\ auth'[b].txn = NoTxn
    \/ /\ auth[b].status = "unused"
       /\ auth'[b].status = "pending"
       /\ auth'[b].txn = NoTxn

\* No authorization is opened.
NoneOpened == ActiveIn(auth)' \subseteq ActiveIn(auth)

\* Writing a status leaves the transaction on record.
LEMMA WithStatusTxn ==
  ASSUME NEW row \in AuthRows, NEW s \in {"expired", "denied"}, NEW t \in Nat
  PROVE  /\ WithStatus(row, s, t).status = s
         /\ WithStatus(row, s, t).txn = row.txn
  BY DEF WithStatus, AuthRows

\* Sweeping out overdue and retained rows, row by row.
LEMMA SweptRow ==
  ASSUME NEW rows \in [Auths -> AuthRows], NEW t \in Nat,
         NEW D \in SUBSET Auths, NEW b \in Auths,
         \A d \in D : ExpireOverdue(rows, t)[d].status \in {"expired", "denied"}
  PROVE  LET new == Delete(ExpireOverdue(rows, t), D)
         IN  \/ new[b] = rows[b]
             \/ /\ rows[b].status \in LiveStatuses
                /\ new[b].status = "expired"
                /\ new[b].txn = rows[b].txn
             \/ /\ rows[b].status \in LiveStatuses \cup {"denied", "expired"}
                /\ new[b].status = "deleted"
                /\ new[b].txn = NoTxn
  <1> DEFINE E == ExpireOverdue(rows, t)
             new == Delete(E, D)
  <1>1. /\ WithStatus(rows[b], "expired", t).status = "expired"
        /\ WithStatus(rows[b], "expired", t).txn = rows[b].txn
    BY WithStatusTxn
  <1>2. \/ E[b] = rows[b]
        \/ /\ rows[b].status \in LiveStatuses
           /\ E[b] = WithStatus(rows[b], "expired", t)
    BY DEF ExpireOverdue
  <1>3. E \in [Auths -> AuthRows]
    BY ExpireOverdueRows
  <1>4. \A d \in D : E[d].status \in {"expired", "denied"}
    OBVIOUS
  <1> HIDE DEF E
  <1>5. NoAuth(E[b].installation) \in AuthRows
    BY <1>3, NoAuthRow DEF AuthRows
  <1> DEFINE gone == [NoAuth(E[b].installation) EXCEPT !.status = "deleted"]
  <1>6. gone.status = "deleted" /\ gone.txn = NoTxn
    BY <1>5 DEF NoAuth
  <1>7. new[b] = IF b \in D THEN gone ELSE E[b]
    BY DEF Delete
  <1> HIDE DEF gone, new
  <1>8. CASE b \in D
    BY <1>1, <1>2, <1>4, <1>6, <1>7, <1>8 DEF LiveStatuses, new, E
  <1>9. CASE b \notin D
    BY <1>1, <1>2, <1>7, <1>9 DEF new, E
  <1> QED
    BY <1>8, <1>9

\* Preparing the capacity opens nothing.
LEMMA PreparedRows ==
  ASSUME IInv, NEW t \in Stamps
  PROVE  /\ Prepared(t) \in [Auths -> AuthRows]
         /\ \A b \in Auths :
               \/ Prepared(t)[b] = auth[b]
               \/ /\ auth[b].status \in LiveStatuses
                  /\ Prepared(t)[b].status = "expired"
                  /\ Prepared(t)[b].txn = auth[b].txn
               \/ /\ auth[b].status \in LiveStatuses \cup {"denied", "expired"}
                  /\ Prepared(t)[b].status = "deleted"
                  /\ Prepared(t)[b].txn = NoTxn
         /\ ActiveIn(Prepared(t)) \subseteq ActiveIn(auth)
  <1> DEFINE E == ExpireOverdue(auth, t)
             D == Purgeable(E, {"expired"}, t)
  <1>1. t \in Nat /\ auth \in [Auths -> AuthRows]
    BY StampIsNat DEF IInv, TypeOK
  <1>2. D \in SUBSET Auths /\ \A d \in D : E[d].status \in {"expired", "denied"}
    BY DEF Purgeable
  <1>3. Prepared(t) = Delete(E, D)
    BY DEF Prepared
  <1>4. Prepared(t) \in [Auths -> AuthRows]
    BY <1>1, <1>3, ExpireOverdueRows, DeleteRows
  <1>5. \A b \in Auths :
           \/ Prepared(t)[b] = auth[b]
           \/ /\ auth[b].status \in LiveStatuses
              /\ Prepared(t)[b].status = "expired"
              /\ Prepared(t)[b].txn = auth[b].txn
           \/ /\ auth[b].status \in LiveStatuses \cup {"denied", "expired"}
              /\ Prepared(t)[b].status = "deleted"
              /\ Prepared(t)[b].txn = NoTxn
    BY <1>1, <1>2, <1>3, SweptRow
  <1>6. ActiveIn(Prepared(t)) \subseteq ActiveIn(auth)
    BY <1>5 DEF ActiveIn, LiveStatuses
  <1> QED
    BY <1>4, <1>5, <1>6

\* start_authorization opens at most the one row it inserts.
LEMMA StartAuthorizationMoves ==
  ASSUME IInv, NEW a \in Auths, NEW i \in Installations, NEW t \in Stamps,
         StartAuthorization(a, i, t)
  PROVE  \A b \in Auths : AuthMoved(b)
  <1>1. NewAuth(i, t).status = "pending" /\ NewAuth(i, t).txn = NoTxn
    BY StampIsNat, NewAuthRow, NoAuthRow DEF NewAuth, AuthRows, NoAuth
  <1>2. auth[a].status = "unused"
    BY DEF StartAuthorization
  <1>3. \A b \in Auths :
           \/ auth'[b] = Prepared(t)[b]
           \/ b = a /\ auth'[b] = NewAuth(i, t)
    BY PreparedRows DEF StartAuthorization
  <1> QED
    BY <1>1, <1>2, <1>3, PreparedRows DEF AuthMoved

\* Every other step but an issuing exchange moves rows on and opens nothing.
LEMMA OneRowMoves ==
  ASSUME IInv, NEW a \in Auths, NEW t \in Stamps,
         \/ ReviewOverdue(a, t) \/ Deny(a, t) \/ \E u \in Users : Approve(a, u, t)
         \/ ExchangeOverdue(a, t) \/ ExchangeTooEarly(a, t) \/ ExchangeNotReady(a, t)
  PROVE  NoneOpened /\ \A b \in Auths : AuthMoved(b)
  <1>1. t \in Nat /\ auth \in [Auths -> AuthRows] /\ auth[a] \in AuthRows
    BY StampIsNat DEF IInv, TypeOK
  <1>2. auth[a].status \in LiveStatuses
    BY DEF ReviewOverdue, Deny, Approve, ExchangeOverdue, ExchangeTooEarly,
           ExchangeNotReady, Exchangeable, LiveStatuses
  <1>3. ASSUME NEW row, auth' = [auth EXCEPT ![a] = row],
               row.status \in {auth[a].status, "approved", "denied", "expired"},
               row.txn = auth[a].txn
        PROVE  NoneOpened /\ \A b \in Auths : AuthMoved(b)
    BY <1>1, <1>2, <1>3 DEF NoneOpened, ActiveIn, AuthMoved
  <1>4. CASE ReviewOverdue(a, t) \/ ExchangeOverdue(a, t) \/ Deny(a, t)
    <2>1. PICK s \in {"expired", "denied"} :
             auth' = [auth EXCEPT ![a] = WithStatus(auth[a], s, t)]
      BY <1>4 DEF ReviewOverdue, ExchangeOverdue, Deny
    <2>2. /\ WithStatus(auth[a], s, t).status = s
          /\ WithStatus(auth[a], s, t).txn = auth[a].txn
      BY <1>1, WithStatusTxn
    <2> QED
      BY <1>3, <2>1, <2>2
  <1>5. ASSUME NEW u \in Users, Approve(a, u, t)
        PROVE  NoneOpened /\ \A b \in Auths : AuthMoved(b)
    <2>1. /\ ApprovedBy(auth[a], u, t).status = "approved"
          /\ ApprovedBy(auth[a], u, t).txn = auth[a].txn
      BY <1>1 DEF ApprovedBy, AuthRows
    <2> QED
      BY <1>3, <1>5, <2>1 DEF Approve
  <1>6. CASE ExchangeTooEarly(a, t) \/ ExchangeNotReady(a, t)
    <2>1. auth[a].nextPoll + PollInterval \in Nat /\ t + PollInterval \in Nat
      BY <1>1, Deadlines DEF AuthRows
    <2>2. PICK next \in Nat : auth' = [auth EXCEPT ![a] = WithGate(auth[a], next, t)]
      BY <1>6, <2>1 DEF ExchangeTooEarly, ExchangeNotReady
    <2>3. /\ WithGate(auth[a], next, t).status = auth[a].status
          /\ WithGate(auth[a], next, t).txn = auth[a].txn
      BY <1>1, WithGateRow DEF SameGrant
    <2> QED
      BY <1>3, <2>2, <2>3
  <1> QED
    BY <1>4, <1>5, <1>6

\* The hourly clean-up of authorizations opens nothing.
LEMMA CleanupMoves ==
  ASSUME IInv, NEW t \in Stamps,
         CleanupAuthorizations(t) \/ EraseExchangeResults(t)
  PROVE  NoneOpened /\ \A b \in Auths : AuthMoved(b)
  <1>1. t \in Nat /\ auth \in [Auths -> AuthRows]
    BY StampIsNat DEF IInv, TypeOK
  <1>2. CASE CleanupAuthorizations(t)
    <2> DEFINE E == ExpireOverdue(auth, t)
    <2>1. PICK D \in SUBSET Auths :
             /\ D \subseteq Purgeable(E, {"expired", "denied"}, t)
             /\ auth' = Delete(E, D)
      BY <1>2 DEF CleanupAuthorizations, OldestOf
    <2>2. \A d \in D : E[d].status \in {"expired", "denied"}
      BY <2>1 DEF Purgeable
    <2>3. \A b \in Auths :
             \/ auth'[b] = auth[b]
             \/ /\ auth[b].status \in LiveStatuses
                /\ auth'[b].status = "expired"
                /\ auth'[b].txn = auth[b].txn
             \/ /\ auth[b].status \in LiveStatuses \cup {"denied", "expired"}
                /\ auth'[b].status = "deleted"
                /\ auth'[b].txn = NoTxn
      BY <1>1, <2>1, <2>2, SweptRow
    <2>4. NoneOpened
      BY <2>3 DEF NoneOpened, ActiveIn, LiveStatuses
    <2>5. \A b \in Auths : AuthMoved(b)
      BY <2>3 DEF AuthMoved
    <2> QED
      BY <2>4, <2>5
  <1>3. CASE EraseExchangeResults(t)
    <2>1. \A r \in AuthRows :
             LET row == [r EXCEPT !.result = "blank", !.updated = t]
             IN  row.status = r.status /\ row.txn = r.txn
      BY DEF AuthRows
    <2>2. \A b \in Auths : /\ auth'[b].status = auth[b].status
                          /\ auth'[b].txn = auth[b].txn
      BY <1>1, <1>3, <2>1 DEF EraseExchangeResults
    <2> QED
      BY <2>2 DEF NoneOpened, ActiveIn, AuthMoved
  <1> QED
    BY <1>2, <1>3

\* Only start_authorization opens a row, and only the exchange consumes one.
LEMMA AuthorizationsMove ==
  ASSUME IInv, [Next]_vars
  PROVE  \/ NoneOpened /\ \A b \in Auths : AuthMoved(b)
         \/ \E a \in Auths, i \in Installations, t \in Stamps :
               StartAuthorization(a, i, t)
         \/ \E a \in Auths, txn \in Txns, t \in Stamps : ExchangeIssue(a, txn, t)
  <1>1. ASSUME auth' = auth
        PROVE  NoneOpened /\ \A b \in Auths : AuthMoved(b)
    BY <1>1 DEF NoneOpened, ActiveIn, AuthMoved
  <1>2. CASE UNCHANGED vars \/ Tick \/ UserStep
    BY <1>1, <1>2 DEF vars, Tick, UserStep, ChangeOwnPassword, SetUserStatus
  <1>3. ASSUME NEW t \in Stamps, Cleanup(t)
        PROVE  NoneOpened /\ \A b \in Auths : AuthMoved(b)
    BY <1>1, <1>3, CleanupMoves DEF Cleanup, CleanupRotationResults
  <1>4. ASSUME NEW a \in Auths, NEW t \in Stamps, FamilyStep(a, t)
        PROVE  \/ auth' = auth
               \/ \E g \in Generations, txn \in Txns : RotateIssue(a, g, txn, t)
    BY <1>4 DEF FamilyStep, Rotate, AuthenticateOverdue, RevokeFamilyForUser,
       RotateReplay, RotateResultExpired, RotateRecover, RotateUnreadable,
       RotateExpired
  <1>5. ASSUME NEW a \in Auths, NEW t \in Stamps, NEW g \in Generations,
               NEW txn \in Txns, RotateIssue(a, g, txn, t)
        PROVE  auth' = auth
    BY <1>5 DEF RotateIssue
  <1>6. ASSUME NEW a \in Auths, NEW t \in Stamps, AuthorizationStep(a, t)
        PROVE  \/ NoneOpened /\ \A b \in Auths : AuthMoved(b)
               \/ \E i \in Installations : StartAuthorization(a, i, t)
               \/ \E txn \in Txns : ExchangeIssue(a, txn, t)
    <2>1. ASSUME NEW txn \in Txns, ExchangeRecover(a, txn, t)
          PROVE  auth' = auth
      BY <2>1 DEF ExchangeRecover
    <2> QED
      BY <1>1, <1>6, <2>1, OneRowMoves DEF AuthorizationStep, Exchange
  <1> QED
    BY <1>1, <1>2, <1>3, <1>4, <1>5, <1>6 DEF Next

\* An issuing exchange consumes its row.
LEMMA ExchangeConsumes ==
  ASSUME IInv, NEW a \in Auths, NEW txn \in Txns, NEW t \in Stamps,
         ExchangeIssue(a, txn, t)
  PROVE  /\ auth[a].status = "approved"
         /\ auth'[a].status = "consumed" /\ auth'[a].txn = txn
         /\ \A b \in Auths \ {a} : auth'[b] = auth[b]
         /\ NoneOpened
  <1>1. t \in Nat /\ auth \in [Auths -> AuthRows]
    BY StampIsNat DEF IInv, TypeOK
  <1>2. /\ ConsumedBy(auth[a], txn, t).status = "consumed"
        /\ ConsumedBy(auth[a], txn, t).txn = txn
    BY <1>1, ConsumedByRow
  <1>3. /\ auth' = [auth EXCEPT ![a] = ConsumedBy(auth[a], txn, t)]
        /\ auth[a].status = "approved"
    BY DEF ExchangeIssue
  <1>4. NoneOpened
    BY <1>1, <1>2, <1>3 DEF NoneOpened, ActiveIn, LiveStatuses
  <1> QED
    BY <1>1, <1>2, <1>3, <1>4

-----------------------------------------------------------------------------
\* Capacity.

\* start_authorization keeps within the capacity: its count is taken after
\* the sweep and before the insertion, in one transaction.
LEMMA StartKeepsCapacity ==
  ASSUME IInv, CapacityInv, NEW a \in Auths, NEW i \in Installations,
         NEW t \in Stamps, StartAuthorization(a, i, t)
  PROVE  CapacityInv'
  <1> DEFINE P == ActiveIn(Prepared(t))
             N == ActiveIn(auth')
  <1>1. /\ IsFiniteSet(P) /\ Cardinality(P) \in Nat
        /\ Cardinality(P) <= MaxActiveAuthorizations
    <2>1. P \subseteq ActiveIn(auth)
      BY PreparedRows
    <2>2. IsFiniteSet(ActiveIn(auth))
      BY DEF CapacityInv
    <2> HIDE DEF P
    <2>3. /\ IsFiniteSet(P) /\ Cardinality(P) <= Cardinality(ActiveIn(auth))
      BY <2>1, <2>2, FS_Subset
    <2>4. Cardinality(P) \in Nat /\ Cardinality(ActiveIn(auth)) \in Nat
      BY <2>2, <2>3, FS_CardinalityType
    <2> QED
      BY <2>3, <2>4, PolicyAssumption
         DEF CapacityInv, CapacityRespected, PolicyAssumption
  <1>2. CASE Cardinality(P) >= MaxActiveAuthorizations
    <2>1. N = P
      BY <1>2 DEF StartAuthorization
    <2> QED
      BY <1>1, <2>1 DEF CapacityInv, CapacityRespected
  <1>3. CASE ~(Cardinality(P) >= MaxActiveAuthorizations)
    <2>1. auth' = [Prepared(t) EXCEPT ![a] = NewAuth(i, t)]
      BY <1>3 DEF StartAuthorization
    <2>2. N \subseteq P \cup {a}
      BY <2>1, PreparedRows DEF ActiveIn
    <2> HIDE DEF P, N
    <2>3. /\ IsFiniteSet(P \cup {a})
          /\ Cardinality(P \cup {a}) \in {Cardinality(P), Cardinality(P) + 1}
      BY <1>1, FS_AddElement
    <2>4. IsFiniteSet(N) /\ Cardinality(N) <= Cardinality(P \cup {a})
      BY <2>2, <2>3, FS_Subset
    <2>5. Cardinality(N) \in Nat
      BY <2>4, FS_CardinalityType
    <2>6. Cardinality(N) <= MaxActiveAuthorizations
      BY <1>1, <1>3, <2>3, <2>4, <2>5, PolicyAssumption DEF PolicyAssumption
    <2> QED
      BY <2>4, <2>6 DEF N, CapacityInv, CapacityRespected
  <1> QED
    BY <1>2, <1>3

\* No more authorizations are ever open than MAX_ACTIVE_AUTHORIZATIONS, with
\* any stamps and any interleaving of starts, polls, decisions and clean-ups.
THEOREM CapacityKept == Spec => []CapacityRespected
  <1>1. Init => CapacityInv
    <2> SUFFICES ASSUME Init PROVE CapacityInv
      OBVIOUS
    <2>1. PICK i \in Installations : auth = [a \in Auths |-> NoAuth(i)]
      BY DEF Init
    <2>2. ActiveIn(auth) = {}
      BY <2>1, NoAuthRow DEF ActiveIn, LiveStatuses
    <2> QED
      BY <2>2, FS_EmptySet, PolicyAssumption
         DEF CapacityInv, CapacityRespected, PolicyAssumption
  <1>2. IInv /\ CapacityInv /\ [Next]_vars => CapacityInv'
    <2> SUFFICES ASSUME IInv, CapacityInv, [Next]_vars PROVE CapacityInv'
      OBVIOUS
    <2>1. CASE NoneOpened
      <3> DEFINE N == ActiveIn(auth')
      <3>1. IsFiniteSet(ActiveIn(auth)) /\ N \subseteq ActiveIn(auth)
        BY <2>1 DEF NoneOpened, CapacityInv
      <3> HIDE DEF N
      <3>2. IsFiniteSet(N) /\ Cardinality(N) <= Cardinality(ActiveIn(auth))
        BY <3>1, FS_Subset
      <3>3. Cardinality(N) \in Nat /\ Cardinality(ActiveIn(auth)) \in Nat
        BY <3>1, <3>2, FS_CardinalityType
      <3>4. Cardinality(N) <= MaxActiveAuthorizations
        BY <3>2, <3>3, PolicyAssumption
           DEF CapacityInv, CapacityRespected, PolicyAssumption
      <3> QED
        BY <3>2, <3>4 DEF N, CapacityInv, CapacityRespected
    <2> QED
      BY <2>1, AuthorizationsMove, ExchangeConsumes, StartKeepsCapacity
  <1>3. CapacityInv => CapacityRespected
    BY DEF CapacityInv
  <1> QED
    BY <1>1, <1>2, <1>3, Invariance, PTL DEF Spec

-----------------------------------------------------------------------------
\* A refusal is final.

\* A denied, lapsed or deleted authorization stays so until it is deleted, and
\* no family ever appears for it, whatever polls and decisions are under way.
THEOREM RefusedForGood == Spec => RefusalFinal
  <1> DEFINE A == \A a \in Auths :
                     auth[a].status \in {"denied", "expired", "deleted"} =>
                        /\ auth'[a].status \in {auth[a].status, "deleted"}
                        /\ family'[a] = family[a]
  <1>1. IInv /\ [Next]_vars => [A]_vars
    <2> SUFFICES ASSUME IInv, [Next]_vars, NEW a \in Auths,
                        auth[a].status \in {"denied", "expired", "deleted"}
                 PROVE  /\ auth'[a].status \in {auth[a].status, "deleted"}
                        /\ family'[a] = family[a]
      OBVIOUS
    <2>1. auth'[a].status \in {auth[a].status, "deleted"}
      <3>1. CASE AuthMoved(a)
        BY <3>1 DEF AuthMoved, LiveStatuses
      <3>2. ASSUME NEW b \in Auths, NEW txn \in Txns, NEW t \in Stamps,
                   ExchangeIssue(b, txn, t)
            PROVE  auth'[a].status = auth[a].status
        BY <3>2, ExchangeConsumes
      <3> QED
        BY <3>1, <3>2, AuthorizationsMove, StartAuthorizationMoves
    <2>2. family'[a] = family[a]
      <3>1. family[a].status = "none"
        BY DEF IInv, ConsumedHasFamily, HasFamily
      <3>2. CASE QuietStep
        BY <3>1, <3>2 DEF QuietStep, FamilyMoved
      <3>3. ASSUME NEW b \in Auths, NEW txn \in Txns, NEW t \in Stamps,
                   ExchangeIssue(b, txn, t)
            PROVE  family'[a] = family[a]
        <4>1. a # b
          BY <3>3, ExchangeConsumes
        <4> QED
          BY <3>3, <4>1, ExchangeIssues
      <3>4. ASSUME NEW b \in Auths, NEW g \in Generations, NEW txn \in Txns,
                   NEW t \in Stamps, RotateIssue(b, g, txn, t)
            PROVE  family'[a] = family[a]
        <4>1. a # b
          BY <3>1, <3>4, RotationIssues
        <4> QED
          BY <3>4, <4>1, RotationIssues
      <3> QED
        BY <3>2, <3>3, <3>4, QuietOrIssuing
    <2> QED
      BY <2>1, <2>2
  <1> QED
    BY <1>1, Invariance, PTL DEF Spec, RefusalFinal

-----------------------------------------------------------------------------
\* Lifetimes.

\* The first generation starts with the lifetimes of its family.
LEMMA ExchangeLifetimes ==
  ASSUME IInv, NEW a \in Auths, NEW txn \in Txns, NEW t \in Stamps,
         ExchangeIssue(a, txn, t)
  PROVE  /\ refresh'[a][0].status = "active"
         /\ refresh'[a][0].expires = family'[a].sliding
         /\ refresh'[a][0].expires <= family'[a].absolute
         /\ \A g \in Generations \ {0} : refresh'[a][g] = refresh[a][g]
         /\ \A b \in Auths \ {a} : refresh'[b] = refresh[b] /\ family'[b] = family[b]
         /\ UNCHANGED <<clock, rotation>>
  <1>1. t \in Nat /\ 0 \in Generations
    BY StampIsNat, BoundAssumption DEF BoundAssumption, Generations
  <1> DEFINE row == [status |-> "active", expires |-> t + RefreshSlidingTtl]
  <1>2. refresh' = [refresh EXCEPT ![a][0] = row]
    BY DEF ExchangeIssue
  <1>3. row.status = "active" /\ row.expires = t + RefreshSlidingTtl
    OBVIOUS
  <1> HIDE DEF row
  <1>4. /\ refresh'[a][0] = row
        /\ \A g \in Generations \ {0} : refresh'[a][g] = refresh[a][g]
        /\ \A b \in Auths \ {a} : refresh'[b] = refresh[b]
    BY <1>1, <1>2 DEF IInv, TypeOK
  <1>5. /\ family'[a] = NewFamily(auth[a].user, t)
        /\ \A b \in Auths \ {a} : family'[b] = family[b]
        /\ UNCHANGED <<clock, rotation>>
    BY DEF ExchangeIssue, IInv, TypeOK
  <1>6. /\ family'[a].sliding = t + RefreshSlidingTtl
        /\ family'[a].absolute = t + RefreshAbsoluteTtl
    BY <1>5 DEF NewFamily
  <1>7. t + RefreshSlidingTtl <= t + RefreshAbsoluteTtl
    BY <1>1, PolicyAssumption DEF PolicyAssumption
  <1> QED
    BY <1>3, <1>4, <1>5, <1>6, <1>7

\* A rotated generation is followed by one that lives no longer than the
\* family.
LEMMA RotationLifetimes ==
  ASSUME IInv, NEW a \in Auths, NEW g \in Generations, NEW txn \in Txns,
         NEW t \in Stamps, RotateIssue(a, g, txn, t)
  PROVE  /\ g + 1 \in Generations
         /\ refresh[a][g].status = "active" /\ ~WasRotated(a, g)
         /\ refresh'[a][g + 1].status = "active"
         /\ refresh'[a][g + 1].expires = family'[a].sliding
         /\ refresh'[a][g + 1].expires <= family'[a].absolute
         /\ refresh'[a][g].status = "rotated"
         /\ refresh'[a][g].expires = refresh[a][g].expires
         /\ \A h \in Generations \ {g, g + 1} : refresh'[a][h] = refresh[a][h]
         /\ \A b \in Auths \ {a} : refresh'[b] = refresh[b] /\ family'[b] = family[b]
         /\ family'[a].absolute = family[a].absolute
         /\ rotation'[a][g].txn = txn /\ rotation'[a][g].status = "completed"
         /\ \A b \in Auths, h \in Generations :
               <<b, h>> # <<a, g>> => rotation'[b][h] = rotation[b][h]
         /\ clock' = clock
  <1> DEFINE e == NextRefreshExpires(a, t)
             old == [refresh[a][g] EXCEPT !.status = "rotated"]
             new == [status |-> "active", expires |-> e]
             fam == [family[a] EXCEPT !.sliding = e]
             rot == [status |-> "completed", txn |-> txn, result |-> "stored",
                     expires |-> t + IdempotencyTtl]
  <1>1. TypeOK /\ t \in Nat
    BY StampIsNat DEF IInv
  <1>2. /\ refresh[a][g].status = "active" /\ rotation[a][g].status = "none"
        /\ g < MaxGeneration
        /\ refresh' = [refresh EXCEPT ![a][g] = old, ![a][g + 1] = new]
        /\ family' = [family EXCEPT ![a] = fam]
        /\ rotation' = [rotation EXCEPT ![a][g] = rot]
        /\ clock' = clock
    BY DEF RotateIssue, RefreshRotated
  <1>3. g + 1 \in Generations /\ g # g + 1
    BY <1>2, BoundAssumption DEF BoundAssumption, Generations
  <1>4. /\ old.status = "rotated" /\ old.expires = refresh[a][g].expires
        /\ new.status = "active" /\ new.expires = e
    BY <1>1 DEF TypeOK, RefreshRows
  <1>5. /\ fam.sliding = e /\ fam.absolute = family[a].absolute
        /\ rot.txn = txn /\ rot.status = "completed"
    BY <1>1 DEF TypeOK, FamilyRows
  <1>6. e <= family[a].absolute
    <2>1. family[a].absolute \in Nat /\ t + RefreshSlidingTtl \in Nat
      BY <1>1, Deadlines DEF TypeOK, FamilyRows
    <2> QED
      BY <2>1 DEF NextRefreshExpires, MinOf
  <1> HIDE DEF e, old, new, fam, rot
  <1>7. /\ refresh'[a][g] = old /\ refresh'[a][g + 1] = new
        /\ \A h \in Generations \ {g, g + 1} : refresh'[a][h] = refresh[a][h]
        /\ \A b \in Auths \ {a} : refresh'[b] = refresh[b]
    BY <1>1, <1>2, <1>3 DEF TypeOK
  <1>8. family'[a] = fam /\ \A b \in Auths \ {a} : family'[b] = family[b]
    BY <1>1, <1>2 DEF TypeOK
  <1>9. /\ rotation'[a][g] = rot
        /\ \A b \in Auths, h \in Generations :
              <<b, h>> # <<a, g>> => rotation'[b][h] = rotation[b][h]
    BY <1>1, <1>2 DEF TypeOK
  <1>10. ~WasRotated(a, g)
    BY <1>2 DEF WasRotated
  <1> QED
    BY <1>2, <1>3, <1>4, <1>5, <1>6, <1>7, <1>8, <1>9, <1>10

\* Every step moves the transactions on record only where it issues.
LEMMA TxnsKept ==
  ASSUME IInv, LifeInv, [Next]_vars,
         ~ \E a \in Auths, txn \in Txns, t \in Stamps : ExchangeIssue(a, txn, t)
  PROVE  /\ \A b \in Auths : auth'[b].txn = auth[b].txn
         /\ \A b \in Auths :
               auth'[b].status = "consumed" <=> auth[b].status = "consumed"
  <1>1. \A b \in Auths : AuthMoved(b)
    BY AuthorizationsMove, StartAuthorizationMoves
  <1>2. \A b \in Auths : auth[b].status # "consumed" => auth[b].txn = NoTxn
    BY DEF LifeInv, TxnsOfGrants
  <1> QED
    BY <1>1, <1>2 DEF AuthMoved, LiveStatuses

\* A step that issues nothing keeps the invariant.
LEMMA QuietKeepsLife ==
  ASSUME IInv, LifeInv, QuietStep,
         \A b \in Auths : auth'[b].txn = auth[b].txn,
         \A b \in Auths :
            auth'[b].status = "consumed" <=> auth[b].status = "consumed"
  PROVE  LifeInv'
  <1>1. \A b \in Auths, g \in Generations :
           /\ Exists(b, g)' <=> Exists(b, g)
           /\ WasRotated(b, g)' <=> WasRotated(b, g)
           /\ HasFamily(b)' <=> HasFamily(b)
    BY DEF QuietStep, FamilyMoved, RefreshMoved, RotationMoved, Exists,
           WasRotated, HasFamily
  <1>2. GenerationHasFamily' /\ OlderRotated'
    BY <1>1 DEF LifeInv, GenerationHasFamily, OlderRotated
  <1>3. TxnsOfGrants'
    BY <1>1 DEF LifeInv, TxnsOfGrants, QuietStep, RotationMoved
  <1>4. TipUsable'
    <2> SUFFICES ASSUME NEW a \in Auths, NEW g \in Generations,
                        family'[a].status = "active", Exists(a, g)',
                        ~WasRotated(a, g)'
                 PROVE  \/ refresh'[a][g].status = "active"
                        \/ /\ refresh'[a][g].status = "expired"
                           /\ RefreshOverdue(a, g, clock)'
      BY DEF TipUsable
    <2>1. FamilyMoved(a) /\ RefreshMoved(a, g)
      BY DEF QuietStep
    <2>2. family[a].status = "active"
      BY <2>1 DEF FamilyMoved
    <2>3. \/ refresh[a][g].status = "active"
          \/ refresh[a][g].status = "expired" /\ RefreshOverdue(a, g, clock)
      BY <1>1, <2>2 DEF LifeInv, LivesItsTime, TipUsable
    <2>4. RefreshOverdue(a, g, clock) => RefreshOverdue(a, g, clock)'
      <3>1. /\ clock \in Nat /\ clock' \in Nat /\ clock <= clock'
            /\ refresh[a][g].expires \in Nat /\ family[a].absolute \in Nat
        BY DEF QuietStep, IInv, TypeOK, RefreshRows, FamilyRows
      <3> QED
        BY <2>1, <3>1 DEF RefreshOverdue, FamilyMoved, RefreshMoved
    <2> QED
      BY <2>1, <2>3, <2>4 DEF RefreshMoved
  <1>5. LifetimeBounded'
    BY <1>1 DEF LifeInv, LivesItsTime, LifetimeBounded, QuietStep, FamilyMoved,
                RefreshMoved
  <1> QED
    BY <1>2, <1>3, <1>4, <1>5 DEF LifeInv, LivesItsTime

\* An issuing exchange keeps the invariant: the family has generation 0 only.
LEMMA ExchangeKeepsLife ==
  ASSUME IInv, LifeInv, NEW a \in Auths, NEW txn \in Txns, NEW t \in Stamps,
         ExchangeIssue(a, txn, t)
  PROVE  LifeInv'
  <1>1. 0 \in Generations /\ \A g \in Generations : g \in Nat
    BY BoundAssumption DEF BoundAssumption, Generations
  <1>2. \A g \in Generations : ~Exists(a, g) /\ ~WasRotated(a, g)
    <2>1. ~HasFamily(a)
      BY ExchangeIssues DEF HasFamily
    <2>2. \A g \in Generations : ~Exists(a, g)
      BY <2>1 DEF LifeInv, GenerationHasFamily
    <2> QED
      BY <2>2 DEF IInv, Lineage
  <1>3. \A b \in Auths, g \in Generations :
           /\ Exists(b, g)' <=> Exists(b, g) \/ (b = a /\ g = 0)
           /\ WasRotated(b, g)' <=> WasRotated(b, g)
    BY <1>1, <1>2, ExchangeLifetimes DEF Exists, WasRotated
  <1>4. HasFamily(a)' /\ \A b \in Auths \ {a} : HasFamily(b)' <=> HasFamily(b)
    BY ExchangeIssues DEF HasFamily
  <1>5. GenerationHasFamily'
    BY <1>3, <1>4 DEF LifeInv, GenerationHasFamily
  <1>6. OlderRotated'
    BY <1>1, <1>3 DEF LifeInv, OlderRotated
  <1>7. TxnsOfGrants'
    BY <1>3, ExchangeConsumes, ExchangeLifetimes DEF LifeInv, TxnsOfGrants
  <1>8. TipUsable'
    BY <1>2, <1>3, ExchangeLifetimes
       DEF LifeInv, LivesItsTime, TipUsable, RefreshOverdue
  <1>9. LifetimeBounded'
    BY <1>2, <1>3, <1>4, ExchangeLifetimes
       DEF LifeInv, LivesItsTime, LifetimeBounded
  <1> QED
    BY <1>5, <1>6, <1>7, <1>8, <1>9 DEF LifeInv, LivesItsTime

\* An issuing rotation keeps the invariant: its successor is the one newest
\* generation.
LEMMA RotationKeepsLife ==
  ASSUME IInv, LifeInv, NEW a \in Auths, NEW g \in Generations, NEW txn \in Txns,
         NEW t \in Stamps, RotateIssue(a, g, txn, t)
  PROVE  LifeInv'
  <1>1. \A h \in Generations : h \in Nat
    BY BoundAssumption DEF BoundAssumption, Generations
  <1>2. g + 1 \in Generations /\ Exists(a, g) /\ ~WasRotated(a, g)
    BY RotationLifetimes DEF Exists
  <1>3. \A h \in Generations : Exists(a, h) => h <= g
    BY <1>1, <1>2 DEF LifeInv, OlderRotated
  <1>4. \A h \in Generations : Exists(a, h) /\ ~WasRotated(a, h) => h = g
    BY <1>1, <1>2, <1>3 DEF LifeInv, OlderRotated
  <1>5. \A b \in Auths, h \in Generations :
           /\ Exists(b, h)' <=> Exists(b, h) \/ (b = a /\ h = g + 1)
           /\ WasRotated(b, h)' <=> WasRotated(b, h) \/ (b = a /\ h = g)
    BY <1>1, <1>2, RotationLifetimes DEF Exists, WasRotated
  <1>6. \A b \in Auths : HasFamily(b)' <=> HasFamily(b)
    BY RotationIssues DEF HasFamily
  <1>7. GenerationHasFamily'
    BY <1>2, <1>5, <1>6 DEF LifeInv, GenerationHasFamily
  <1>8. OlderRotated'
    BY <1>1, <1>2, <1>5 DEF LifeInv, OlderRotated
  <1>9. TxnsOfGrants'
    <2>1. auth' = auth
      BY DEF RotateIssue
    <2> QED
      BY <1>5, <2>1, RotationLifetimes DEF LifeInv, TxnsOfGrants
  <1>10. ASSUME NEW b \in Auths, NEW h \in Generations, Exists(b, h)',
                ~WasRotated(b, h)'
         PROVE  \/ b = a /\ h = g + 1
                \/ /\ b # a /\ Exists(b, h) /\ ~WasRotated(b, h)
                   /\ refresh'[b][h] = refresh[b][h] /\ family'[b] = family[b]
    BY <1>4, <1>5, <1>10, RotationLifetimes
  <1>11. TipUsable'
    BY <1>10, RotationLifetimes
       DEF LifeInv, LivesItsTime, TipUsable, RefreshOverdue
  <1>12. LifetimeBounded'
    <2> SUFFICES ASSUME NEW b \in Auths, NEW h \in Generations,
                        HasFamily(b)', Exists(b, h)'
                 PROVE  /\ refresh'[b][h].expires <= family'[b].absolute
                        /\ ~WasRotated(b, h)' =>
                              refresh'[b][h].expires = family'[b].sliding
      BY DEF LifetimeBounded
    <2>1. LifetimeBounded
      BY DEF LifeInv, LivesItsTime
    <2>2. CASE b = a /\ h = g + 1
      BY <2>2, RotationLifetimes
    <2>3. CASE ~(b = a /\ h = g + 1)
      <3>1. Exists(b, h) /\ HasFamily(b)
        BY <1>5, <1>6, <2>3
      <3>2. /\ refresh'[b][h].expires = refresh[b][h].expires
            /\ family'[b].absolute = family[b].absolute
        BY <2>3, RotationLifetimes
      <3>3. refresh'[b][h].expires <= family'[b].absolute
        BY <2>1, <3>1, <3>2 DEF LifetimeBounded
      <3>4. ~WasRotated(b, h)' => refresh'[b][h].expires = family'[b].sliding
        BY <1>10, <2>1, <2>3, <3>1 DEF LifetimeBounded
      <3> QED
        BY <3>3, <3>4
    <2> QED
      BY <2>2, <2>3
  <1> QED
    BY <1>7, <1>8, <1>9, <1>11, <1>12 DEF LifeInv, LivesItsTime

\* The empty database satisfies the invariant.
LEMMA InitLife == Init => LifeInv
  <1> SUFFICES ASSUME Init PROVE LifeInv
    OBVIOUS
  <1>1. PICK i \in Installations : auth = [a \in Auths |-> NoAuth(i)]
    BY DEF Init
  <1>2. \A a \in Auths : auth[a].txn = NoTxn
    BY <1>1 DEF NoAuth
  <1>3. \A a \in Auths, g \in Generations :
           ~Exists(a, g) /\ ~WasRotated(a, g) /\ rotation[a][g].txn = NoTxn
    BY DEF Init, Exists, WasRotated, NoRefresh, NoRotation
  <1> QED
    BY <1>2, <1>3 DEF LifeInv, GenerationHasFamily, OlderRotated, TxnsOfGrants,
       LivesItsTime, TipUsable, LifetimeBounded

\* Every step keeps the invariant.
LEMMA NextLife == IInv /\ LifeInv /\ [Next]_vars => LifeInv'
  <1> SUFFICES ASSUME IInv, LifeInv, [Next]_vars PROVE LifeInv'
    OBVIOUS
  <1>1. ASSUME NEW a \in Auths, NEW txn \in Txns, NEW t \in Stamps,
               ExchangeIssue(a, txn, t)
        PROVE  LifeInv'
    BY <1>1, ExchangeKeepsLife
  <1>2. ASSUME NEW a \in Auths, NEW g \in Generations, NEW txn \in Txns,
               NEW t \in Stamps, RotateIssue(a, g, txn, t)
        PROVE  LifeInv'
    BY <1>2, RotationKeepsLife
  <1>3. CASE /\ QuietStep
             /\ ~ \E a \in Auths, txn \in Txns, t \in Stamps :
                     ExchangeIssue(a, txn, t)
    BY <1>3, TxnsKept, QuietKeepsLife
  <1> QED
    BY <1>1, <1>2, <1>3, QuietOrIssuing

\* Both inductive invariants hold throughout.
THEOREM LifeInvariance == Spec => [](IInv /\ LifeInv)
  <1>1. Init => IInv /\ LifeInv
    BY InitIInv, InitLife
  <1>2. IInv /\ LifeInv /\ [Next]_vars => IInv' /\ LifeInv'
    BY NextIInv, NextLife
  <1> QED
    BY <1>1, <1>2, PTL DEF Spec

\* A credential lives its time, for any policy and any lag of the stamps: the
\* newest generation of an active family can rotate or is really overdue, and
\* no rotation carries a family past its absolute end.
THEOREM LifetimesKept == Spec => []LivesItsTime
  <1>1. LifeInv => LivesItsTime
    BY DEF LifeInv
  <1> QED
    BY <1>1, LifeInvariance, PTL

-----------------------------------------------------------------------------
\* Every family implements CredentialFamily.

\* The holders of a family change only where credentials are issued.
LEMMA HoldersKept ==
  ASSUME NEW b \in Auths, auth'[b].txn = auth[b].txn,
         \A g \in Generations : rotation'[b][g].txn = rotation[b][g].txn
  PROVE  HolderOf(b)' = HolderOf(b)
  <1>1. \A g \in Generations : g # 0 => g - 1 \in Generations
    BY BoundAssumption DEF BoundAssumption, Generations
  <1> QED
    BY <1>1 DEF HolderOf

\* A step that issues nothing is a revocation of a family, or no step of it.
LEMMA QuietRefines ==
  ASSUME NEW b \in Auths, FamilyMoved(b), HolderOf(b)' = HolderOf(b)
  PROVE  Family(b)!CFNext \/ UNCHANGED Family(b)!cfVars
  BY DEF FamilyMoved, Family!CFNext, Family!Revoke, Family!cfVars

\* The issuing exchange creates its family and is no step of any other.
LEMMA ExchangeRefines ==
  ASSUME IInv, LifeInv, NEW a \in Auths, NEW txn \in Txns, NEW t \in Stamps,
         ExchangeIssue(a, txn, t), NEW b \in Auths
  PROVE  Family(b)!CFNext \/ UNCHANGED Family(b)!cfVars
  <1>1. rotation' = rotation
    BY ExchangeLifetimes
  <1>2. CASE b # a
    <2>1. family'[b] = family[b] /\ auth'[b] = auth[b]
      BY <1>2, ExchangeIssues, ExchangeConsumes
    <2> QED
      BY <1>1, <2>1, HoldersKept DEF Family!cfVars
  <1>3. CASE b = a
    <2>1. family[a].status = "none" /\ family'[a].status = "active"
      BY ExchangeIssues
    <2>2. auth'[a].txn = txn
      BY ExchangeConsumes
    <2>3. 0 \in Generations /\ \A g \in Generations : g # 0 => g - 1 \in Generations
      BY BoundAssumption DEF BoundAssumption, Generations
    <2>4. HolderOf(a)' = [HolderOf(a) EXCEPT ![0] = txn]
      BY <1>1, <2>2, <2>3 DEF HolderOf
    <2>5. Family(a)!Create(txn)
      BY <2>1, <2>4 DEF Family!Create
    <2> QED
      BY <1>3, <2>5 DEF Family!CFNext
  <1> QED
    BY <1>2, <1>3

\* The holder of an existing generation is on record, and that of a newer one
\* is not.
LEMMA TipIsTip ==
  ASSUME IInv, LifeInv, NEW a \in Auths, NEW g \in Generations,
         Exists(a, g), ~WasRotated(a, g)
  PROVE  Family(a)!IsTip(g)
  <1>1. HolderOf(a)[g] # NoTxn
    <2>1. CASE g = 0
      <3>1. auth[a].status = "consumed"
        BY DEF LifeInv, GenerationHasFamily, IInv, ConsumedHasFamily
      <3>2. auth[a].txn \in Txns
        BY <3>1 DEF IInv, GrantsRecorded, ExchangeRecorded
      <3> QED
        BY <2>1, <3>2, NullAssumption DEF HolderOf, NullAssumption
    <2>2. CASE g # 0
      <3>1. g - 1 \in Generations /\ g - 1 < g
        BY <2>2, BoundAssumption DEF BoundAssumption, Generations
      <3>2. WasRotated(a, g - 1)
        BY <3>1 DEF LifeInv, OlderRotated
      <3>3. rotation[a][g - 1].txn \in Txns
        BY <3>1, <3>2 DEF IInv, GrantsRecorded, RotationRecorded
      <3> QED
        BY <2>2, <3>3, NullAssumption DEF HolderOf, NullAssumption
    <2> QED
      BY <2>1, <2>2
  <1>2. g + 1 \in Generations => HolderOf(a)[g + 1] = NoTxn
    <2>1. rotation[a][g].txn = NoTxn
      BY DEF LifeInv, TxnsOfGrants
    <2>2. g \in Nat /\ g + 1 # 0 /\ (g + 1) - 1 = g
      BY BoundAssumption DEF BoundAssumption, Generations
    <2> QED
      BY <2>1, <2>2 DEF HolderOf
  <1> QED
    BY <1>1, <1>2 DEF Family!IsTip, Family!Issued, Family!Gens, Generations

\* The issuing rotation advances its family by one generation, from the
\* newest, and is no step of any other.
LEMMA RotationRefines ==
  ASSUME IInv, LifeInv, NEW a \in Auths, NEW g \in Generations, NEW txn \in Txns,
         NEW t \in Stamps, RotateIssue(a, g, txn, t), NEW b \in Auths
  PROVE  Family(b)!CFNext \/ UNCHANGED Family(b)!cfVars
  <1>1. auth' = auth
    BY DEF RotateIssue
  <1>2. CASE b # a
    <2>1. /\ family'[b] = family[b]
          /\ \A h \in Generations : rotation'[b][h] = rotation[b][h]
      BY <1>2, RotationLifetimes
    <2> QED
      BY <1>1, <2>1, HoldersKept DEF Family!cfVars
  <1>3. CASE b = a
    <2>1. /\ family[a].status = "active" /\ family'[a].status = "active"
          /\ g + 1 \in Generations
      BY RotationIssues, RotationLifetimes
    <2>2. Family(a)!IsTip(g)
      BY TipIsTip, RotationLifetimes DEF Exists
    <2>3. /\ g \in Nat /\ g + 1 # 0 /\ (g + 1) - 1 = g
          /\ \A h \in Generations : h # 0 => h - 1 \in Generations
          /\ \A h \in Generations : h # g + 1 /\ h # 0 => h - 1 # g
      BY BoundAssumption DEF BoundAssumption, Generations
    <2>4. /\ rotation'[a][g].txn = txn
          /\ \A h \in Generations : h # g => rotation'[a][h] = rotation[a][h]
      BY RotationLifetimes
    <2>5. HolderOf(a)' = [HolderOf(a) EXCEPT ![g + 1] = txn]
      BY <1>1, <2>1, <2>3, <2>4 DEF HolderOf
    <2>6. Family(a)!Advance(g, txn)
      BY <2>1, <2>2, <2>5 DEF Family!Advance, Family!Gens, Generations
    <2> QED
      BY <1>3, <2>6 DEF Family!CFNext, Family!Gens, Generations
  <1> QED
    BY <1>2, <1>3

\* The tables, the lagging stamps, expiry, recovery and clean-up together keep
\* what CredentialFamily promises of every family: it starts empty, and every
\* step of the server is a step of it or leaves it alone.
THEOREM FamiliesImplement == Spec => FamiliesRefine
  <1> DEFINE A == \A a \in Auths :
                     Family(a)!CFNext \/ UNCHANGED Family(a)!cfVars
  <1>1. Init => \A a \in Auths : Family(a)!CFInit
    <2> SUFFICES ASSUME Init, NEW a \in Auths PROVE Family(a)!CFInit
      OBVIOUS
    <2>1. PICK i \in Installations : auth = [b \in Auths |-> NoAuth(i)]
      BY DEF Init
    <2>2. auth[a].txn = NoTxn /\ family[a].status = "none"
      BY <2>1 DEF Init, NoAuth, NoFamily
    <2>3. \A g \in Generations : rotation[a][g].txn = NoTxn
      BY DEF Init, NoRotation
    <2>4. \A g \in Generations : g # 0 => g - 1 \in Generations
      BY BoundAssumption DEF BoundAssumption, Generations
    <2>5. HolderOf(a) = [g \in Generations |-> NoTxn]
      BY <2>2, <2>3, <2>4 DEF HolderOf
    <2> QED
      BY <2>2, <2>5 DEF Family!CFInit, Family!Gens, Generations
  <1>2. IInv /\ LifeInv /\ [Next]_vars => [A]_vars
    <2> SUFFICES ASSUME IInv, LifeInv, [Next]_vars, NEW b \in Auths
                 PROVE  Family(b)!CFNext \/ UNCHANGED Family(b)!cfVars
      OBVIOUS
    <2>1. ASSUME QuietStep,
                 ~ \E a \in Auths, txn \in Txns, t \in Stamps :
                      ExchangeIssue(a, txn, t)
          PROVE  Family(b)!CFNext \/ UNCHANGED Family(b)!cfVars
      <3>1. HolderOf(b)' = HolderOf(b)
        BY <2>1, TxnsKept, HoldersKept DEF QuietStep, RotationMoved
      <3> QED
        BY <2>1, <3>1, QuietRefines DEF QuietStep
    <2> QED
      BY <2>1, QuietOrIssuing, ExchangeRefines, RotationRefines
  <1> HIDE DEF A
  <1>3. Spec => [][A]_vars
    BY <1>2, LifeInvariance, PTL DEF Spec
  <1> QED
    BY <1>1, <1>3, PTL DEF Spec, FamiliesRefine, A

=============================================================================
