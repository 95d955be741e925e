-------------------------- MODULE CredentialFamily --------------------------
(***************************************************************************)
(* What the server promises about one credential family, with tables,      *)
(* stamps and clean-up left out: generations are issued one after the      *)
(* other, each to one client transaction; asking again with the same       *)
(* transaction never issues another credential; asking for an already      *)
(* rotated generation with another transaction revokes the family; and a   *)
(* revoked family issues nothing more.                                     *)
(*                                                                         *)
(* DeviceSessions implements this for each of its families, and            *)
(* CredentialCoordinator uses it as the server the desktop talks to.       *)
(***************************************************************************)
EXTENDS Naturals

CONSTANTS Txns, NoTxn, MaxGeneration

VARIABLES
    status,  \* "none" until the authorization is exchanged
    holder   \* holder[g] is the transaction generation g was issued to

cfVars == <<status, holder>>

Gens == 0 .. MaxGeneration

CFInit ==
    /\ status = "none"
    /\ holder = [g \in Gens |-> NoTxn]

Issued(g) == holder[g] # NoTxn

\* g is the newest generation.
IsTip(g) == Issued(g) /\ ~(g + 1 \in Gens /\ Issued(g + 1))

\* The authorization is exchanged for generation 0.
Create(txn) ==
    /\ status = "none"
    /\ status' = "active"
    /\ holder' = [holder EXCEPT ![0] = txn]

\* The newest generation g is replaced by its successor.
Advance(g, txn) ==
    /\ status = "active"
    /\ g + 1 \in Gens
    /\ IsTip(g)
    /\ holder' = [holder EXCEPT ![g + 1] = txn]
    /\ UNCHANGED status

\* By a user, by a password change, by a replay or by a failed recovery.
Revoke ==
    /\ status = "active"
    /\ status' = "revoked"
    /\ UNCHANGED holder

\* What a rotation request for generation g may be answered, and what the
\* answer does to the family.
Rotate(g, txn, answer) ==
    \/ /\ answer = "issued"
       /\ Advance(g, txn)
    \/ /\ answer = "issued"
       /\ status = "active"
       /\ g + 1 \in Gens
       /\ holder[g + 1] = txn
       /\ UNCHANGED cfVars
    \/ /\ answer = "refresh_expired"
       /\ status = "active"
       /\ IsTip(g)
       /\ UNCHANGED cfVars
    \/ /\ answer = "recovery_failed"
       /\ g + 1 \in Gens
       /\ holder[g + 1] = txn
       /\ Revoke
    \/ /\ answer = "refresh_replay"
       /\ g + 1 \in Gens
       /\ holder[g + 1] \notin {NoTxn, txn}
       /\ Revoke
    \/ /\ answer = "family_revoked"
       /\ status = "revoked"
       /\ UNCHANGED cfVars

CFNext ==
    \/ \E txn \in Txns : Create(txn)
    \/ \E g \in Gens, txn \in Txns : Advance(g, txn)
    \/ Revoke

CFSpec == CFInit /\ [][CFNext]_cfVars

=============================================================================
