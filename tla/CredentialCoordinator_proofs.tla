-------------------- MODULE CredentialCoordinator_proofs --------------------
(***************************************************************************)
(* Proofs about CredentialCoordinator, for any number of transactions and  *)
(* any scenarios.                                                          *)
(***************************************************************************)
EXTENDS CredentialCoordinator, TLAPS

-----------------------------------------------------------------------------
\* The inductive invariant of a coordinator that nothing but rotations is
\* asked of.

Rotating == {"init", "refresh"}
Records == [gen : Generations, pending : Nat]
FlowRecords == [pc : Steps, stale : BOOLEAN, src : Generations \cup {NoGen},
                txn : Nat, tok : Generations \cup {NoGen}, reply : Replies,
                out : {"none", "ok", "throw"}]

\* What there is of types: no credential is ever missing.
TypesInv ==
    /\ holder \in [Generations -> Nat]
    /\ disk \in Records
    /\ minted \in Nat
    /\ flow \in [Flows -> FlowRecords]
    /\ phase \in {"down", "running", "disposed"}
    /\ booted \in BOOLEAN
    /\ marker = FALSE
    /\ userActive = TRUE

\* initialize() is over before the first refresh begins, and no other function
\* of the coordinator gets past its first check.
FlowsInv ==
    /\ flow["logout"].pc = "idle" /\ flow["discard"].pc = "idle"
    /\ flow["retry"].pc \in {"idle", "check"}
    /\ flow["init"].pc \in {"idle", "load", "cleanup", "rotWait", "rotCommit"}
    /\ flow["refresh"].pc \in {"idle", "rotSave", "rotWait", "rotCommit"}
    /\ booted => flow["init"].pc = "idle"
    /\ flow["refresh"].pc # "idle" => booted
    /\ phase = "down" => ~booted /\ \A f \in Flows : flow[f].pc = "idle"
    /\ \A f \in Flows : flow[f].stale => phase = "disposed"

\* What a rotation that awaits a write is writing.
Rotated(f) ==
    IF flow[f].pc = "rotSave" THEN [gen |-> flow[f].src, pending |-> flow[f].txn]
    ELSE [gen |-> flow[f].src + 1, pending |-> NoTxn]

\* The one write that may be queued is the rotation's own.
QueueInv ==
    \/ /\ queue = <<>>
       /\ \A f \in Rotating : flow[f].pc \notin {"rotSave", "rotCommit"}
    \/ \E f \in Rotating :
          /\ flow[f].pc \in {"rotSave", "rotCommit"}
          /\ queue = <<SaveBy(f, Rotated(f))>>

\* A rotation works on the record on disk, and moves on only when the server
\* has issued the next generation to its transaction.
RotationInv ==
    /\ \A f \in Rotating :
          /\ flow[f].pc \in {"rotSave", "rotWait", "rotCommit"} =>
                /\ flow[f].src = disk.gen /\ flow[f].txn # NoTxn
                /\ credential = disk
          /\ flow[f].pc = "rotSave" =>
                disk.pending = NoTxn /\ flow[f].reply = "none"
          /\ flow[f].pc \in {"rotWait", "rotCommit"} => disk.pending = flow[f].txn
          /\ \/ flow[f].pc = "rotWait" /\ flow[f].reply = "issued"
             \/ flow[f].pc = "rotCommit"
             => /\ flow[f].src + 1 \in Generations
                /\ holder[flow[f].src + 1] = flow[f].txn
    /\ flow["init"].pc = "cleanup" => credential = disk
    /\ /\ phase = "running" /\ booted /\ flow["refresh"].pc = "idle"
       /\ status \notin Blocked
       => credential = disk /\ disk.pending = NoTxn

\* A request in flight is a rotation's, and whoever waits for it sent it.
WireInv ==
    \A r \in wire :
        /\ r \in [kind : {"refresh"}, gen : Generations, txn : Nat \ {NoTxn},
                  by : Rotating \cup {"nobody"}]
        /\ r.by # "nobody" =>
              /\ flow[r.by].pc = "rotWait" /\ flow[r.by].reply = "none"
              /\ r.gen = flow[r.by].src /\ r.txn = flow[r.by].txn

\* t is the newest generation; the record on disk is that generation, or the
\* one before with the transaction t was issued to; and no request asks for
\* anything but the transaction its generation was, or can only be, rotated by.
InStepAt(t) ==
    /\ \A g \in Generations : holder[g] # NoTxn <=> g <= t
    /\ disk.gen = t \/ (disk.gen + 1 = t /\ disk.pending = holder[t])
    /\ \A r \in wire :
          \/ r.gen < t /\ holder[r.gen + 1] = r.txn
          \/ r.gen = t /\ disk.gen = t /\ disk.pending = r.txn

RotationsInv ==
    /\ TypesInv
    /\ FlowsInv
    /\ QueueInv
    /\ RotationInv
    /\ WireInv
    /\ \E t \in Generations : InStepAt(t)

\* The bounds of the scenario, and that what may happen in it does not change.
BoundsInv == left \in [txns : Nat, faults : Nat, events : SUBSET AllEvents]

CoordinatorInv == BoundsInv /\ (Undisturbed => RotationsInv)

-----------------------------------------------------------------------------
\* Lemmas.

\* Generations are numbers, and NoGen is none of them.
LEMMA GenerationFacts ==
  /\ MaxGeneration \in Nat /\ Generations \subseteq Nat /\ NoGen \notin Generations
  /\ 0 \in Generations /\ NoCredential \notin Records
  <1>1. MaxTxn \in Nat /\ MaxTxn >= 1
    BY CoordinatorBounds DEF CoordinatorBounds
  <1>2. MaxGeneration \in Nat
    BY <1>1 DEF MaxGeneration
  <1> QED
    BY <1>2 DEF Generations, NoGen, NoCredential, Records

\* What may happen in a scenario is fixed.
LEMMA EventsFixed ==
  ASSUME BoundsInv, UNCHANGED left \/ Fault
  PROVE  BoundsInv' /\ left'.events = left.events
  BY DEF BoundsInv, Fault

\* The write a rotation awaits, once it is on disk, keeps the record in step
\* with the server, and so does the request that may follow it.
LEMMA WriteKeepsInStep ==
  ASSUME RotationsInv, NEW f \in Rotating, flow[f].pc \in {"rotSave", "rotCommit"},
         disk' = Rotated(f), UNCHANGED holder,
         \A r \in wire' :
            \/ r \in wire
            \/ /\ flow[f].pc = "rotSave"
               /\ r.gen = flow[f].src /\ r.txn = flow[f].txn
  PROVE  disk' \in Records /\ \E t \in Generations : InStepAt(t)'
  <1>1. PICK t \in Generations : InStepAt(t)
    BY DEF RotationsInv
  <1>2. /\ flow[f].src = disk.gen /\ flow[f].txn # NoTxn
        /\ disk.gen \in Generations /\ disk.pending \in Nat
        /\ flow[f].txn \in Nat /\ f \in Flows
    BY DEF RotationsInv, RotationInv, TypesInv, Records, FlowRecords, Rotating,
           Flows
  <1>3. \A r \in wire : r.gen \in Generations /\ r.txn # NoTxn
    BY DEF RotationsInv, WireInv
  <1>4. Generations \subseteq Nat
    BY GenerationFacts
  <1>5. CASE flow[f].pc = "rotSave"
    <2>1. disk' = [gen |-> disk.gen, pending |-> flow[f].txn]
      BY <1>2, <1>5 DEF Rotated
    <2>2. disk.pending = NoTxn
      BY <1>5 DEF RotationsInv, RotationInv
    <2>3. disk.gen = t
      BY <1>1, <1>4, <2>2 DEF InStepAt
    <2>4. \A r \in wire : r.gen < t /\ holder[r.gen + 1] = r.txn
      BY <1>1, <1>3, <2>2 DEF InStepAt
    <2>5. InStepAt(t)'
      BY <1>1, <1>2, <2>1, <2>3, <2>4 DEF InStepAt
    <2> QED
      BY <1>2, <2>1, <2>5 DEF Records
  <1>6. CASE flow[f].pc = "rotCommit"
    <2>1. disk' = [gen |-> disk.gen + 1, pending |-> NoTxn]
      BY <1>2, <1>6 DEF Rotated
    <2>2. disk.gen + 1 \in Generations /\ holder[disk.gen + 1] # NoTxn
      BY <1>2, <1>6 DEF RotationsInv, RotationInv
    <2>3. disk.gen + 1 = t
      BY <1>1, <1>2, <1>4, <2>2 DEF InStepAt
    <2>4. \A r \in wire : r.gen < t /\ holder[r.gen + 1] = r.txn
      BY <1>1, <1>2, <1>3, <1>4, <2>3 DEF InStepAt
    <2>5. InStepAt(t)'
      BY <1>1, <1>6, <2>1, <2>3, <2>4 DEF InStepAt
    <2> QED
      BY <2>1, <2>2, <2>5 DEF Records, NoTxn
  <1> QED
    BY <1>5, <1>6

\* initialize() or a refresh ends.  The next refresh is allowed only if the
\* record in memory is the one on disk and no rotation is pending.
LEMMA EndKeeps ==
  ASSUME RotationsInv, NEW f \in Rotating, flow[f].pc # "idle",
         flow' = [flow EXCEPT ![f] = Idle], queue' = <<>>, wire' = wire,
         \A r \in wire : r.by # f,
         UNCHANGED <<holder, minted, userActive, marker, phase>>,
         booted' = (booted \/ (f = "init" /\ flow'[f].pc = "idle")),
         disk' \in Records, \E t \in Generations : InStepAt(t)',
         phase = "running" /\ status' \notin Blocked =>
            credential' = disk' /\ disk'.pending = NoTxn
  PROVE  RotationsInv'
  <1> DEFINE g == IF f = "init" THEN "refresh" ELSE "init"
  <1>1. /\ g \in Rotating /\ f # g /\ Rotating \subseteq Flows
        /\ Rotating = {f, g}
    BY DEF Rotating, Flows
  <1>2. Idle \in FlowRecords /\ Idle.pc = "idle" /\ Idle.stale = FALSE
    BY DEF Idle, FlowRecords, Steps, NoTxn, Replies
  <1>3. /\ flow \in [Flows -> FlowRecords] /\ flow' \in [Flows -> FlowRecords]
        /\ flow'[f] = Idle /\ \A h \in Flows \ {f} : flow'[h] = flow[h]
    BY <1>1, <1>2 DEF RotationsInv, TypesInv
  <1>4. flow[g].pc = "idle" /\ flow'[g].pc = "idle" /\ booted' = TRUE
    BY <1>1, <1>2, <1>3 DEF RotationsInv, FlowsInv, TypesInv, Rotating
  <1> HIDE DEF g
  <1>5. TypesInv'
    BY <1>3, <1>4 DEF RotationsInv, TypesInv
  <1>6. FlowsInv'
    BY <1>1, <1>2, <1>3, <1>4 DEF RotationsInv, FlowsInv, Rotating, Flows
  <1>7. QueueInv' /\ RotationInv'
    BY <1>1, <1>2, <1>3, <1>4 DEF QueueInv, RotationInv, Rotating
  <1>8. WireInv'
    BY <1>1, <1>3 DEF RotationsInv, WireInv
  <1> QED
    BY <1>5, <1>6, <1>7, <1>8 DEF RotationsInv

\* A rotation awaits its write or its answer, but not both.
LEMMA OneRotation ==
  ASSUME RotationsInv, NEW f \in Rotating, flow[f].pc # "idle"
  PROVE  /\ \A g \in Rotating \ {f} : flow[g].pc = "idle"
         /\ flow[f].pc \notin {"rotSave", "rotCommit"} => queue = <<>>
         /\ flow[f].pc \in {"rotSave", "rotCommit"} =>
               queue = <<SaveBy(f, Rotated(f))>>
         /\ flow[f].pc # "rotWait" \/ flow[f].reply # "none" =>
               \A r \in wire : r.by = "nobody"
  <1>1. \A g \in Rotating \ {f} : flow[g].pc = "idle"
    BY DEF RotationsInv, FlowsInv, TypesInv, Rotating
  <1>2. \A r \in wire : r.by \in Rotating \cup {"nobody"}
    BY DEF RotationsInv, WireInv
  <1>3. \A r \in wire : r.by = "nobody" \/ r.by = f
    BY <1>1, <1>2 DEF RotationsInv, WireInv
  <1>4. flow[f].pc # "rotWait" \/ flow[f].reply # "none" =>
           \A r \in wire : r.by = "nobody"
    BY <1>3 DEF RotationsInv, WireInv, Rotating
  <1> QED
    BY <1>1, <1>4 DEF RotationsInv, QueueInv

\* A step beside the rotations: a retry that finds no marker, a revocation or
\* a lapse on the server.
LEMMA AsideKeeps ==
  ASSUME RotationsInv, UNCHANGED <<holder, userActive, fileVars, memoryVars,
                                   hostVars, queue, wire, minted>>,
         flow' \in [Flows -> FlowRecords],
         \A f \in Flows \ {"retry"} : flow'[f] = flow[f],
         flow'["retry"].pc \in {"idle", "check"},
         flow'["retry"].stale => phase = "disposed",
         phase = "down" => flow'["retry"].pc = "idle"
  PROVE  RotationsInv'
  <1>1. /\ UNCHANGED <<disk, marker, credential, status, phase, booted, queue,
                       wire, holder, minted, userActive>>
        /\ \A f \in Rotating : flow'[f] = flow[f]
        /\ flow'["logout"] = flow["logout"] /\ flow'["discard"] = flow["discard"]
    BY DEF fileVars, memoryVars, hostVars, Rotating, Flows
  <1>2. TypesInv'
    BY <1>1 DEF RotationsInv, TypesInv
  <1>3. FlowsInv'
    BY <1>1 DEF RotationsInv, FlowsInv, Rotating, Flows
  <1>4. QueueInv'
    BY <1>1 DEF RotationsInv, QueueInv, Rotated
  <1>5. RotationInv'
    BY <1>1 DEF RotationsInv, RotationInv, Rotating
  <1>6. WireInv'
    BY <1>1 DEF RotationsInv, WireInv
  <1>7. \E t \in Generations : InStepAt(t)'
    BY <1>1 DEF RotationsInv, InStepAt
  <1> QED
    BY <1>2, <1>3, <1>4, <1>5, <1>6, <1>7 DEF RotationsInv

\* The record in step with the server stays so while neither moves.
LEMMA StaysInStep ==
  ASSUME RotationsInv, UNCHANGED <<holder, disk, wire>>
  PROVE  \E t \in Generations : InStepAt(t)'
  BY DEF RotationsInv, InStepAt

-----------------------------------------------------------------------------
\* Rotations.

\* client.refresh() settled: the new record is written, or the rotation ends
\* and the coordinator is locked, or dispose() has locked it already.
LEMMA AnsweredKeeps ==
  ASSUME RotationsInv, NEW f \in Rotating, RotateAnswered(f)
  PROVE  RotationsInv'
  <1>1. /\ flow[f].pc = "rotWait" /\ flow[f].reply # "none"
        /\ UNCHANGED <<holder, userActive, disk, marker, phase, wire, minted>>
        /\ booted' = (booted \/ (f = "init" /\ flow'[f].pc = "idle"))
    BY DEF RotateAnswered, serverVars, fileVars, boundVars
  <1>2. /\ \A g \in Rotating \ {f} : flow[g].pc = "idle"
        /\ queue = <<>> /\ \A r \in wire : r.by = "nobody"
    BY <1>1, OneRotation
  <1>3. /\ flow[f].src = disk.gen /\ flow[f].txn # NoTxn /\ credential = disk
        /\ disk.pending = flow[f].txn /\ disk \in Records
        /\ flow[f].reply = "issued" => /\ flow[f].src + 1 \in Generations
                                       /\ holder[flow[f].src + 1] = flow[f].txn
        /\ flow[f].stale => phase = "disposed"
        /\ f \in Flows /\ f \notin {"logout", "retry", "discard"}
    BY <1>1 DEF RotationsInv, RotationInv, TypesInv, FlowsInv, Rotating, Flows
  <1>4. CASE /\ flow[f].reply = "issued" /\ ~flow[f].stale
             /\ flow' = [flow EXCEPT ![f] = [@ EXCEPT !.pc = "rotCommit",
                                                       !.reply = "none"]]
             /\ queue' = Append(queue,
                    SaveBy(f, [gen |-> flow[f].src + 1, pending |-> NoTxn]))
             /\ UNCHANGED memoryVars
    <2>1. /\ flow \in [Flows -> FlowRecords] /\ flow' \in [Flows -> FlowRecords]
          /\ flow'[f].pc = "rotCommit" /\ flow'[f].src = flow[f].src
          /\ flow'[f].txn = flow[f].txn /\ flow'[f].stale = flow[f].stale
          /\ \A h \in Flows \ {f} : flow'[h] = flow[h]
      <3> DEFINE e == [flow[f] EXCEPT !.pc = "rotCommit", !.reply = "none"]
      <3>1. flow \in [Flows -> FlowRecords]
        BY DEF RotationsInv, TypesInv
      <3>2. /\ e \in FlowRecords /\ e.pc = "rotCommit" /\ e.src = flow[f].src
            /\ e.txn = flow[f].txn /\ e.stale = flow[f].stale
        <4>1. flow[f] \in FlowRecords /\ "rotCommit" \in Steps /\ "none" \in Replies
          BY <1>3, <3>1 DEF Steps, Replies
        <4>2. e \in FlowRecords
          BY <4>1 DEF FlowRecords
        <4> QED
          BY <4>1, <4>2 DEF FlowRecords
      <3>3. flow' = [flow EXCEPT ![f] = e]
        BY <1>4
      <3> HIDE DEF e
      <3> QED
        BY <1>3, <3>1, <3>2, <3>3
    <2>2. queue' = <<SaveBy(f, [gen |-> flow[f].src + 1, pending |-> NoTxn])>>
      BY <1>2, <1>4
    <2>3. booted' = booted /\ UNCHANGED <<credential, access, status>>
      BY <1>1, <1>4, <2>1 DEF RotationsInv, TypesInv, memoryVars
    <2>4. TypesInv'
      BY <1>1, <2>1, <2>3 DEF RotationsInv, TypesInv
    <2>5. FlowsInv'
      BY <1>1, <2>1, <2>3 DEF RotationsInv, FlowsInv, Rotating, Flows
    <2>6. QueueInv'
      BY <2>1, <2>2 DEF QueueInv, Rotated
    <2>7. RotationInv'
      BY <1>1, <1>2, <1>3, <1>4, <2>1, <2>3 DEF RotationsInv, RotationInv,
         FlowsInv, Rotating, Flows
    <2>8. WireInv'
      BY <1>1, <1>2, <2>1 DEF RotationsInv, WireInv
    <2> QED
      BY <1>1, <2>4, <2>5, <2>6, <2>7, <2>8, StaysInStep DEF RotationsInv
  <1>5. ASSUME NEW c, NEW s, Throw(f, c, credential, NoGen, s, flow, queue),
               phase = "running" => s \in Blocked
        PROVE  RotationsInv'
    <2>1. /\ flow' = [flow EXCEPT ![f] = Idle] /\ queue' = <<>> /\ status' = s
      BY <1>2, <1>3, <1>5 DEF Throw, Memory, Ended, Rotating
    <2> QED
      BY <1>1, <1>2, <1>3, <1>5, <2>1, EndKeeps, StaysInStep DEF Rotating
  <1>6. flow[f].reply = "issued" => (~flow[f].stale =>
            credential.gen = flow[f].src /\ credential.pending = flow[f].txn)
    BY <1>3
  <1> QED
    BY <1>1, <1>3, <1>4, <1>5, <1>6 DEF RotateAnswered, Blocked

\* The write of a rotation ends: the request goes out, or the rotation is over.
LEMMA StoreSucceedsKeeps ==
  ASSUME RotationsInv, StoreSucceeds
  PROVE  RotationsInv'
  <1>1. PICK f \in Rotating : /\ flow[f].pc \in {"rotSave", "rotCommit"}
                              /\ queue = <<SaveBy(f, Rotated(f))>>
    BY DEF StoreSucceeds, RotationsInv, QueueInv
  <1>2. /\ Head(queue) = SaveBy(f, Rotated(f)) /\ Tail(queue) = <<>>
        /\ Head(queue).by = f /\ Head(queue).value = Rotated(f)
    BY <1>1 DEF SaveBy
  <1>3. /\ disk' = Rotated(f)
        /\ flow[f].pc = "rotSave" => RotateSend(f)
        /\ flow[f].pc = "rotCommit" => RotateCommit(f)
        /\ booted' = (booted \/ (f = "init" /\ flow'[f].pc = "idle"))
        /\ UNCHANGED <<holder, userActive, marker, phase, minted>>
    BY <1>1, <1>2 DEF StoreSucceeds, serverVars, boundVars
  <1>4. /\ \A g \in Rotating \ {f} : flow[g].pc = "idle"
        /\ \A r \in wire : r.by = "nobody"
    BY <1>1, OneRotation
  <1>5. /\ flow[f].src = disk.gen /\ flow[f].txn # NoTxn /\ disk \in Records
        /\ flow[f].stale => phase = "disposed"
        /\ flow[f].txn \in Nat
        /\ f \in Flows /\ f \notin {"logout", "retry", "discard"}
    BY <1>1 DEF RotationsInv, RotationInv, TypesInv, FlowsInv, Rotating, Flows,
       FlowRecords
  <1>6. CASE flow[f].pc = "rotCommit"
    <2>1. /\ flow' = [flow EXCEPT ![f] = Idle] /\ queue' = <<>> /\ wire' = wire
          /\ credential' = Rotated(f) \/ flow[f].stale
      BY <1>2, <1>3, <1>5, <1>6 DEF RotateCommit, Throw, Returned, Memory, Ended,
         Rotating
    <2>2. disk' \in Records /\ \E t \in Generations : InStepAt(t)'
      BY <1>1, <1>3, <2>1, WriteKeepsInStep
    <2>3. Rotated(f).pending = NoTxn
      BY <1>6 DEF Rotated
    <2> QED
      BY <1>3, <1>4, <1>5, <1>6, <2>1, <2>2, <2>3, EndKeeps DEF Rotating
  <1>7. CASE flow[f].pc = "rotSave"
    <2>1. /\ credential' = Rotated(f) /\ status' = "refreshing"
          /\ flow' = [flow EXCEPT ![f].pc = "rotWait"]
          /\ queue' = <<>>
          /\ wire' = wire \cup {RefreshRequest(f, flow[f].src, flow[f].txn)}
      BY <1>2, <1>3, <1>7 DEF RotateSend, Memory
    <2>2. Rotated(f) = [gen |-> disk.gen, pending |-> flow[f].txn]
      BY <1>5, <1>7 DEF Rotated
    <2>3. /\ flow \in [Flows -> FlowRecords] /\ flow' \in [Flows -> FlowRecords]
          /\ flow'[f].pc = "rotWait" /\ flow'[f].src = flow[f].src
          /\ flow'[f].txn = flow[f].txn /\ flow'[f].stale = flow[f].stale
          /\ flow'[f].reply = flow[f].reply
          /\ \A h \in Flows \ {f} : flow'[h] = flow[h]
      BY <1>5, <2>1 DEF RotationsInv, TypesInv, FlowRecords, Steps
    <2>4. booted' = booted
      BY <1>3, <2>3 DEF RotationsInv, TypesInv
    <2>5. f = "refresh" /\ flow[f].reply = "none"
      BY <1>7 DEF RotationsInv, FlowsInv, RotationInv, Rotating
    <2>6. TypesInv'
      BY <1>3, <1>5, <2>2, <2>3, <2>4 DEF RotationsInv, TypesInv, Records
    <2>7. FlowsInv'
      BY <1>3, <1>7, <2>3, <2>4, <2>5 DEF RotationsInv, FlowsInv, Rotating, Flows
    <2>8. QueueInv'
      BY <1>4, <1>5, <2>1, <2>3 DEF QueueInv, Rotating, Flows
    <2>9. RotationInv'
      BY <1>3, <1>4, <1>5, <1>7, <2>1, <2>2, <2>3, <2>4, <2>5 DEF RotationsInv,
         RotationInv, FlowsInv, Rotating, Flows
    <2>10. WireInv'
      BY <1>4, <1>5, <2>1, <2>3, <2>5 DEF RotationsInv, WireInv, RefreshRequest,
         Records, NoTxn
    <2>11. \E t \in Generations : InStepAt(t)'
      BY <1>1, <1>3, <1>7, <2>1, WriteKeepsInStep DEF RefreshRequest
    <2> QED
      BY <2>11, <2>6, <2>7, <2>8, <2>9, <2>10 DEF RotationsInv
  <1> QED
    BY <1>1, <1>6, <1>7

\* A write fails: the rotation is over and the coordinator locked, whether or
\* not the write reached the disk.
LEMMA StoreFailsKeeps ==
  ASSUME RotationsInv, StoreFails
  PROVE  RotationsInv'
  <1>1. PICK f \in Rotating : /\ flow[f].pc \in {"rotSave", "rotCommit"}
                              /\ queue = <<SaveBy(f, Rotated(f))>>
    BY DEF StoreFails, RotationsInv, QueueInv
  <1>2. /\ Head(queue) = SaveBy(f, Rotated(f)) /\ Tail(queue) = <<>>
        /\ Head(queue).by = f /\ Head(queue).value = Rotated(f)
    BY <1>1 DEF SaveBy
  <1>3. /\ disk' \in {disk, Rotated(f)}
        /\ Throw(f, "transient", credential, NoGen, "locked", flow, <<>>)
        /\ booted' = (booted \/ (f = "init" /\ flow'[f].pc = "idle"))
        /\ UNCHANGED <<holder, userActive, marker, phase, wire, minted>>
    BY <1>1, <1>2 DEF StoreFails, serverVars
  <1>4. \A r \in wire : r.by = "nobody"
    BY <1>1, OneRotation
  <1>5. /\ flow' = [flow EXCEPT ![f] = Idle] /\ queue' = <<>>
        /\ status' = "locked"
    BY <1>3 DEF Throw, Memory, Ended, Rotating
  <1>6. disk' \in Records /\ \E t \in Generations : InStepAt(t)'
    <2>1. CASE disk' = disk
      BY <1>3, <2>1, StaysInStep DEF RotationsInv, TypesInv
    <2>2. CASE disk' = Rotated(f)
      BY <1>1, <1>3, <2>2, WriteKeepsInStep
    <2> QED
      BY <1>3, <2>1, <2>2
  <1> QED
    BY <1>1, <1>3, <1>4, <1>5, <1>6, EndKeeps DEF Rotating, Blocked

\* What rotate() sets of its flow before its first await.
LEMMA RotationBegins ==
  ASSUME flow \in [Flows -> FlowRecords], NEW f \in Flows,
         NEW p \in Steps, NEW x \in Nat, credential.gen \in Generations,
         flow' = RotationFrom(f, p, x)
  PROVE  /\ flow' \in [Flows -> FlowRecords]
         /\ flow'[f].pc = p /\ flow'[f].stale = FALSE
         /\ flow'[f].src = credential.gen
         /\ flow'[f].txn = x /\ flow'[f].reply = "none"
         /\ \A h \in Flows \ {f} : flow'[h] = flow[h]
  <1> DEFINE e == [flow[f] EXCEPT !.pc = p, !.stale = FALSE,
                                  !.src = credential.gen, !.txn = x,
                                  !.reply = "none"]
  <1>1. e \in FlowRecords
    BY DEF FlowRecords, Replies
  <1>2. /\ e.pc = p /\ e.stale = FALSE /\ e.src = credential.gen /\ e.txn = x
        /\ e.reply = "none"
    BY DEF FlowRecords
  <1>3. flow' = [flow EXCEPT ![f] = e]
    BY DEF RotationFrom
  <1> HIDE DEF e
  <1> QED
    BY <1>1, <1>2, <1>3

\* A refresh begins: no rotation is pending, so that a new transaction may be
\* drawn.
LEMMA RefreshKeeps ==
  ASSUME RotationsInv, Undisturbed, Refresh
  PROVE  RotationsInv'
  <1>1. /\ phase = "running" /\ booted /\ flow["refresh"].pc = "idle"
        /\ status \notin Blocked
        /\ UNCHANGED <<holder, userActive, disk, marker, phase, booted,
                       credential, access, status, wire>>
        /\ minted' = minted + 1
        /\ flow' = RotationFrom("refresh", "rotSave", minted')
        /\ queue' = Append(queue,
                       SaveBy("refresh", [credential EXCEPT !.pending = minted']))
    BY DEF Refresh, HostReady, Undisturbed, BeginRotate, serverVars, fileVars,
           hostVars, memoryVars
  <1>2. /\ flow["init"].pc = "idle" /\ credential = disk /\ disk.pending = NoTxn
        /\ disk \in Records /\ minted \in Nat /\ queue = <<>>
        /\ flow \in [Flows -> FlowRecords]
    BY <1>1 DEF RotationsInv, FlowsInv, RotationInv, TypesInv, QueueInv, Rotating
  <1>3. /\ flow' \in [Flows -> FlowRecords]
        /\ flow'["refresh"].pc = "rotSave" /\ flow'["refresh"].stale = FALSE
        /\ flow'["refresh"].src = disk.gen /\ flow'["refresh"].txn = minted + 1
        /\ flow'["refresh"].reply = "none"
        /\ \A h \in Flows \ {"refresh"} : flow'[h] = flow[h]
    <2>1. /\ "refresh" \in Flows /\ "rotSave" \in Steps
          /\ credential.gen = disk.gen /\ disk.gen \in Generations
          /\ minted' = minted + 1 /\ minted' \in Nat
      BY <1>1, <1>2 DEF Flows, Steps, Records
    <2> QED
      BY <1>1, <1>2, <2>1, RotationBegins
  <1>4. [credential EXCEPT !.pending = minted'] =
           [gen |-> disk.gen, pending |-> minted + 1]
    BY <1>1, <1>2 DEF Records
  <1>5. TypesInv'
    BY <1>1, <1>2, <1>3 DEF RotationsInv, TypesInv
  <1>6. FlowsInv'
    BY <1>1, <1>2, <1>3 DEF RotationsInv, FlowsInv, Rotating, Flows
  <1>7. QueueInv'
    BY <1>1, <1>2, <1>3, <1>4 DEF QueueInv, Rotated, Rotating
  <1>8. RotationInv'
    BY <1>1, <1>2, <1>3 DEF RotationInv, Rotating, Flows, NoTxn
  <1>9. WireInv'
    BY <1>1, <1>2, <1>3 DEF RotationsInv, WireInv, Rotating, Flows
  <1> QED
    BY <1>1, <1>5, <1>6, <1>7, <1>8, <1>9, StaysInStep DEF RotationsInv

-----------------------------------------------------------------------------
\* initialize()

\* The record is read.
LEMMA InitLoadKeeps ==
  ASSUME RotationsInv, InitLoad
  PROVE  RotationsInv'
  <1>1. disk # NoCredential /\ flow \in [Flows -> FlowRecords]
    BY GenerationFacts DEF RotationsInv, TypesInv
  <1>2. /\ flow["init"].pc = "load" /\ credential' = disk
        /\ flow' = [flow EXCEPT !["init"].pc = "cleanup"]
        /\ UNCHANGED <<holder, userActive, disk, marker, phase, booted, queue,
                       wire, minted, status>>
    BY <1>1 DEF InitLoad, serverVars, fileVars, boundVars
  <1>3. /\ flow["refresh"].pc = "idle" /\ ~booted
    BY <1>2 DEF RotationsInv, FlowsInv, TypesInv
  <1>4. /\ flow' \in [Flows -> FlowRecords] /\ flow'["init"].pc = "cleanup"
        /\ flow'["init"].stale = flow["init"].stale
        /\ \A h \in Flows \ {"init"} : flow'[h] = flow[h]
    BY <1>1, <1>2 DEF FlowRecords, Steps, Flows
  <1>5. TypesInv'
    BY <1>2, <1>4 DEF RotationsInv, TypesInv
  <1>6. FlowsInv'
    BY <1>2, <1>3, <1>4 DEF RotationsInv, FlowsInv, Rotating, Flows
  <1>7. QueueInv' /\ RotationInv'
    BY <1>2, <1>3, <1>4 DEF RotationsInv, QueueInv, RotationInv, Rotating, Flows,
       Rotated
  <1>8. WireInv'
    BY <1>2, <1>3, <1>4 DEF RotationsInv, WireInv, Rotating, Flows
  <1> QED
    BY <1>2, <1>5, <1>6, <1>7, <1>8, StaysInStep DEF RotationsInv

\* The pending rotation on record is sent again, or there is none.
LEMMA InitResumeKeeps ==
  ASSUME RotationsInv, InitResume
  PROVE  RotationsInv'
  <1>1. /\ flow["init"].pc = "cleanup" /\ marker = FALSE /\ credential = disk
        /\ disk \in Records /\ flow \in [Flows -> FlowRecords]
        /\ UNCHANGED <<holder, userActive, disk, marker, phase>>
        /\ ~flow["init"].stale
    BY DEF InitResume, RotationsInv, TypesInv, RotationInv, serverVars, fileVars
  <1>2. /\ queue = <<>> /\ \A r \in wire : r.by = "nobody"
        /\ flow["refresh"].pc = "idle" /\ booted = FALSE
    BY <1>1, OneRotation DEF Rotating, RotationsInv, FlowsInv, TypesInv
  <1>3. CASE /\ credential.pending = NoTxn /\ status' = "authenticated"
             /\ flow' = [flow EXCEPT !["init"] = Ended("init", "ok")]
             /\ booted' = TRUE
             /\ UNCHANGED <<credential, access, queue, wire, minted>>
    <2>1. flow' = [flow EXCEPT !["init"] = Idle] /\ flow'["init"].pc = "idle"
      BY <1>1, <1>3 DEF Ended, Idle, Flows
    <2> QED
      BY <1>1, <1>2, <1>3, <2>1, EndKeeps, StaysInStep DEF Rotating
  <1>4. CASE credential.pending # NoTxn /\ BeginRotate("init", TRUE)
             /\ UNCHANGED booted
    <2>1. /\ UNCHANGED <<credential, queue, minted>>
          /\ flow' = RotationFrom("init", "rotWait", credential.pending)
          /\ wire' = wire \cup
                {RefreshRequest("init", credential.gen, credential.pending)}
      BY <1>4 DEF BeginRotate
    <2>2. /\ flow' \in [Flows -> FlowRecords] /\ flow'["init"].pc = "rotWait"
          /\ flow'["init"].stale = FALSE /\ flow'["init"].src = disk.gen
          /\ flow'["init"].txn = disk.pending /\ flow'["init"].reply = "none"
          /\ \A h \in Flows \ {"init"} : flow'[h] = flow[h]
      <3>1. /\ "init" \in Flows /\ "rotWait" \in Steps
            /\ credential.gen = disk.gen /\ credential.pending = disk.pending
            /\ disk.gen \in Generations /\ disk.pending \in Nat
        BY <1>1 DEF Flows, Steps, Records
      <3> QED
        BY <1>1, <2>1, <3>1, RotationBegins
    <2>3. TypesInv'
      BY <1>1, <1>4, <2>1, <2>2 DEF RotationsInv, TypesInv
    <2>4. FlowsInv'
      BY <1>1, <1>2, <1>4, <2>2 DEF RotationsInv, FlowsInv, Rotating, Flows
    <2>5. QueueInv' /\ RotationInv'
      BY <1>1, <1>2, <1>4, <2>1, <2>2 DEF QueueInv, RotationInv, Rotating, Flows
    <2>6. WireInv'
      BY <1>1, <1>2, <1>4, <2>1, <2>2 DEF RotationsInv, WireInv, Rotating, Flows,
         RefreshRequest, Records, NoTxn
    <2>7. \E t \in Generations : InStepAt(t)'
      <3>1. PICK t \in Generations : InStepAt(t)
        BY DEF RotationsInv
      <3>2. \A r \in wire' : r \in wire \/ (r.gen = disk.gen /\ r.txn = disk.pending)
        BY <1>1, <2>1 DEF RefreshRequest
      <3>3. disk.gen = t \/ (disk.gen < t /\ holder[disk.gen + 1] = disk.pending)
        <4>1. disk.gen \in Nat /\ t \in Nat
          BY <1>1, GenerationFacts DEF Records
        <4> QED
          BY <3>1, <4>1 DEF InStepAt
      <3> QED
        BY <1>1, <3>1, <3>2, <3>3 DEF InStepAt
    <2> QED
      BY <2>3, <2>4, <2>5, <2>6, <2>7 DEF RotationsInv
  <1> QED
    BY <1>1, <1>3, <1>4 DEF InitResume

\* The record cannot be read.
LEMMA InitFailsKeeps ==
  ASSUME RotationsInv, InitFails
  PROVE  RotationsInv'
  <1>1. /\ flow["init"].pc \in {"load", "cleanup"}
        /\ UNCHANGED <<holder, userActive, disk, marker, phase, wire, minted, queue>>
        /\ flow' = [flow EXCEPT !["init"] = Idle] /\ booted' = TRUE
        /\ status' = "locked"
    BY DEF InitFails, Ended, Memory, serverVars, fileVars
  <1>2. queue = <<>> /\ (\A r \in wire : r.by = "nobody")
        /\ flow'["init"].pc = "idle" /\ disk \in Records
    BY <1>1, OneRotation DEF Rotating, RotationsInv, TypesInv, Idle, Flows
  <1> QED
    BY <1>1, <1>2, EndKeeps, StaysInStep DEF Rotating, Blocked

-----------------------------------------------------------------------------
\* Requests in flight.

\* What a request that is served, or given up, changes of the flow waiting for
\* it.
LEMMA ReplyKeeps ==
  ASSUME RotationsInv, NEW r \in wire, NEW answer \in Replies,
         flow' = IF r.by = "nobody" THEN flow
                 ELSE [flow EXCEPT ![r.by].reply = answer],
         \A q \in wire' : q \in wire \ {r} \/ (q.by = "nobody" /\ q = [r EXCEPT !.by = "nobody"]),
         UNCHANGED <<userActive, fileVars, memoryVars, hostVars, queue, minted>>,
         holder' \in [Generations -> Nat],
         \A g \in Generations : holder[g] # NoTxn => holder'[g] = holder[g],
         r.by # "nobody" /\ answer = "issued" =>
            r.gen + 1 \in Generations /\ holder'[r.gen + 1] = r.txn
  PROVE  /\ TypesInv' /\ FlowsInv' /\ QueueInv' /\ RotationInv' /\ WireInv'
         /\ UNCHANGED disk
  <1>1. /\ r \in [kind : {"refresh"}, gen : Generations, txn : Nat \ {NoTxn},
                  by : Rotating \cup {"nobody"}]
        /\ r.by # "nobody" =>
              /\ flow[r.by].pc = "rotWait" /\ flow[r.by].reply = "none"
              /\ r.gen = flow[r.by].src /\ r.txn = flow[r.by].txn
    BY DEF RotationsInv, WireInv
  <1>2. UNCHANGED <<disk, marker, credential, status, phase, booted>>
    BY DEF fileVars, memoryVars, hostVars
  <1>3. /\ flow \in [Flows -> FlowRecords] /\ flow' \in [Flows -> FlowRecords]
        /\ \A f \in Flows : /\ flow'[f].pc = flow[f].pc
                            /\ flow'[f].stale = flow[f].stale
                            /\ flow'[f].src = flow[f].src
                            /\ flow'[f].txn = flow[f].txn
                            /\ f # r.by => flow'[f].reply = flow[f].reply
        /\ r.by # "nobody" => flow'[r.by].reply = answer
    BY <1>1 DEF RotationsInv, TypesInv, FlowRecords, Rotating, Flows
  <1>4. Rotating \subseteq Flows /\ "nobody" \notin Rotating
    BY DEF Rotating, Flows
  <1>5. TypesInv'
    BY <1>2, <1>3 DEF RotationsInv, TypesInv
  <1>6. FlowsInv'
    BY <1>2, <1>3 DEF RotationsInv, FlowsInv, Rotating, Flows
  <1>7. QueueInv'
    <2>1. \A f \in Rotating : flow'[f].pc = flow[f].pc /\ Rotated(f)' = Rotated(f)
      BY <1>3, <1>4 DEF Rotated
    <2>2. queue' = queue
      OBVIOUS
    <2>3. QueueInv
      BY DEF RotationsInv
    <2> QED
      BY <2>1, <2>2, <2>3 DEF QueueInv
  <1>8. RotationInv'
    <2>1. ASSUME NEW f \in Rotating,
                 \/ flow'[f].pc = "rotWait" /\ flow'[f].reply = "issued"
                 \/ flow'[f].pc = "rotCommit"
          PROVE  /\ flow'[f].src + 1 \in Generations
                 /\ holder'[flow'[f].src + 1] = flow'[f].txn
      <3>1. CASE f = r.by /\ flow'[f].pc = "rotWait"
        BY <1>1, <1>3, <1>4, <2>1, <3>1
      <3>2. CASE f # r.by \/ flow'[f].pc # "rotWait"
        <4>1. /\ flow[f].src + 1 \in Generations
              /\ holder[flow[f].src + 1] = flow[f].txn /\ flow[f].txn # NoTxn
          BY <1>3, <1>4, <2>1, <3>2 DEF RotationsInv, RotationInv
        <4> QED
          BY <1>3, <1>4, <4>1
      <3> QED
        BY <3>1, <3>2
    <2>2. \A f \in Rotating : flow'[f].pc = "rotSave" => flow'[f].reply = "none"
      BY <1>1, <1>3, <1>4 DEF RotationsInv, RotationInv
    <2> QED
      BY <1>2, <1>3, <1>4, <2>1, <2>2 DEF RotationsInv, RotationInv, Rotating
  <1>9. WireInv'
    <2>1. ASSUME NEW q \in wire'
          PROVE  /\ q \in [kind : {"refresh"}, gen : Generations,
                           txn : Nat \ {NoTxn}, by : Rotating \cup {"nobody"}]
                 /\ q.by # "nobody" =>
                      /\ flow'[q.by].pc = "rotWait" /\ flow'[q.by].reply = "none"
                      /\ q.gen = flow'[q.by].src /\ q.txn = flow'[q.by].txn
      <3>1. CASE q \in wire \ {r}
        <4>1. /\ q \in [kind : {"refresh"}, gen : Generations,
                        txn : Nat \ {NoTxn}, by : Rotating \cup {"nobody"}]
              /\ q.by # "nobody" =>
                    /\ flow[q.by].pc = "rotWait" /\ flow[q.by].reply = "none"
                    /\ q.gen = flow[q.by].src /\ q.txn = flow[q.by].txn
          BY <3>1 DEF RotationsInv, WireInv
        <4>2. q.by # "nobody" => q.by # r.by
          BY <1>1, <3>1, <4>1
        <4> QED
          BY <1>3, <1>4, <4>1, <4>2
      <3>2. CASE q.by = "nobody" /\ q = [r EXCEPT !.by = "nobody"]
        BY <1>1, <3>2
      <3> QED
        BY <2>1, <3>1, <3>2
    <2> QED
      BY <2>1 DEF WireInv
  <1> QED
    BY <1>2, <1>5, <1>6, <1>7, <1>8, <1>9

\* The server serves a rotation: the next generation goes to the transaction
\* that is on disk, or was issued to it before.
LEMMA ServeKeeps ==
  ASSUME RotationsInv, NEW r \in wire, NEW answer \in Replies, Serve(r, answer)
  PROVE  RotationsInv'
  <1>1. PICK t \in Generations : InStepAt(t)
    BY DEF RotationsInv
  <1>2. /\ r.kind = "refresh" /\ r.gen \in Generations /\ r.txn \in Nat \ {NoTxn}
        /\ userActive = TRUE /\ holder \in [Generations -> Nat]
        /\ disk.gen \in Generations
        /\ \A q \in wire : q.gen \in Generations
    BY DEF RotationsInv, WireInv, TypesInv, Records
  <1>3. /\ wire' = wire \ {r}
        /\ flow' = IF r.by = "nobody" THEN flow
                   ELSE [flow EXCEPT ![r.by].reply = answer]
        /\ UNCHANGED <<userActive, fileVars, memoryVars, hostVars, queue, minted>>
        /\ Server!Rotate(r.gen, r.txn, answer)
    BY <1>2 DEF Serve, RefreshAnswer
  <1>4. Generations \subseteq Nat /\ Server!Gens = Generations
    BY GenerationFacts DEF Server!Gens, Generations
  <1>5. CASE answer = "issued" /\ Server!Advance(r.gen, r.txn)
    <2>1. /\ r.gen + 1 \in Generations /\ holder[r.gen] # NoTxn
          /\ holder[r.gen + 1] = NoTxn
          /\ holder' = [holder EXCEPT ![r.gen + 1] = r.txn]
      BY <1>4, <1>5 DEF Server!Advance, Server!IsTip, Server!Issued
    <2>2. r.gen = t
      BY <1>1, <1>2, <1>4, <2>1 DEF InStepAt
    <2>3. disk.gen = t /\ disk.pending = r.txn
      BY <1>1, <1>4, <2>2 DEF InStepAt
    <2>4. /\ TypesInv' /\ FlowsInv' /\ QueueInv' /\ RotationInv' /\ WireInv'
          /\ UNCHANGED disk
      <3>1. /\ holder' \in [Generations -> Nat] /\ holder'[r.gen + 1] = r.txn
            /\ \A g \in Generations : holder[g] # NoTxn => holder'[g] = holder[g]
        BY <1>2, <2>1
      <3> QED
        BY <1>3, <2>1, <3>1, ReplyKeeps
    <2>5. InStepAt(t + 1)'
      <3>1. \A g \in Generations : holder'[g] # NoTxn <=> g <= t + 1
        BY <1>1, <1>2, <1>4, <2>1, <2>2 DEF InStepAt
      <3>2. \A q \in wire' : q.gen < t + 1 /\ holder'[q.gen + 1] = q.txn
        BY <1>1, <1>2, <1>3, <1>4, <2>1, <2>2, <2>3 DEF InStepAt
      <3> QED
        BY <1>2, <2>1, <2>2, <2>3, <2>4, <3>1, <3>2 DEF InStepAt
    <2> QED
      BY <2>1, <2>2, <2>4, <2>5 DEF RotationsInv
  <1>6. CASE /\ holder' = holder
             /\ answer = "issued" => r.gen + 1 \in Generations
                                     /\ holder[r.gen + 1] = r.txn
    <2>1. /\ TypesInv' /\ FlowsInv' /\ QueueInv' /\ RotationInv' /\ WireInv'
          /\ UNCHANGED disk
      BY <1>2, <1>3, <1>6, ReplyKeeps
    <2>2. InStepAt(t)'
      BY <1>1, <1>3, <1>6, <2>1 DEF InStepAt
    <2> QED
      BY <2>1, <2>2 DEF RotationsInv
  <1> QED
    BY <1>3, <1>4, <1>5, <1>6 DEF Server!Rotate, Server!Revoke, Server!cfVars

\* A request is given up and may still be served.
LEMMA TimeoutKeeps ==
  ASSUME RotationsInv, NEW f \in Flows, Timeout(f)
  PROVE  RotationsInv'
  <1>1. PICK r \in wire :
           r.by = f /\ wire' = (wire \ {r}) \cup {[r EXCEPT !.by = "nobody"]}
    BY DEF Timeout
  <1>2. /\ UNCHANGED <<serverVars, fileVars, memoryVars, hostVars, queue, minted>>
        /\ flow' = [flow EXCEPT ![f].reply = "network_error"]
        /\ UNCHANGED <<holder, userActive>>
    BY DEF Timeout, serverVars
  <1>3. /\ r \in [kind : {"refresh"}, gen : Generations, txn : Nat \ {NoTxn},
                  by : Rotating \cup {"nobody"}]
        /\ "nobody" \notin Flows /\ holder \in [Generations -> Nat]
    BY DEF RotationsInv, WireInv, TypesInv, Flows
  <1>4. LET q == [r EXCEPT !.by = "nobody"]
        IN  q.by = "nobody" /\ q.gen = r.gen /\ q.txn = r.txn
    BY <1>3
  <1>5. /\ TypesInv' /\ FlowsInv' /\ QueueInv' /\ RotationInv' /\ WireInv'
        /\ UNCHANGED disk
    BY <1>1, <1>2, <1>3, <1>4, ReplyKeeps DEF Replies
  <1>6. \E t \in Generations : InStepAt(t)'
    <2>1. PICK t \in Generations : InStepAt(t)
      BY DEF RotationsInv
    <2>2. \A q \in wire' : \E p \in wire : q.gen = p.gen /\ q.txn = p.txn
      BY <1>1, <1>4
    <2>3. InStepAt(t)'
      BY <1>2, <1>5, <2>1, <2>2 DEF InStepAt
    <2> QED
      BY <2>3
  <1> QED
    BY <1>5, <1>6 DEF RotationsInv

-----------------------------------------------------------------------------
\* The process.

\* The process starts.
LEMMA StartKeeps ==
  ASSUME RotationsInv, Start
  PROVE  RotationsInv'
  <1>1. /\ phase = "down" /\ phase' = "running"
        /\ flow' = [flow EXCEPT !["init"].pc = "load"]
        /\ UNCHANGED <<holder, userActive, disk, marker, booted, queue, wire,
                       minted, credential, status>>
    BY DEF Start, serverVars, fileVars, memoryVars, boundVars
  <1>2. /\ flow \in [Flows -> FlowRecords]
        /\ \A f \in Flows : flow[f].pc = "idle" /\ ~flow[f].stale
        /\ Rotating \subseteq Flows /\ ~booted
    BY <1>1 DEF RotationsInv, TypesInv, FlowsInv, Rotating, Flows
  <1>3. /\ flow' \in [Flows -> FlowRecords] /\ flow'["init"].pc = "load"
        /\ flow'["init"].stale = flow["init"].stale
        /\ \A h \in Flows \ {"init"} : flow'[h] = flow[h]
    BY <1>1, <1>2 DEF FlowRecords, Steps, Flows
  <1>4. TypesInv'
    BY <1>1, <1>3 DEF RotationsInv, TypesInv
  <1>5. FlowsInv'
    BY <1>1, <1>2, <1>3 DEF FlowsInv, Flows
  <1>6. QueueInv' /\ RotationInv'
    BY <1>1, <1>2, <1>3 DEF RotationsInv, QueueInv, RotationInv, Rotating, Flows
  <1>7. WireInv'
    BY <1>1, <1>2 DEF RotationsInv, WireInv
  <1> QED
    BY <1>1, <1>4, <1>5, <1>6, <1>7, StaysInStep DEF RotationsInv

\* The process is gone: what is on disk and in flight is what it leaves.
LEMMA DownKeeps ==
  ASSUME RotationsInv, Down
  PROVE  RotationsInv'
  <1>1. /\ phase' = "down" /\ booted' = FALSE
        /\ flow' = [f \in Flows |-> Idle] /\ queue' = <<>> /\ wire' = Orphaned
        /\ UNCHANGED <<holder, userActive, disk, marker, minted>>
    BY DEF Down, serverVars, fileVars
  <1>2. Idle \in FlowRecords /\ Idle.pc = "idle" /\ Idle.stale = FALSE
    BY DEF Idle, FlowRecords, Steps, NoTxn, Replies
  <1>3. /\ flow' \in [Flows -> FlowRecords]
        /\ \A f \in Flows : flow'[f].pc = "idle" /\ ~flow'[f].stale
    BY <1>1, <1>2
  <1>4. TypesInv'
    BY <1>1, <1>3 DEF RotationsInv, TypesInv
  <1>5. FlowsInv' /\ QueueInv' /\ RotationInv'
    BY <1>1, <1>3 DEF FlowsInv, QueueInv, RotationInv, Rotating, Flows
  <1>6. \A r \in wire : r \in [kind : {"refresh"}, gen : Generations,
                               txn : Nat \ {NoTxn}, by : Rotating \cup {"nobody"}]
    BY DEF RotationsInv, WireInv
  <1>7. ASSUME NEW q \in wire'
        PROVE  /\ q \in [kind : {"refresh"}, gen : Generations,
                         txn : Nat \ {NoTxn}, by : Rotating \cup {"nobody"}]
               /\ q.by = "nobody"
               /\ \E r \in wire : q.gen = r.gen /\ q.txn = r.txn
    <2>1. PICK r \in wire : q = [r EXCEPT !.by = "nobody"]
      BY <1>1, <1>7 DEF Orphaned
    <2>2. /\ q \in [kind : {"refresh"}, gen : Generations,
                    txn : Nat \ {NoTxn}, by : Rotating \cup {"nobody"}]
          /\ q.by = "nobody" /\ q.gen = r.gen /\ q.txn = r.txn
      BY <1>6, <2>1
    <2> QED
      BY <2>2
  <1>8. WireInv'
    BY <1>7 DEF WireInv
  <1>9. \E t \in Generations : InStepAt(t)'
    <2>1. PICK t \in Generations : InStepAt(t)
      BY DEF RotationsInv
    <2>2. InStepAt(t)'
      BY <1>1, <1>7, <2>1 DEF InStepAt
    <2> QED
      BY <2>2
  <1> QED
    BY <1>4, <1>5, <1>8, <1>9 DEF RotationsInv

\* dispose() locks the coordinator; a rotation under way goes on as stale.
LEMMA DisposeKeeps ==
  ASSUME RotationsInv, Dispose
  PROVE  RotationsInv'
  <1>1. /\ flow \in [Flows -> FlowRecords] /\ Rotating \subseteq Flows
        /\ \A f \in Flows : flow[f].stale => phase = "disposed"
        /\ "init" \in Flows
    BY DEF RotationsInv, TypesInv, FlowsInv, Rotating, Flows
  <1>2. /\ phase = "running" /\ booted /\ phase' = "disposed"
        /\ flow' = StaleAll(flow) /\ credential' = credential
        /\ UNCHANGED <<holder, userActive, disk, marker, booted, queue, wire, minted>>
    BY <1>1 DEF Dispose, Memory, serverVars, fileVars
  <1>3. /\ flow' \in [Flows -> FlowRecords]
        /\ \A f \in Flows : /\ flow'[f].pc = flow[f].pc
                            /\ flow'[f].src = flow[f].src
                            /\ flow'[f].txn = flow[f].txn
                            /\ flow'[f].reply = flow[f].reply
    BY <1>1, <1>2 DEF StaleAll, FlowRecords
  <1>4. TypesInv'
    BY <1>2, <1>3 DEF RotationsInv, TypesInv
  <1>5. FlowsInv'
    BY <1>2, <1>3 DEF RotationsInv, FlowsInv, Flows
  <1>6. QueueInv'
    <2>1. \A f \in Rotating : flow'[f].pc = flow[f].pc /\ Rotated(f)' = Rotated(f)
      BY <1>1, <1>3 DEF Rotated
    <2>2. QueueInv
      BY DEF RotationsInv
    <2> QED
      BY <1>2, <2>1, <2>2 DEF QueueInv
  <1>7. RotationInv'
    BY <1>1, <1>2, <1>3 DEF RotationsInv, RotationInv, Rotating
  <1>8. WireInv'
    BY <1>1, <1>2, <1>3 DEF RotationsInv, WireInv
  <1> QED
    BY <1>2, <1>4, <1>5, <1>6, <1>7, <1>8, StaysInStep DEF RotationsInv

\* A retry that finds no marker, and what happens on the server by itself.
LEMMA BesideKeeps ==
  ASSUME RotationsInv, Retry \/ RetryChecked \/ BrowserRevokes
                          \/ RefreshCredentialLapses \/ UNCHANGED vars
  PROVE  RotationsInv'
  <1>1. /\ flow \in [Flows -> FlowRecords] /\ marker = FALSE
        /\ flow["retry"].pc \in {"idle", "check"}
        /\ flow["retry"].stale => phase = "disposed"
        /\ phase = "down" => flow["retry"].pc = "idle"
        /\ "retry" \in Flows
    BY DEF RotationsInv, TypesInv, FlowsInv, Flows
  <1>2. /\ At("check") \in FlowRecords /\ At("check").pc = "check"
        /\ At("check").stale = FALSE
        /\ Idle \in FlowRecords /\ Idle.pc = "idle" /\ Idle.stale = FALSE
    BY DEF At, Idle, FlowRecords, Steps, NoTxn, Replies
  <1>3. CASE Retry
    <2>1. /\ phase = "running" /\ flow' = [flow EXCEPT !["retry"] = At("check")]
          /\ UNCHANGED <<holder, userActive, fileVars, memoryVars, hostVars,
                         queue, wire, minted>>
      BY <1>3 DEF Retry, HostReady, serverVars, boundVars
    <2> QED
      BY <1>1, <1>2, <2>1, AsideKeeps
  <1>4. CASE RetryChecked
    <2>1. /\ flow' = [flow EXCEPT !["retry"] = Idle]
          /\ UNCHANGED <<holder, userActive, fileVars, memoryVars, hostVars,
                         queue, wire, minted>>
      BY <1>1, <1>4 DEF RetryChecked, Ended, serverVars, boundVars
    <2> QED
      BY <1>1, <1>2, <2>1, AsideKeeps
  <1>5. CASE BrowserRevokes \/ RefreshCredentialLapses \/ UNCHANGED vars
    <2>1. UNCHANGED <<holder, userActive, fileVars, memoryVars, hostVars, flow,
                      queue, wire, minted>>
      BY <1>5 DEF BrowserRevokes, Server!Revoke, RefreshCredentialLapses, vars,
         serverVars, boundVars
    <2> QED
      BY <1>1, <2>1, AsideKeeps
  <1> QED
    BY <1>3, <1>4, <1>5

\* Without a logout, a disabled user or a broken stream no flow but a rotation
\* gets under way.
LEMMA NoneElse ==
  ASSUME RotationsInv, Undisturbed, BoundsInv
  PROVE  /\ ~(LogoutMarked \/ LogoutSend \/ LogoutAnswered \/ RetryJoined)
         /\ ~(ProbeAnswered \/ LogoutMarkFails \/ StreamBreaks)
         /\ ~(Logout \/ Probe \/ SetUserStatus)
         /\ ~(\E r \in wire : AccessExpired(r))
         /\ \A f \in Flows : ~MarkerCleared(f) /\ ~MarkerClearFails(f)
         /\ \A f \in Flows \ Rotating : ~RotateAnswered(f)
  <1>1. ~(LogoutMarked \/ LogoutSend \/ LogoutAnswered \/ RetryJoined)
    BY DEF LogoutMarked, LogoutSend, LogoutAnswered, RetryJoined, RotationsInv,
           FlowsInv
  <1>2. ~(ProbeAnswered \/ LogoutMarkFails \/ StreamBreaks)
    BY DEF ProbeAnswered, LogoutMarkFails, StreamBreaks, RotationsInv, FlowsInv,
           Undisturbed
  <1>3. ~(Logout \/ Probe \/ SetUserStatus)
    BY DEF Logout, Probe, SetUserStatus, Undisturbed
  <1>4. ~(\E r \in wire : AccessExpired(r))
    BY DEF AccessExpired, RotationsInv, WireInv
  <1>5. \A f \in Flows : ~MarkerCleared(f) /\ ~MarkerClearFails(f)
    BY DEF MarkerCleared, MarkerClearFails, RotationsInv, FlowsInv, Flows
  <1>6. \A f \in Flows \ Rotating : ~RotateAnswered(f)
    BY DEF RotateAnswered, RotationsInv, FlowsInv, Flows, Rotating
  <1> QED
    BY <1>1, <1>2, <1>3, <1>4, <1>5, <1>6

-----------------------------------------------------------------------------
\* The theorems.

\* The first process starts from the record of generation 0.
LEMMA InitCoordinator == Init => CoordinatorInv
  <1> SUFFICES ASSUME Init PROVE BoundsInv /\ RotationsInv
    BY DEF CoordinatorInv
  <1>1. Idle \in FlowRecords /\ Idle.pc = "idle" /\ Idle.stale = FALSE
    BY DEF Idle, FlowRecords, Steps, NoTxn, Replies
  <1>2. /\ flow \in [Flows -> FlowRecords]
        /\ \A f \in Flows : flow[f].pc = "idle" /\ ~flow[f].stale
    BY <1>1 DEF Init
  <1>3. BoundsInv
    BY CoordinatorBounds DEF Init, BoundsInv, CoordinatorBounds
  <1>4. /\ holder \in [Generations -> Nat]
        /\ \A g \in Generations : holder[g] # NoTxn <=> g <= 0
    BY GenerationFacts DEF Init, NoTxn
  <1>5. TypesInv
    BY <1>2, <1>4, GenerationFacts DEF Init, TypesInv, Records, NoTxn
  <1>6. FlowsInv /\ QueueInv /\ RotationInv /\ WireInv
    BY <1>2 DEF Init, FlowsInv, QueueInv, RotationInv, WireInv, Rotating, Flows
  <1>7. InStepAt(0)
    BY <1>4 DEF Init, InStepAt
  <1> QED
    BY <1>3, <1>5, <1>6, <1>7, GenerationFacts DEF RotationsInv

\* What may happen in the scenario stays as it was.
LEMMA BoundsKeep ==
  ASSUME BoundsInv, [Next]_vars
  PROVE  BoundsInv' /\ left'.events = left.events
  <1>1. CASE UNCHANGED vars
    BY <1>1, EventsFixed DEF vars, boundVars
  <1>2. CASE \E f \in Flows : FlowStep(f)
    BY <1>2, EventsFixed DEF FlowStep, InitLoad, InitResume, LogoutMarked,
       LogoutSend, LogoutAnswered, RetryChecked, RetryJoined, ProbeAnswered,
       RotateAnswered, MarkerCleared, NoFault, boundVars
  <1>3. CASE (\E f \in Flows : ServeFlow(f)) \/ StoreSucceeds
    BY <1>3, EventsFixed DEF ServeFlow, Serve, NoFault, StoreSucceeds, boundVars
  <1>4. CASE FaultStep
    BY <1>4, EventsFixed DEF FaultStep, ServeFlow, Serve, NoFault, AccessExpired,
       InitFails, StoreFails, LogoutMarkFails, StreamBreaks, MarkerClearFails,
       Timeout, Crash
  <1>5. CASE HostStep
    BY <1>5, EventsFixed DEF HostStep, Start, Refresh, Logout, Retry, Probe,
       Dispose, Exit, NoFault, boundVars
  <1>6. CASE EnvironmentStep
    BY <1>6, EventsFixed DEF EnvironmentStep, BrowserRevokes, SetUserStatus,
       RefreshCredentialLapses, boundVars
  <1> QED
    BY <1>1, <1>2, <1>3, <1>4, <1>5, <1>6 DEF Next

\* Every step keeps the invariant.
LEMMA NextCoordinator == CoordinatorInv /\ [Next]_vars => CoordinatorInv'
  <1> SUFFICES ASSUME CoordinatorInv, [Next]_vars PROVE CoordinatorInv'
    OBVIOUS
  <1>1. BoundsInv' /\ (Undisturbed' <=> Undisturbed) /\ BoundsInv
    BY BoundsKeep DEF CoordinatorInv, Undisturbed
  <1>2. ASSUME Undisturbed PROVE RotationsInv'
    <2>0. RotationsInv /\ Undisturbed /\ BoundsInv
      BY <1>2 DEF CoordinatorInv
    <2>1. CASE UNCHANGED vars
      BY <2>0, <2>1, BesideKeeps
    <2>2. CASE \E f \in Flows : FlowStep(f)
      <3>1. InitLoad \/ InitResume \/ RetryChecked
               \/ \E f \in Rotating : RotateAnswered(f)
        BY <2>0, <2>2, NoneElse DEF FlowStep
      <3> QED
        BY <2>0, <3>1, InitLoadKeeps, InitResumeKeeps, BesideKeeps, AnsweredKeeps
    <2>3. CASE (\E f \in Flows : ServeFlow(f)) \/ StoreSucceeds
      BY <2>0, <2>3, ServeKeeps, StoreSucceedsKeeps DEF ServeFlow
    <2>4. CASE FaultStep
      <3>1. \/ ServeFlow("nobody") \/ InitFails \/ StoreFails \/ Crash
            \/ \E f \in Flows : Timeout(f)
        BY <2>0, <2>4, NoneElse DEF FaultStep
      <3> QED
        BY <2>0, <3>1, ServeKeeps, InitFailsKeeps, StoreFailsKeeps, TimeoutKeeps,
           DownKeeps DEF ServeFlow, Crash
    <2>5. CASE HostStep
      <3>1. Start \/ Refresh \/ Retry \/ Dispose \/ Exit
        BY <2>0, <2>5, NoneElse DEF HostStep
      <3> QED
        BY <2>0, <3>1, StartKeeps, RefreshKeeps, BesideKeeps, DisposeKeeps,
           DownKeeps DEF Exit
    <2>6. CASE EnvironmentStep
      <3>1. BrowserRevokes \/ RefreshCredentialLapses
        BY <2>0, <2>6, NoneElse DEF EnvironmentStep
      <3> QED
        BY <2>0, <3>1, BesideKeeps
    <2> QED
      BY <2>1, <2>2, <2>3, <2>4, <2>5, <2>6 DEF Next
  <1> QED
    BY <1>1, <1>2 DEF CoordinatorInv

\* The invariant holds of every reachable state, however many transactions are
\* drawn, requests lost, writes failed and processes killed.
THEOREM CoordinatorInvariance == Spec => []CoordinatorInv
  BY InitCoordinator, NextCoordinator, PTL DEF Spec

\* No rotation request is ever one the server must take for a replay, so that
\* no fault of the network, the disk or the process costs the user the session
\* (rotate, initialize and the mutation queue).
THEOREM ReplaysNever == Spec => []NeverReplays
  <1>1. CoordinatorInv => NeverReplays
    <2> SUFFICES ASSUME CoordinatorInv, Undisturbed, NEW r \in wire,
                        r.gen + 1 \in Generations
                 PROVE  holder[r.gen + 1] \in {NoTxn, r.txn}
      BY DEF NeverReplays
    <2>1. PICK t \in Generations : InStepAt(t)
      BY DEF CoordinatorInv, RotationsInv
    <2>2. r.gen \in Nat /\ t \in Nat
      BY GenerationFacts DEF CoordinatorInv, RotationsInv, WireInv
    <2>3. CASE r.gen < t
      BY <2>1, <2>2, <2>3 DEF InStepAt
    <2>4. CASE r.gen = t
      BY <2>1, <2>2, <2>4 DEF InStepAt
    <2> QED
      BY <2>1, <2>3, <2>4 DEF InStepAt
  <1> QED
    BY <1>1, CoordinatorInvariance, PTL

\* At every moment the record on disk is enough to go on from after a kill: the
\* newest generation, or the one before with the transaction that the newest
\* was issued under (rotate saves the transaction before it sends it, and the
\* new record before it uses it).
THEOREM RecoverableAlways == Spec => []DiskRecoverable
  <1>1. CoordinatorInv => DiskRecoverable
    <2> SUFFICES ASSUME CoordinatorInv, Undisturbed
                 PROVE  \/ Server!IsTip(disk.gen)
                        \/ /\ disk.gen + 1 \in Generations
                           /\ Server!IsTip(disk.gen + 1)
                           /\ disk.pending = holder[disk.gen + 1]
      BY DEF DiskRecoverable
    <2>1. PICK t \in Generations : InStepAt(t)
      BY DEF CoordinatorInv, RotationsInv
    <2>2. Generations \subseteq Nat /\ Server!Gens = Generations
      BY GenerationFacts DEF Server!Gens, Generations
    <2>3. Server!IsTip(t)
      BY <2>1, <2>2 DEF InStepAt, Server!IsTip, Server!Issued
    <2> QED
      BY <2>1, <2>3 DEF InStepAt
  <1> QED
    BY <1>1, CoordinatorInvariance, PTL

\* A coordinator that is asked for nothing but rotations keeps its records in
\* step: the disk with the server, and at rest the memory with the disk.
THEOREM StepKept == Spec /\ Undisturbed => []RecordInStep
  <1>1. Undisturbed /\ BoundsInv /\ [Next]_vars => Undisturbed'
    BY BoundsKeep DEF Undisturbed
  <1>2. CoordinatorInv => BoundsInv
    BY DEF CoordinatorInv
  <1>3. CoordinatorInv /\ Undisturbed => AuthenticatedMatchesDisk
    BY DEF CoordinatorInv, RotationsInv, RotationInv, AuthenticatedMatchesDisk,
       Quiet, Blocked, Flows
  <1>4. Spec /\ Undisturbed => []Undisturbed
    BY <1>1, <1>2, CoordinatorInvariance, PTL DEF Spec
  <1>5. DiskRecoverable /\ AuthenticatedMatchesDisk => RecordInStep
    BY DEF RecordInStep
  <1> QED
    BY <1>3, <1>4, <1>5, CoordinatorInvariance, RecoverableAlways, PTL

-----------------------------------------------------------------------------
\* Logout, in every scenario.

AnyRecords == [gen : Nat, pending : Nat]
AnyFlows == [pc : Steps, stale : BOOLEAN, src : Nat, txn : Nat, tok : Nat,
             reply : Replies, out : {"none", "ok", "throw"}]
Writes == [by : Flows, op : {"save", "remove"}, value : AnyRecords]

\* What the coordinator's variables are made of.
ShapesInv ==
    /\ disk \in AnyRecords /\ credential \in AnyRecords
    /\ access \in Nat /\ minted \in Nat
    /\ flow \in [Flows -> AnyFlows]
    /\ queue \in Seq(Writes)

Confirmed == famStatus = "revoked" \/ refused = TRUE

\* A logout has succeeded or is about to, or a session is known to be dead.
Near ==
    \/ flow["logout"].reply = "logged_out"
    \/ flow["logout"].pc \in {"remove", "clear", "retryClear"}
    \/ flow["logout"].out = "ok"
    \/ \E f \in Flows : flow[f].reply \in RevokedCodes
    \/ \E f \in {"logout", "retry"} : flow[f].pc \in {"discRemove", "discClear"}
    \/ status = "revoked"

\* Then the server has answered for it.
AnsweredLogout == Near => Confirmed

LogoutInv == ShapesInv /\ AnsweredLogout

\* A step that does not bring a logout nearer to its success.
NotNearer == Near' => Near

\* A flow that has become e takes f no nearer.
Harmless(f, e) ==
    /\ f = "logout" /\ e.reply = "logged_out" => Near
    /\ f = "logout" /\ e.pc \in {"remove", "clear", "retryClear"} => Near
    /\ f = "logout" /\ e.out = "ok" => Near
    /\ e.reply \in RevokedCodes => Near
    /\ f \in {"logout", "retry"} /\ e.pc \in {"discRemove", "discClear"} => Near

NotRevoked == status' = "revoked" => Near

ShapesKept ==
    /\ credential' \in AnyRecords /\ access' \in Nat
    /\ flow' \in [Flows -> AnyFlows]
    /\ queue' \in Seq(Writes)

\* Records, flows and writes of the right shape.
LEMMA Shapes ==
  /\ NoGen \in Nat /\ NoCredential \in AnyRecords
  /\ Idle \in AnyFlows
  /\ \A p \in Steps : At(p) \in AnyFlows /\ At(p).pc = p /\ At(p).reply = "none"
                       /\ At(p).out = "none"
  /\ \A f \in Flows, o \in {"ok", "throw"} :
        Ended(f, o) \in AnyFlows /\ Ended(f, o).pc = "idle"
           /\ Ended(f, o).reply = "none" /\ Ended(f, o).out \in {"none", o}
           /\ (f # "logout" => Ended(f, o).out = "none")
  /\ \A f \in Flows : RemoveBy(f) \in Writes
  /\ \A f \in Flows, c \in AnyRecords : SaveBy(f, c) \in Writes
  <1>1. NoGen \in Nat /\ NoCredential \in AnyRecords
    BY GenerationFacts DEF NoGen, NoCredential, AnyRecords, NoTxn
  <1>2. Idle \in AnyFlows
    BY <1>1 DEF Idle, AnyFlows, Steps, Replies, NoTxn
  <1>3. \A p \in Steps : At(p) \in AnyFlows /\ At(p).pc = p /\ At(p).reply = "none"
                          /\ At(p).out = "none"
    BY <1>1 DEF At, Idle, AnyFlows, Replies, NoTxn
  <1>4. \A f \in Flows, o \in {"ok", "throw"} :
           Ended(f, o) \in AnyFlows /\ Ended(f, o).pc = "idle"
              /\ Ended(f, o).reply = "none" /\ Ended(f, o).out \in {"none", o}
              /\ (f # "logout" => Ended(f, o).out = "none")
    BY <1>1, <1>2 DEF Ended, Idle, AnyFlows, Steps, Replies, NoTxn
  <1>5. \A f \in Flows : RemoveBy(f) \in Writes
    BY <1>1 DEF RemoveBy, Writes
  <1>6. \A f \in Flows, c \in AnyRecords : SaveBy(f, c) \in Writes
    BY DEF SaveBy, Writes
  <1> QED
    BY <1>1, <1>2, <1>3, <1>4, <1>5, <1>6

\* A flow as it was is no nearer, and a step that makes none nearer is one.
LEMMA Nearness ==
  /\ \A g \in Flows : Harmless(g, flow[g])
  /\ (\A g \in Flows : Harmless(g, flow'[g])) /\ NotRevoked => NotNearer
  <1>1. "logout" \in Flows /\ "retry" \in Flows
    BY DEF Flows
  <1>2. \A g \in Flows : Harmless(g, flow[g])
    BY <1>1 DEF Harmless, Near
  <1>3. ASSUME \A g \in Flows : Harmless(g, flow'[g]), NotRevoked, Near'
        PROVE  Near
    <2>1. CASE flow'["logout"].reply = "logged_out" \/ flow'["logout"].out = "ok"
                 \/ flow'["logout"].pc \in {"remove", "clear", "retryClear"}
      BY <1>1, <1>3, <2>1 DEF Harmless
    <2>2. CASE \E f \in Flows : flow'[f].reply \in RevokedCodes
      BY <1>3, <2>2 DEF Harmless
    <2>3. CASE \E f \in {"logout", "retry"} : flow'[f].pc \in {"discRemove", "discClear"}
      BY <1>1, <1>3, <2>3 DEF Harmless
    <2>4. CASE status' = "revoked"
      BY <1>3, <2>4 DEF NotRevoked
    <2> QED
      BY <1>3, <2>1, <2>2, <2>3, <2>4 DEF Near
  <1> QED
    BY <1>2, <1>3 DEF NotNearer

\* A flow record that waits for nothing decisive.
LEMMA HarmlessStep ==
  ASSUME NEW f, NEW e, e.reply \in {"none", "network_error", "invalid_device_access"},
         e.pc \notin {"remove", "clear", "discRemove", "discClear"},
         f = "logout" => e.out # "ok" /\ e.pc # "retryClear"
  PROVE  Harmless(f, e)
  BY DEF Harmless, RevokedCodes

\* A step that ends, restarts or moves one flow, and takes it no nearer.
LEMMA OneFlowMoves ==
  ASSUME ShapesInv, NEW f \in Flows, NEW e \in AnyFlows, Harmless(f, e),
         flow' = [flow EXCEPT ![f] = e], NotRevoked
  PROVE  flow' \in [Flows -> AnyFlows] /\ NotNearer
  <1>1. /\ flow' \in [Flows -> AnyFlows]
        /\ \A g \in Flows : (flow'[g] = e /\ g = f) \/ flow'[g] = flow[g]
    BY DEF ShapesInv
  <1>2. \A g \in Flows : Harmless(g, flow'[g])
    BY <1>1, Nearness
  <1> QED
    BY <1>1, <1>2, Nearness

\* A flow that only goes on to another step has the shape of one.
LEMMA NextStepShape ==
  ASSUME ShapesInv, NEW f \in Flows,
         NEW p \in Steps \ {"remove", "clear", "retryClear", "discRemove", "discClear"}
  PROVE  LET e == [flow[f] EXCEPT !.pc = p]
         IN  e \in AnyFlows /\ Harmless(f, e)
  <1> DEFINE e == [flow[f] EXCEPT !.pc = p]
  <1>1. /\ e \in AnyFlows /\ e.pc = p /\ e.reply = flow[f].reply
        /\ e.out = flow[f].out
    BY DEF ShapesInv, AnyFlows
  <1> HIDE DEF e
  <1>2. Harmless(f, flow[f])
    BY Nearness
  <1>3. Harmless(f, e)
    BY <1>1, <1>2 DEF Harmless
  <1> QED
    BY <1>1, <1>3 DEF e

\* The answer of a rotation is taken.
LEMMA AnswerTaken ==
  ASSUME ShapesInv, NEW f \in Flows,
         flow' = [flow EXCEPT ![f] = [@ EXCEPT !.pc = "rotCommit",
                                                       !.reply = "none"]],
         UNCHANGED status
  PROVE  flow' \in [Flows -> AnyFlows] /\ NotNearer
  <1> DEFINE e == [flow[f] EXCEPT !.pc = "rotCommit", !.reply = "none"]
  <1>1. /\ e \in AnyFlows /\ e.pc = "rotCommit" /\ e.reply = "none"
        /\ e.out = flow[f].out
    BY DEF ShapesInv, AnyFlows, Steps, Replies
  <1>2. flow' = [flow EXCEPT ![f] = e]
    OBVIOUS
  <1> HIDE DEF e
  <1> QED
    <2>1. Harmless(f, e)
      BY <1>1, Nearness DEF Harmless, RevokedCodes
    <2>2. NotRevoked
      BY DEF NotRevoked, Near
    <2> QED
      BY <1>1, <1>2, <2>1, <2>2, OneFlowMoves

\* operationEpoch += 1
LEMMA StaleShapes ==
  ASSUME ShapesInv
  PROVE  /\ StaleAll(flow) \in [Flows -> AnyFlows]
         /\ \A f \in Flows : Harmless(f, StaleAll(flow)[f])
  <1>1. /\ StaleAll(flow) \in [Flows -> AnyFlows]
        /\ \A f \in Flows : /\ StaleAll(flow)[f].pc = flow[f].pc
                            /\ StaleAll(flow)[f].reply = flow[f].reply
                            /\ StaleAll(flow)[f].out = flow[f].out
    BY DEF ShapesInv, StaleAll, AnyFlows
  <1>2. \A f \in Flows : Harmless(f, StaleAll(flow)[f])
    BY <1>1, Nearness DEF Harmless
  <1> QED
    BY <1>1, <1>2

\* discardLocalSession begins.
LEMMA DiscardShapes ==
  ASSUME ShapesInv, NEW f \in Flows, NEW c \in AnyRecords, NEW s,
         NEW q \in Seq(Writes), BeginDiscard(f, c, s, flow, q),
         f \in {"logout", "retry"} \/ s = "revoked" => Near
  PROVE  ShapesKept /\ NotNearer
  <1>1. /\ credential' = c /\ access' = NoGen
        /\ flow' = [StaleAll(flow) EXCEPT ![f] = At("discRemove")]
        /\ queue' = Append(q, RemoveBy(f))
    BY DEF BeginDiscard, Memory
  <1>2. /\ At("discRemove") \in AnyFlows /\ At("discRemove").pc = "discRemove"
        /\ At("discRemove").reply = "none" /\ RemoveBy(f) \in Writes /\ NoGen \in Nat
    BY Shapes DEF Steps
  <1>3. /\ flow' \in [Flows -> AnyFlows]
        /\ \A g \in Flows : (flow'[g] = At("discRemove") /\ g = f)
                                \/ flow'[g] = StaleAll(flow)[g]
    BY <1>1, <1>2, StaleShapes
  <1>4. Harmless(f, At("discRemove"))
    BY <1>2 DEF Harmless, RevokedCodes
  <1>5. \A g \in Flows : Harmless(g, flow'[g])
    BY <1>3, <1>4, StaleShapes
  <1>6. NotRevoked
    BY DEF BeginDiscard, Memory, NotRevoked
  <1> QED
    BY <1>1, <1>2, <1>3, <1>5, <1>6, Nearness DEF ShapesKept

\* An error thrown inside a flow.
LEMMA ThrowShapes ==
  ASSUME ShapesInv, NEW f \in Flows, NEW class, NEW c \in AnyRecords, NEW a \in Nat,
         NEW s, NEW q \in Seq(Writes), Throw(f, class, c, a, s, flow, q),
         s = "revoked" \/ class = "revoked" => Near
  PROVE  ShapesKept /\ NotNearer
  <1>1. CASE BeginDiscard(f, c, s, flow, q) /\ (s = "revoked" \/ class = "revoked")
    BY <1>1, DiscardShapes
  <1>2. CASE /\ credential' = c /\ access' = a /\ status' \in {s, "lockedPR"}
             /\ flow' = [flow EXCEPT ![f] = Ended(f, "throw")] /\ queue' = q
    <2>1. /\ Ended(f, "throw") \in AnyFlows /\ Ended(f, "throw").pc = "idle"
          /\ Ended(f, "throw").reply = "none" /\ Ended(f, "throw").out # "ok"
      BY Shapes
    <2>2. Harmless(f, Ended(f, "throw")) /\ NotRevoked
      BY <1>2, <2>1, HarmlessStep DEF NotRevoked
    <2>3. flow' \in [Flows -> AnyFlows] /\ NotNearer
      BY <1>2, <2>1, <2>2, OneFlowMoves
    <2> QED
      BY <1>2, <2>3 DEF ShapesKept
  <1> QED
    BY <1>1, <1>2 DEF Throw, Memory

\* rotate() begins.
LEMMA RotateShapes ==
  ASSUME ShapesInv, NEW f \in Flows, NEW recovery, BeginRotate(f, recovery)
  PROVE  ShapesKept /\ NotNearer /\ minted' \in Nat
  <1>1. /\ credential \in AnyRecords /\ credential.gen \in Nat
        /\ credential.pending \in Nat /\ minted \in Nat /\ access \in Nat
        /\ queue \in Seq(Writes) /\ flow \in [Flows -> AnyFlows]
    BY DEF ShapesInv, AnyRecords
  <1>2. PICK p \in {"rotSave", "rotWait"}, x \in Nat :
           /\ flow' = RotationFrom(f, p, x) /\ minted' \in Nat
           /\ UNCHANGED <<credential, access>>
           /\ \/ queue' = queue
              \/ queue' = Append(queue, SaveBy(f, [credential EXCEPT !.pending = x]))
    <2>1. CASE recovery
      <3>1. /\ flow' = RotationFrom(f, "rotWait", credential.pending)
            /\ minted' = minted /\ queue' = queue
            /\ UNCHANGED <<credential, access>>
        BY <2>1 DEF BeginRotate
      <3> QED
        BY <1>1, <3>1
    <2>2. CASE ~recovery
      <3>1. /\ flow' = RotationFrom(f, "rotSave", minted')
            /\ minted' = minted + 1 /\ UNCHANGED <<credential, access>>
            /\ queue' = Append(queue,
                          SaveBy(f, [credential EXCEPT !.pending = minted']))
        BY <2>2 DEF BeginRotate, memoryVars
      <3>2. minted' \in Nat
        BY <1>1, <3>1
      <3> QED
        BY <3>1, <3>2
    <2> QED
      BY <2>1, <2>2
  <1>3. [credential EXCEPT !.pending = x] \in AnyRecords
    BY <1>1 DEF AnyRecords
  <1>4. queue' \in Seq(Writes)
    <2>1. SaveBy(f, [credential EXCEPT !.pending = x]) \in Writes
      BY <1>3, Shapes
    <2> DEFINE w == SaveBy(f, [credential EXCEPT !.pending = x])
    <2>2. w \in Writes /\ (queue' = queue \/ queue' = Append(queue, w))
      BY <1>2, <2>1
    <2> HIDE DEF w
    <2> QED
      BY <1>1, <2>2
  <1> DEFINE e == [flow[f] EXCEPT !.pc = p, !.stale = FALSE,
                                  !.src = credential.gen, !.txn = x,
                                  !.reply = "none"]
  <1>5. /\ e \in AnyFlows /\ e.pc = p /\ e.reply = "none"
        /\ e.out = flow[f].out
    <2>1. flow[f] \in AnyFlows /\ p \in Steps
      BY <1>1 DEF Steps
    <2>2. e.pc = p /\ e.reply = "none" /\ e.out = flow[f].out
      BY <2>1 DEF AnyFlows
    <2>3. e \in AnyFlows
      BY <1>1, <2>1 DEF AnyFlows, Replies
    <2> QED
      BY <2>2, <2>3
  <1>6. flow' = [flow EXCEPT ![f] = e]
    BY <1>2 DEF RotationFrom
  <1> HIDE DEF e
  <1>7. Harmless(f, e)
    BY <1>5, Nearness DEF Harmless, RevokedCodes
  <1>8. NotRevoked
    BY DEF BeginRotate, NotRevoked, Near, memoryVars
  <1>9. flow' \in [Flows -> AnyFlows] /\ NotNearer
    BY <1>5, <1>6, <1>7, <1>8, OneFlowMoves
  <1> QED
    BY <1>1, <1>2, <1>4, <1>9 DEF ShapesKept

\* A logout begins.
LEMMA LogoutShapes ==
  ASSUME ShapesInv, NEW a \in Nat
  PROVE  /\ LogoutFrom(flow, a) \in [Flows -> AnyFlows]
         /\ \A g \in Flows : Harmless(g, LogoutFrom(flow, a)[g])
  <1> DEFINE e == [Idle EXCEPT !.pc = "mark", !.tok = a]
  <1>1. e \in AnyFlows /\ e.pc = "mark" /\ e.reply = "none" /\ e.out = "none"
    <2>1. NoGen \in Nat /\ NoTxn \in Nat
      BY Shapes DEF NoTxn
    <2> QED
      BY <2>1 DEF Idle, AnyFlows, Steps, Replies
  <1>2. LogoutFrom(flow, a) = [StaleAll(flow) EXCEPT !["logout"] = e]
    BY DEF LogoutFrom
  <1> HIDE DEF e
  <1>3. /\ LogoutFrom(flow, a) \in [Flows -> AnyFlows]
        /\ \A g \in Flows : LogoutFrom(flow, a)[g] \in {e, StaleAll(flow)[g]}
    BY <1>1, <1>2, StaleShapes DEF Flows
  <1>4. \A g \in Flows : Harmless(g, e)
    BY <1>1, HarmlessStep
  <1> QED
    BY <1>3, <1>4, StaleShapes

\* rotate() returned.
LEMMA ReturnedShapes ==
  ASSUME ShapesInv, NEW f \in Flows, NEW c \in AnyRecords, NEW q \in Seq(Writes),
         Returned(f, c, q)
  PROVE  ShapesKept /\ NotNearer
  <1>1. /\ c.gen \in Nat /\ NoGen \in Nat
        /\ queue' = q /\ credential' = c /\ access' \in {c.gen, NoGen}
    BY Shapes DEF Returned, Memory, AnyRecords
  <1>2. PICK e \in AnyFlows :
           /\ e.pc \in {"idle", "logoutWait", "retryWait"} /\ e.reply = "none"
           /\ (f = "logout" => e.out # "ok")
           /\ \/ flow' = [flow EXCEPT ![f] = e]
              \/ f = "retry" /\ flow' = [LogoutFrom(flow, c.gen) EXCEPT ![f] = e]
    BY Shapes DEF Returned, Steps
  <1>3. Harmless(f, e) /\ NotRevoked
    BY <1>2, HarmlessStep DEF Returned, Memory, NotRevoked
  <1>4. flow' \in [Flows -> AnyFlows] /\ NotNearer
    <2>1. CASE flow' = [flow EXCEPT ![f] = e]
      BY <1>2, <1>3, <2>1, OneFlowMoves
    <2>2. CASE flow' = [LogoutFrom(flow, c.gen) EXCEPT ![f] = e]
      <3>1. /\ flow' \in [Flows -> AnyFlows]
            /\ \A g \in Flows : (flow'[g] = e /\ g = f)
                                    \/ flow'[g] = LogoutFrom(flow, c.gen)[g]
        BY <1>1, <1>2, <2>2, LogoutShapes
      <3>2. \A g \in Flows : Harmless(g, flow'[g])
        BY <1>1, <1>3, <3>1, LogoutShapes
      <3> QED
        BY <1>3, <3>1, <3>2, Nearness
    <2> QED
      BY <1>2, <2>1, <2>2
  <1> QED
    BY <1>1, <1>4 DEF ShapesKept

\* Such a step keeps the invariant.
LEMMA NotNearerKeeps ==
  ASSUME LogoutInv, ShapesKept, NotNearer, disk' \in AnyRecords, minted' \in Nat,
         Confirmed => Confirmed'
  PROVE  LogoutInv'
  BY DEF LogoutInv, ShapesInv, AnsweredLogout, ShapesKept, NotNearer

\* initialize().
LEMMA InitLogout ==
  ASSUME LogoutInv, InitLoad \/ InitResume \/ InitFails
  PROVE  LogoutInv'
  <1>1. /\ ShapesInv /\ (Confirmed => Confirmed') /\ UNCHANGED disk /\ "init" \in Flows
        /\ disk \in AnyRecords /\ credential \in AnyRecords /\ minted \in Nat
        /\ access \in Nat /\ queue \in Seq(Writes) /\ NoGen \in Nat
        /\ flow \in [Flows -> AnyFlows]
    BY Shapes DEF LogoutInv, ShapesInv, Confirmed, InitLoad, InitResume, InitFails, serverVars,
       fileVars, Flows
  <1>2. CASE InitResume /\ BeginRotate("init", TRUE)
    BY <1>1, <1>2, RotateShapes, NotNearerKeeps
  <1>3. CASE InitLoad /\ flow' = [flow EXCEPT !["init"].pc = "cleanup"]
    <2>1. flow' \in [Flows -> AnyFlows] /\ NotNearer
      <3> DEFINE e == [flow["init"] EXCEPT !.pc = "cleanup"]
      <3>1. flow' = [flow EXCEPT !["init"] = e]
        BY <1>3
      <3>2. e \in AnyFlows /\ Harmless("init", e)
        BY <1>1, NextStepShape DEF Steps
      <3>3. NotRevoked
        BY <1>3 DEF InitLoad, NotRevoked, Near
      <3> HIDE DEF e
      <3> QED
        BY <1>1, <3>1, <3>2, <3>3, OneFlowMoves
    <2> QED
      BY <1>1, <1>3, <2>1, NotNearerKeeps DEF InitLoad, boundVars, ShapesKept
  <1>4. CASE /\ flow' = [flow EXCEPT !["init"] = Ended("init", "ok")]
             /\ credential' \in {credential, disk} /\ access' \in {access, NoGen}
             /\ queue' = queue /\ minted' = minted
             /\ status' \in {"lockedPR", "unauthenticated", "authenticated", "locked"}
    <2>1. credential' \in AnyRecords /\ access' \in Nat
      BY <1>1, <1>4
    <2>2. Harmless("init", Ended("init", "ok")) /\ NotRevoked
      BY <1>1, <1>4, Shapes, HarmlessStep DEF NotRevoked
    <2>3. flow' \in [Flows -> AnyFlows] /\ NotNearer
      BY <1>1, <1>4, <2>2, Shapes, OneFlowMoves
    <2> QED
      BY <1>1, <1>4, <2>1, <2>3, NotNearerKeeps DEF ShapesKept
  <1>5. CASE InitLoad
    BY <1>3, <1>4, <1>5 DEF InitLoad, boundVars
  <1>6. CASE InitResume
    BY <1>2, <1>4, <1>6 DEF InitResume
  <1>7. CASE InitFails
    BY <1>4, <1>7 DEF InitFails, Memory
  <1> QED
    BY <1>5, <1>6, <1>7

\* client.refresh() settled.
LEMMA AnsweredLogoutKeeps ==
  ASSUME LogoutInv, NEW f \in Flows, RotateAnswered(f)
  PROVE  LogoutInv'
  <1>1. /\ ShapesInv /\ (Confirmed => Confirmed') /\ UNCHANGED <<disk, minted>> /\ NoGen \in Nat
        /\ disk \in AnyRecords /\ credential \in AnyRecords /\ minted \in Nat
        /\ access \in Nat /\ queue \in Seq(Writes) /\ flow \in [Flows -> AnyFlows]
    BY Shapes DEF LogoutInv, ShapesInv, Confirmed, RotateAnswered, serverVars, fileVars,
       boundVars
  <1>2. CASE /\ flow' = [flow EXCEPT ![f] = [@ EXCEPT !.pc = "rotCommit",
                                                       !.reply = "none"]]
             /\ queue' = Append(queue,
                    SaveBy(f, [gen |-> flow[f].src + 1, pending |-> NoTxn]))
             /\ UNCHANGED memoryVars
    <2>1. flow' \in [Flows -> AnyFlows] /\ NotNearer
      BY <1>1, <1>2, AnswerTaken DEF memoryVars
    <2>2. [gen |-> flow[f].src + 1, pending |-> NoTxn] \in AnyRecords
      BY <1>1 DEF AnyFlows, AnyRecords, NoTxn
    <2>3. queue' \in Seq(Writes)
      BY <1>1, <1>2, <2>2, Shapes
    <2> QED
      BY <1>1, <1>2, <2>1, <2>3, NotNearerKeeps DEF memoryVars, ShapesKept
  <1>3. ASSUME NEW c, NEW s, Throw(f, c, credential, NoGen, s, flow, queue),
               c = "revoked" \/ s = "revoked" => Near
        PROVE  LogoutInv'
    BY <1>1, <1>3, ThrowShapes, NotNearerKeeps
  <1>4. CASE flow[f].reply = "issued"
    <2>1. CASE Throw(f, "stale", credential, NoGen, status, flow, queue)
      BY <1>3, <2>1 DEF Near
    <2> QED
      BY <1>2, <1>4, <2>1 DEF RotateAnswered, RevokedCodes
  <1>5. CASE flow[f].reply \in RevokedCodes
    <2>1. Near
      BY <1>5 DEF Near
    <2>2. Throw(f, "revoked", credential, NoGen, "revoked", flow, queue)
      BY <1>5 DEF RotateAnswered, RevokedCodes
    <2> QED
      BY <1>3, <2>1, <2>2
  <1>6. CASE flow[f].reply \notin RevokedCodes \cup {"issued"}
    <2>1. Throw(f, "transient", credential, NoGen,
                IF status = "lockedPR" THEN status ELSE "locked", flow, queue)
      BY <1>6 DEF RotateAnswered
    <2> QED
      BY <1>3, <2>1
  <1> QED
    BY <1>4, <1>5, <1>6

\* The head of the queue is written, or fails to be.
LEMMA StoreLogout ==
  ASSUME LogoutInv, StoreSucceeds \/ StoreFails
  PROVE  LogoutInv'
  <1> DEFINE f == Head(queue).by
             v == Head(queue).value
             rest == Tail(queue)
  <1>1. /\ ShapesInv /\ (Confirmed => Confirmed') /\ UNCHANGED minted /\ NoGen \in Nat
        /\ disk \in AnyRecords /\ credential \in AnyRecords /\ minted \in Nat
        /\ access \in Nat /\ queue \in Seq(Writes) /\ flow \in [Flows -> AnyFlows]
        /\ queue # <<>>
    BY Shapes DEF LogoutInv, ShapesInv, Confirmed, StoreSucceeds, StoreFails, serverVars,
       boundVars
  <1>2. f \in Flows /\ v \in AnyRecords /\ rest \in Seq(Writes)
    <2>1. Head(queue) \in Writes /\ Tail(queue) \in Seq(Writes)
      BY <1>1
    <2> QED
      BY <2>1 DEF Writes
  <1>3. disk' \in AnyRecords
    BY <1>1, <1>2 DEF StoreSucceeds, StoreFails
  <1>4. ShapesKept /\ NotNearer
    <2>1. CASE RotateSend(f)
      <3>1. /\ credential' = v /\ access' = access /\ queue' = rest
            /\ flow' = [flow EXCEPT ![f].pc = "rotWait"]
        BY <2>1 DEF RotateSend, Memory
      <3>2. flow' \in [Flows -> AnyFlows] /\ NotNearer
        <4> DEFINE e == [flow[f] EXCEPT !.pc = "rotWait"]
        <4>1. flow' = [flow EXCEPT ![f] = e]
          BY <3>1
        <4>2. e \in AnyFlows /\ Harmless(f, e)
          BY <1>1, <1>2, NextStepShape DEF Steps
        <4>3. NotRevoked
          BY <2>1 DEF RotateSend, Memory, NotRevoked
        <4> HIDE DEF e, f
        <4> QED
          BY <1>1, <1>2, <4>1, <4>2, <4>3, OneFlowMoves
      <3> QED
        BY <1>1, <1>2, <3>1, <3>2 DEF ShapesKept
    <2>2. CASE RotateCommit(f)
      <3>1. status = "revoked" => Near
        BY DEF Near
      <3>2. CASE Throw(f, "stale", credential, NoGen, status, flow, rest)
        <4> HIDE DEF f, v, rest
        <4>1. status = "revoked" \/ "stale" = "revoked" => Near
          BY <3>1
        <4> QED
          BY <1>1, <1>2, <3>2, <4>1, ThrowShapes
      <3>3. CASE Returned(f, v, rest)
        BY <1>1, <1>2, <3>3, ReturnedShapes
      <3> QED
        BY <2>2, <3>2, <3>3 DEF RotateCommit
    <2>3. ASSUME NEW e \in AnyFlows, e.reply = "none",
                 f = "logout" => e.out # "ok" /\ e.pc # "retryClear",
                 \/ e.pc \notin {"remove", "clear", "discRemove", "discClear"}
                 \/ e.pc = "clear" /\ flow[f].pc = "remove"
                 \/ e.pc = "discClear" /\ flow[f].pc = "discRemove",
                 flow' = [flow EXCEPT ![f] = e], queue' = rest,
                 credential' \in {credential, NoCredential}, access' = access,
                 status' \in {status, "locked"}
          PROVE  ShapesKept /\ NotNearer
      <3>1. Harmless(f, e)
        BY <1>2, <2>3 DEF Harmless, RevokedCodes, Near
      <3>2. NotRevoked
        BY <2>3 DEF NotRevoked, Near
      <3>3. flow' \in [Flows -> AnyFlows] /\ NotNearer
        BY <1>1, <1>2, <2>3, <3>1, <3>2, OneFlowMoves
      <3> QED
        BY <1>1, <1>2, <2>3, <3>3, Shapes DEF ShapesKept
    <2>4. CASE StoreSucceeds /\ ~RotateSend(f) /\ ~RotateCommit(f)
      <3>1. PICK e \in AnyFlows :
               /\ e.reply = "none" /\ flow' = [flow EXCEPT ![f] = e]
               /\ (f = "logout" => e.out # "ok" /\ e.pc # "retryClear")
               /\ \/ e.pc \notin {"remove", "clear", "discRemove", "discClear"}
                  \/ e.pc = "clear" /\ flow[f].pc = "remove"
                  \/ e.pc = "discClear" /\ flow[f].pc = "discRemove"
        <4>1. /\ \A p \in {"clear", "discClear"} :
                    /\ At(p) \in AnyFlows /\ At(p).pc = p /\ At(p).reply = "none"
                    /\ At(p).out = "none"
              /\ Ended(f, "throw") \in AnyFlows /\ Ended(f, "throw").pc = "idle"
              /\ Ended(f, "throw").reply = "none" /\ Ended(f, "throw").out # "ok"
          BY <1>2, Shapes DEF Steps
        <4>2. CASE flow' = [flow EXCEPT ![f] = Ended(f, "throw")]
          BY <4>1, <4>2
        <4>3. CASE flow[f].pc = "remove" /\ flow' = [flow EXCEPT ![f] = At("clear")]
          BY <4>1, <4>3
        <4>4. CASE flow[f].pc = "discRemove" /\ flow' = [flow EXCEPT ![f] = At("discClear")]
          BY <4>1, <4>4
        <4> QED
          BY <2>4, <4>2, <4>3, <4>4 DEF StoreSucceeds
      <3>2. /\ queue' = rest /\ credential' \in {credential, NoCredential}
            /\ access' = access /\ status' \in {status, "locked"}
        BY <2>4 DEF StoreSucceeds, Memory, memoryVars
      <3> QED
        BY <2>3, <3>1, <3>2
    <2>5. CASE StoreFails
      <3>1. CASE Memory(credential, access, "locked")
                 /\ flow' = [flow EXCEPT ![f] = Ended(f, "throw")] /\ queue' = rest
        <4>1. /\ Ended(f, "throw") \in AnyFlows /\ Ended(f, "throw").pc = "idle"
              /\ Ended(f, "throw").reply = "none" /\ Ended(f, "throw").out # "ok"
          BY <1>2, Shapes
        <4> QED
          BY <2>3, <3>1, <4>1 DEF Memory
      <3>2. status = "revoked" => Near
        BY DEF Near
      <3>3. CASE Throw(f, "transient", credential, NoGen, "locked", flow, rest)
        <4> HIDE DEF f, v, rest
        <4>1. "locked" = "revoked" \/ "transient" = "revoked" => Near
          OBVIOUS
        <4> QED
          BY <1>1, <1>2, <3>3, <4>1, ThrowShapes
      <3>4. CASE Throw(f, "transient", credential, access, status, flow, rest)
        <4> HIDE DEF f, v, rest
        <4>1. status = "revoked" \/ "transient" = "revoked" => Near
          BY <3>2
        <4> QED
          BY <1>1, <1>2, <3>4, <4>1, ThrowShapes
      <3> QED
        BY <2>5, <3>1, <3>3, <3>4 DEF StoreFails
    <2> QED
      BY <2>1, <2>2, <2>4, <2>5
  <1> QED
    BY <1>1, <1>3, <1>4, NotNearerKeeps

\* The steps of logout().
LEMMA LogoutSteps ==
  ASSUME LogoutInv, LogoutMarked \/ LogoutSend \/ LogoutAnswered \/ LogoutMarkFails
                       \/ Logout
  PROVE  LogoutInv'
  <1>1. /\ ShapesInv /\ (Confirmed => Confirmed') /\ UNCHANGED disk /\ "logout" \in Flows
        /\ disk \in AnyRecords /\ credential \in AnyRecords /\ minted \in Nat
        /\ access \in Nat /\ queue \in Seq(Writes) /\ NoGen \in Nat
        /\ flow \in [Flows -> AnyFlows]
    BY Shapes DEF LogoutInv, ShapesInv, Confirmed, LogoutMarked, LogoutSend, LogoutAnswered,
       LogoutMarkFails, Logout, serverVars, fileVars, Flows
  <1>2. CASE LogoutMarked
    <2> DEFINE e == [flow["logout"] EXCEPT !.pc = "marked"]
    <2>1. flow' = [flow EXCEPT !["logout"] = e]
      BY <1>2 DEF LogoutMarked
    <2>2. /\ e \in AnyFlows /\ Harmless("logout", e)
      BY <1>1, NextStepShape DEF Steps
    <2> HIDE DEF e
    <2>4. NotRevoked
      BY <1>2 DEF LogoutMarked, memoryVars, NotRevoked, Near
    <2>3. flow' \in [Flows -> AnyFlows] /\ NotNearer
      BY <1>1, <2>1, <2>2, <2>4, OneFlowMoves
    <2> QED
      BY <1>1, <1>2, <2>3, NotNearerKeeps DEF LogoutMarked, memoryVars, boundVars,
         ShapesKept
  <1>3. CASE LogoutSend
    <2>1. CASE BeginRotate("logout", credential.pending # NoTxn)
      BY <1>1, <2>1, RotateShapes, NotNearerKeeps
    <2>2. CASE Throw("logout", "transient", credential, access, status, flow, queue)
               /\ UNCHANGED minted
      <3>1. status = "revoked" => Near
        BY DEF Near
      <3> QED
        BY <1>1, <2>2, <3>1, ThrowShapes, NotNearerKeeps
    <2>3. CASE /\ flow' = [flow EXCEPT !["logout"] = At("logoutWait")]
               /\ UNCHANGED <<memoryVars, queue, minted>>
      <3>2. Harmless("logout", At("logoutWait")) /\ NotRevoked
        BY <2>3, Shapes, HarmlessStep DEF Steps, NotRevoked, memoryVars, Near
      <3>1. flow' \in [Flows -> AnyFlows] /\ NotNearer
        BY <1>1, <2>3, <3>2, Shapes, OneFlowMoves DEF Steps
      <3> QED
        BY <1>1, <2>3, <3>1, NotNearerKeeps DEF memoryVars, ShapesKept
    <2> QED
      BY <1>3, <2>1, <2>2, <2>3 DEF LogoutSend
  <1>4. CASE LogoutAnswered
    <2>1. UNCHANGED minted
      BY <1>4 DEF LogoutAnswered, boundVars
    <2>2. CASE flow["logout"].reply = "logged_out"
      <3>1. /\ flow' = [flow EXCEPT !["logout"] = At("remove")]
            /\ queue' = Append(queue, RemoveBy("logout"))
            /\ UNCHANGED <<credential, access>>
        BY <1>4, <2>2 DEF LogoutAnswered, memoryVars
      <3>2. Confirmed /\ Near
        BY <2>2 DEF LogoutInv, AnsweredLogout, Near
      <3>3. flow' \in [Flows -> AnyFlows] /\ queue' \in Seq(Writes)
        BY <1>1, <3>1, Shapes DEF Steps
      <3> QED
        BY <1>1, <2>1, <3>1, <3>2, <3>3 DEF LogoutInv, ShapesInv, AnsweredLogout
    <2>3. CASE flow["logout"].reply # "logged_out"
      <3>1. PICK c \in {"revoked", "transient"} :
               Throw("logout", c, credential, access, status, flow, queue)
               /\ (c = "revoked" => flow["logout"].reply \in RevokedCodes)
        BY <1>4, <2>3 DEF LogoutAnswered
      <3>2. status = "revoked" \/ c = "revoked" => Near
        BY <1>1, <3>1 DEF Near
      <3> QED
        BY <1>1, <2>1, <3>1, <3>2, ThrowShapes, NotNearerKeeps
    <2> QED
      BY <2>2, <2>3
  <1>5. CASE LogoutMarkFails
    <2>1. /\ flow' = [flow EXCEPT !["logout"] = At("failRemove")]
          /\ queue' = Append(queue, RemoveBy("logout"))
          /\ UNCHANGED <<credential, access, minted>>
      BY <1>5 DEF LogoutMarkFails, memoryVars
    <2>4. Harmless("logout", At("failRemove")) /\ NotRevoked
      BY <1>5, Shapes, HarmlessStep
         DEF Steps, NotRevoked, LogoutMarkFails, memoryVars, Near
    <2>2. flow' \in [Flows -> AnyFlows] /\ NotNearer
      BY <1>1, <2>1, <2>4, Shapes, OneFlowMoves DEF Steps
    <2>3. queue' \in Seq(Writes)
      BY <1>1, <2>1, Shapes
    <2> QED
      BY <1>1, <2>1, <2>2, <2>3, NotNearerKeeps DEF ShapesKept
  <1>6. CASE Logout
    <2>1. /\ flow' = LogoutFrom(flow, access) /\ credential' = credential
          /\ access' = NoGen /\ UNCHANGED <<queue, minted>>
      BY <1>6 DEF Logout, Memory, boundVars
    <2>3. NotRevoked
      BY <1>6 DEF Logout, Memory, NotRevoked
    <2>2. flow' \in [Flows -> AnyFlows] /\ NotNearer
      BY <1>1, <2>1, <2>3, LogoutShapes, Nearness
    <2> QED
      BY <1>1, <2>1, <2>2, NotNearerKeeps DEF ShapesKept
  <1> QED
    BY <1>2, <1>3, <1>4, <1>5, <1>6

\* The last write of a logout, of a discard or of a retry.
LEMMA ClearSteps ==
  ASSUME LogoutInv, NEW f \in Flows, MarkerCleared(f) \/ MarkerClearFails(f)
  PROVE  LogoutInv'
  <1>1. /\ ShapesInv /\ (Confirmed => Confirmed') /\ UNCHANGED <<disk, minted>>
        /\ disk \in AnyRecords /\ credential \in AnyRecords /\ minted \in Nat
        /\ access \in Nat /\ queue \in Seq(Writes) /\ NoCredential \in AnyRecords
    BY Shapes DEF LogoutInv, ShapesInv, Confirmed, MarkerCleared, MarkerClearFails, serverVars,
       boundVars
  <1>2. CASE Throw(f, "transient", credential, access, status, flow, queue)
    <2>1. status = "revoked" => Near
      BY DEF Near
    <2> QED
      BY <1>1, <1>2, <2>1, ThrowShapes, NotNearerKeeps
  <1>3. ASSUME NEW o \in {"ok", "throw"}, flow' = [flow EXCEPT ![f] = Ended(f, o)],
               credential' \in {credential, NoCredential}, access' = access,
               queue' = queue, status' \in {status, "locked", "unauthenticated"},
               f = "logout" /\ o = "ok" => Near
        PROVE  LogoutInv'
    <2>2. Harmless(f, Ended(f, o)) /\ NotRevoked
      BY <1>3, Shapes DEF Harmless, RevokedCodes, NotRevoked, Near
    <2>1. flow' \in [Flows -> AnyFlows] /\ NotNearer
      BY <1>1, <1>3, <2>2, Shapes, OneFlowMoves
    <2> QED
      BY <1>1, <1>3, <2>1, NotNearerKeeps DEF ShapesKept
  <1>4. CASE MarkerCleared(f)
    <2>1. f = "logout" => Near
      BY <1>4 DEF MarkerCleared, Near
    <2> QED
      BY <1>3, <1>4, <2>1 DEF MarkerCleared, Memory
  <1>5. CASE MarkerClearFails(f)
    BY <1>2, <1>3, <1>5 DEF MarkerClearFails, Memory, memoryVars
  <1> QED
    BY <1>4, <1>5

\* What the host, the user and the network loop begin, and a retry goes on to.
LEMMA HostLogout ==
  ASSUME LogoutInv, Refresh \/ Retry \/ RetryChecked \/ RetryJoined \/ Probe
                       \/ ProbeAnswered \/ StreamBreaks
  PROVE  LogoutInv'
  <1>1. /\ ShapesInv /\ (Confirmed => Confirmed') /\ UNCHANGED disk
        /\ disk \in AnyRecords /\ credential \in AnyRecords /\ minted \in Nat
        /\ access \in Nat /\ queue \in Seq(Writes) /\ NoGen \in Nat
        /\ {"refresh", "retry", "discard", "logout"} \subseteq Flows
    BY Shapes DEF LogoutInv, ShapesInv, Confirmed, Refresh, Retry, RetryChecked, RetryJoined,
       Probe, ProbeAnswered, StreamBreaks, serverVars, fileVars, Flows
  <1>2. ASSUME NEW f \in Flows, NEW recovery, BeginRotate(f, recovery)
        PROVE  LogoutInv'
    BY <1>1, <1>2, RotateShapes, NotNearerKeeps
  <1>3. ASSUME NEW f \in Flows, NEW e \in AnyFlows,
               e.pc \notin {"remove", "clear", "discRemove", "discClear"},
               e.reply = "none", f = "logout" => e.out # "ok" /\ e.pc # "retryClear",
               flow' = [flow EXCEPT ![f] = e],
               UNCHANGED <<memoryVars, queue, minted>>
        PROVE  LogoutInv'
    <2>2. Harmless(f, e) /\ NotRevoked
      BY <1>3, HarmlessStep DEF NotRevoked, memoryVars, Near
    <2>1. flow' \in [Flows -> AnyFlows] /\ NotNearer
      BY <1>1, <1>3, <2>2, OneFlowMoves
    <2> QED
      BY <1>1, <1>3, <2>1, NotNearerKeeps DEF memoryVars, ShapesKept
  <1>4. CASE Refresh
    BY <1>1, <1>2, <1>4 DEF Refresh
  <1>5. CASE Retry \/ Probe
    BY <1>1, <1>3, <1>5, Shapes DEF Retry, Probe, boundVars, Steps
  <1>6. CASE RetryChecked
    <2>1. CASE BeginRotate("retry", credential.pending # NoTxn)
      BY <1>1, <1>2, <2>1
    <2>2. CASE /\ Memory(credential, NoGen, "lockedPR")
               /\ flow' = [LogoutFrom(flow, access) EXCEPT !["retry"] = At("retryWait")]
               /\ UNCHANGED <<queue, minted>>
      <3>2. Harmless("retry", At("retryWait")) /\ NotRevoked
        BY <2>2, Shapes, HarmlessStep DEF Steps, NotRevoked, Memory
      <3>3. /\ flow' \in [Flows -> AnyFlows]
            /\ \A g \in Flows : (flow'[g] = At("retryWait") /\ g = "retry")
                                    \/ flow'[g] = LogoutFrom(flow, access)[g]
        BY <1>1, <2>2, LogoutShapes, Shapes DEF Steps
      <3>4. \A g \in Flows : Harmless(g, flow'[g])
        BY <1>1, <3>2, <3>3, LogoutShapes
      <3>1. flow' \in [Flows -> AnyFlows] /\ NotNearer
        BY <3>2, <3>3, <3>4, Nearness
      <3> QED
        BY <1>1, <2>2, <3>1, NotNearerKeeps DEF Memory, ShapesKept
    <2>3. ASSUME NEW e \in {At("retryClear"), At("retryWait"), Ended("retry", "throw")},
                 flow' = [flow EXCEPT !["retry"] = e],
                 UNCHANGED <<memoryVars, queue, minted>>
          PROVE  LogoutInv'
      <3>1. /\ e \in AnyFlows /\ e.reply = "none"
            /\ e.pc \notin {"remove", "clear", "discRemove", "discClear"}
        BY <1>1, Shapes DEF Steps
      <3> QED
        BY <1>1, <1>3, <2>3, <3>1
    <2> QED
      BY <1>6, <2>1, <2>2, <2>3 DEF RetryChecked
  <1>7. CASE RetryJoined
    <2>1. UNCHANGED minted
      BY <1>7 DEF RetryJoined, boundVars
    <2>2. CASE Throw("retry", "transient", credential, access, status, flow, queue)
      <3>1. status = "revoked" => Near
        BY DEF Near
      <3> QED
        BY <1>1, <2>1, <2>2, <3>1, ThrowShapes, NotNearerKeeps
    <2>3. CASE /\ flow' = [flow EXCEPT !["retry"] = Ended("retry", "ok")]
               /\ UNCHANGED <<memoryVars, queue>>
      <3>1. /\ Ended("retry", "ok") \in AnyFlows /\ Ended("retry", "ok").pc = "idle"
            /\ Ended("retry", "ok").reply = "none"
        BY <1>1, Shapes
      <3> QED
        BY <1>1, <1>3, <2>1, <2>3, <3>1
    <2> QED
      BY <1>7, <2>2, <2>3 DEF RetryJoined
  <1>8. CASE ProbeAnswered \/ StreamBreaks
    <2>1. UNCHANGED minted
      BY <1>8 DEF ProbeAnswered, StreamBreaks, boundVars
    <2>2. CASE BeginDiscard("discard", credential, status, flow, queue)
      <3>1. status = "revoked" => Near
        BY DEF Near
      <3> QED
        BY <1>1, <2>1, <2>2, <3>1, DiscardShapes, NotNearerKeeps
    <2>3. CASE flow' = [flow EXCEPT !["discard"] = Idle]
               /\ UNCHANGED <<memoryVars, queue>>
      <3>1. Idle \in AnyFlows /\ Idle.pc = "idle" /\ Idle.reply = "none"
        BY Shapes DEF Idle
      <3> QED
        BY <1>1, <1>3, <2>1, <2>3, <3>1
    <2> QED
      BY <1>8, <2>2, <2>3 DEF ProbeAnswered, StreamBreaks
  <1> QED
    BY <1>4, <1>5, <1>6, <1>7, <1>8

\* A request is answered: a server that answers a logout with success, or a
\* rotation with a code that proves the session dead, has revoked the family or
\* refuses the user.
LEMMA AnswersLogout ==
  ASSUME LogoutInv, NEW r \in wire, NEW answer \in Replies,
         Serve(r, answer) \/ (AccessExpired(r) /\ answer = "invalid_device_access")
  PROVE  LogoutInv'
  <1>1. /\ UNCHANGED <<disk, credential, access, minted, queue>>
        /\ flow \in [Flows -> AnyFlows] /\ "nobody" \notin Flows
    BY DEF Serve, AccessExpired, LogoutInv, ShapesInv, fileVars, memoryVars, Flows
  <1>2. \/ flow' = flow
        \/ flow' = [flow EXCEPT ![r.by].reply = answer]
    BY DEF Serve, AccessExpired
  <1>3. /\ flow' \in [Flows -> AnyFlows]
        /\ flow'["logout"].pc = flow["logout"].pc
        /\ flow'["logout"].reply \in {flow["logout"].reply, answer}
        /\ \A f \in Flows : flow'[f].reply \in {flow[f].reply, answer}
        /\ \A f \in Flows : flow'[f].pc = flow[f].pc /\ flow'[f].out = flow[f].out
        /\ r.by = "nobody" => flow' = flow
    BY <1>1, <1>2 DEF AnyFlows, Flows, Serve, AccessExpired
  <1>4. /\ famStatus = "revoked" => famStatus' = "revoked"
        /\ refused = TRUE => refused' = TRUE
        /\ answer = "logged_out" => famStatus' = "revoked"
        /\ answer \in RevokedCodes => famStatus' = "revoked" \/ refused' = TRUE
                                         \/ r.by = "nobody"
    <2>1. CASE Serve(r, answer) /\ r.kind = "refresh"
      BY <2>1 DEF Serve, RefreshAnswer, Server!Rotate, Server!Advance, Server!Revoke,
         Server!cfVars, RevokedCodes
    <2>2. CASE Serve(r, answer) /\ r.kind # "refresh"
      BY <2>2 DEF Serve, LogoutAnswer, Server!Revoke, RevokedCodes
    <2>3. CASE AccessExpired(r) /\ answer = "invalid_device_access"
      BY <2>3 DEF AccessExpired, serverVars, RevokedCodes
    <2> QED
      BY <2>1, <2>2, <2>3
  <1>5. UNCHANGED status
    BY DEF Serve, AccessExpired, memoryVars
  <1>6. Near' => Confirmed'
    <2>1. Near => Confirmed
      BY DEF LogoutInv, AnsweredLogout
    <2>2. Confirmed => Confirmed'
      BY <1>4 DEF Confirmed
    <2>3. CASE \E f \in Flows : flow'[f].reply # flow[f].reply
                                 /\ flow'[f].reply \in RevokedCodes \cup {"logged_out"}
      BY <1>3, <1>4, <2>3 DEF Confirmed
    <2>4. CASE ~ \E f \in Flows : flow'[f].reply # flow[f].reply
                                 /\ flow'[f].reply \in RevokedCodes \cup {"logged_out"}
      <3>1. Near' => Near
        BY <1>3, <1>5, <2>4 DEF Near, Flows
      <3> QED
        BY <2>1, <2>2, <3>1
    <2> QED
      BY <2>3, <2>4
  <1> QED
    BY <1>1, <1>3, <1>6 DEF LogoutInv, ShapesInv, AnsweredLogout

\* Everything else: requests given up, the server on its own, the process.
LEMMA OtherLogout ==
  ASSUME LogoutInv,
         \/ \E f \in Flows : Timeout(f)
         \/ BrowserRevokes \/ SetUserStatus \/ RefreshCredentialLapses
         \/ Start \/ Dispose \/ Down \/ UNCHANGED vars
  PROVE  LogoutInv'
  <1>1. /\ ShapesInv /\ flow \in [Flows -> AnyFlows] /\ UNCHANGED <<disk, minted>>
        /\ Confirmed => Confirmed' \/ Down
        /\ {"init", "logout"} \subseteq Flows
        /\ NoGen \in Nat /\ NoCredential \in AnyRecords
    BY Shapes DEF LogoutInv, ShapesInv, Confirmed, Timeout, BrowserRevokes, Server!Revoke,
       SetUserStatus, RefreshCredentialLapses, Start, Dispose, Down, vars,
       serverVars, fileVars, boundVars, Flows
  <1>2. CASE BrowserRevokes \/ SetUserStatus \/ RefreshCredentialLapses
                \/ UNCHANGED vars
    <2>1. UNCHANGED <<flow, credential, access, queue, status>> /\ (Confirmed => Confirmed')
      BY <1>2 DEF BrowserRevokes, Server!Revoke, SetUserStatus, RefreshCredentialLapses,
         vars, memoryVars, serverVars, Confirmed
    <2> QED
      BY <1>1, <2>1 DEF LogoutInv, ShapesInv, AnsweredLogout, Near
  <1>3. CASE Down
    <2>1. /\ flow' = [f \in Flows |-> Idle] /\ queue' = <<>>
          /\ credential' = NoCredential /\ access' = NoGen
          /\ status' = "unauthenticated"
      BY <1>3 DEF Down, Memory
    <2>2. /\ Idle \in AnyFlows /\ Idle.pc = "idle" /\ Idle.reply = "none"
          /\ Idle.out = "none"
      BY Shapes DEF Idle
    <2>3. flow' \in [Flows -> AnyFlows] /\ ~Near'
      BY <2>1, <2>2 DEF Near, RevokedCodes, Flows
    <2> QED
      BY <1>1, <2>1, <2>3 DEF LogoutInv, ShapesInv, AnsweredLogout
  <1>4. CASE Start
    <2> DEFINE e == [flow["init"] EXCEPT !.pc = "load"]
    <2>1. /\ flow' = [flow EXCEPT !["init"] = e] /\ UNCHANGED <<credential, access, queue>>
          /\ NotRevoked /\ (Confirmed => Confirmed')
      BY <1>4 DEF Start, memoryVars, NotRevoked, Near, Confirmed, serverVars
    <2>2. e \in AnyFlows /\ Harmless("init", e)
      BY <1>1, NextStepShape DEF Steps
    <2> HIDE DEF e
    <2>3. flow' \in [Flows -> AnyFlows] /\ NotNearer
      BY <1>1, <2>1, <2>2, OneFlowMoves
    <2> QED
      BY <1>1, <2>1, <2>3, NotNearerKeeps DEF ShapesKept, LogoutInv, ShapesInv
  <1>5. CASE Dispose
    <2>1. /\ credential' = credential /\ access' = NoGen /\ queue' = queue
          /\ \/ flow' = StaleAll(flow)
             \/ flow' = StaleAll([flow EXCEPT !["init"] = Ended("init", "throw")])
          /\ NotRevoked /\ (Confirmed => Confirmed')
      BY <1>5 DEF Dispose, Memory, NotRevoked, Confirmed, serverVars
    <2>2. flow' \in [Flows -> AnyFlows] /\ NotNearer
      <3>1. CASE flow' = StaleAll(flow)
        BY <1>1, <2>1, <3>1, StaleShapes, Nearness
      <3>2. CASE flow' = StaleAll([flow EXCEPT !["init"] = Ended("init", "throw")])
        <4> DEFINE fl == [flow EXCEPT !["init"] = Ended("init", "throw")]
        <4>1. /\ fl \in [Flows -> AnyFlows]
              /\ \A g \in Flows : (fl[g] = Ended("init", "throw") /\ g = "init")
                                      \/ fl[g] = flow[g]
          BY <1>1, Shapes
        <4> HIDE DEF fl
        <4>2. Harmless("init", Ended("init", "throw"))
          BY <1>1, Shapes, HarmlessStep
        <4>3. \A g \in Flows : Harmless(g, fl[g])
          BY <4>1, <4>2, Nearness
        <4>4. /\ StaleAll(fl) \in [Flows -> AnyFlows]
              /\ \A g \in Flows : /\ StaleAll(fl)[g].pc = fl[g].pc
                                  /\ StaleAll(fl)[g].reply = fl[g].reply
                                  /\ StaleAll(fl)[g].out = fl[g].out
          BY <4>1 DEF StaleAll, AnyFlows
        <4>5. \A g \in Flows : Harmless(g, StaleAll(fl)[g])
          BY <4>3, <4>4 DEF Harmless
        <4> QED
          BY <2>1, <3>2, <4>4, <4>5, Nearness DEF fl
      <3> QED
        BY <2>1, <3>1, <3>2
    <2> QED
      BY <1>1, <2>1, <2>2, NotNearerKeeps DEF ShapesKept, LogoutInv, ShapesInv
  <1>6. CASE \E f \in Flows : Timeout(f)
    <2>1. PICK f \in Flows : Timeout(f)
      BY <1>6
    <2> DEFINE e == [flow[f] EXCEPT !.reply = "network_error"]
    <2>2. /\ flow' = [flow EXCEPT ![f] = e] /\ UNCHANGED <<credential, access, queue>>
          /\ NotRevoked /\ (Confirmed => Confirmed')
      BY <2>1 DEF Timeout, memoryVars, NotRevoked, Near, Confirmed, serverVars
    <2>3. /\ e \in AnyFlows /\ e.pc = flow[f].pc /\ e.reply = "network_error"
          /\ e.out = flow[f].out
      BY <1>1 DEF AnyFlows, Replies
    <2> HIDE DEF e
    <2>5. Harmless(f, e)
      BY <2>3, Nearness DEF Harmless, RevokedCodes
    <2>4. flow' \in [Flows -> AnyFlows] /\ NotNearer
      BY <1>1, <2>2, <2>3, <2>5, OneFlowMoves
    <2> QED
      BY <1>1, <2>2, <2>4, NotNearerKeeps DEF ShapesKept, LogoutInv, ShapesInv
  <1> QED
    BY <1>2, <1>3, <1>4, <1>5, <1>6

\* Logout's invariant holds at first.
LEMMA InitLogoutInv == Init => LogoutInv
  <1> SUFFICES ASSUME Init PROVE LogoutInv
    OBVIOUS
  <1>1. /\ flow = [f \in Flows |-> Idle] /\ queue = <<>> /\ minted = 1
        /\ disk = [gen |-> 0, pending |-> NoTxn]
        /\ credential = NoCredential /\ access = NoGen
        /\ status = "unauthenticated"
    BY DEF Init
  <1>2. /\ Idle \in AnyFlows /\ NoCredential \in AnyRecords /\ NoGen \in Nat
        /\ Idle.pc = "idle" /\ Idle.reply = "none" /\ Idle.out = "none"
        /\ {"logout", "retry"} \subseteq Flows
    BY Shapes DEF Idle, Flows
  <1>3. disk \in AnyRecords
    BY <1>1 DEF AnyRecords, NoTxn
  <1> QED
    <2>1. ~Near
      BY <1>1, <1>2 DEF Near, RevokedCodes
    <2> QED
      BY <1>1, <1>2, <1>3, <2>1 DEF LogoutInv, ShapesInv, AnsweredLogout

\* Every step keeps logout's invariant.
LEMMA NextLogout == LogoutInv /\ [Next]_vars => LogoutInv'
  <1> SUFFICES ASSUME LogoutInv, [Next]_vars PROVE LogoutInv'
    OBVIOUS
  <1>1. CASE UNCHANGED vars
    BY <1>1, OtherLogout
  <1>2. ASSUME NEW f \in Flows, FlowStep(f) PROVE LogoutInv'
    BY <1>2, InitLogout, LogoutSteps, HostLogout, AnsweredLogoutKeeps, ClearSteps
       DEF FlowStep
  <1>3. ASSUME NEW f, ServeFlow(f) PROVE LogoutInv'
    BY <1>3, AnswersLogout DEF ServeFlow
  <1>4. CASE StoreSucceeds
    BY <1>4, StoreLogout
  <1>5. CASE FaultStep
    <2>1. CASE \E r \in wire : AccessExpired(r)
      BY <2>1, AnswersLogout DEF Replies
    <2>2. CASE InitFails \/ StoreFails \/ LogoutMarkFails \/ StreamBreaks
      BY <2>2, InitLogout, StoreLogout, LogoutSteps, HostLogout
    <2>3. CASE \E f \in Flows : MarkerClearFails(f) \/ Timeout(f)
      BY <2>3, ClearSteps, OtherLogout
    <2>4. CASE Crash
      BY <2>4, OtherLogout DEF Crash
    <2> QED
      BY <1>3, <1>5, <2>1, <2>2, <2>3, <2>4 DEF FaultStep
  <1>6. CASE HostStep
    BY <1>6, OtherLogout, HostLogout, LogoutSteps DEF HostStep, Exit
  <1>7. CASE EnvironmentStep
    BY <1>7, OtherLogout DEF EnvironmentStep
  <1> QED
    BY <1>1, <1>2, <1>3, <1>4, <1>5, <1>6, <1>7 DEF Next

\* However a logout comes to report success, and whenever it or a retried
\* revocation discards the session as dead, the server has revoked the family or
\* has refused the user, in every scenario: whatever refreshes, retries, discards,
\* disabled users, lost requests and failed writes it races with (runLogout,
\* runPendingRevocation and discardLocalSession against client.logout).
THEOREM LogoutIsConfirmed == Spec => []LogoutConfirmed
  <1>1. LogoutInv => LogoutConfirmed
    BY DEF LogoutInv, AnsweredLogout, Near, Confirmed, LogoutConfirmed
  <1> QED
    BY <1>1, InitLogoutInv, NextLogout, PTL DEF Spec

=============================================================================
