----------------------- MODULE DesktopNetwork_proofs -----------------------
(***************************************************************************)
(* Nothing of one session reaches another, and no mutation is sent twice:  *)
(* proofs of SessionsKeptApart and MutationsSentOnce of DesktopNetwork.     *)
(*                                                                         *)
(* The argument has three parts.  What was taken out under an epoch (a     *)
(* stream, a request) belongs to the session signed in for as long as that *)
(* epoch lasts, because the session never changes while somebody is signed *)
(* in without the epoch moving too.  The run of the current generation is  *)
(* the only one that may speak, and every step that moves the epoch moves  *)
(* the generation.  And an answer is used in the very turn it arrives in:  *)
(* nothing else is ready then.                                             *)
(***************************************************************************)
EXTENDS DesktopNetwork, TLAPS

RunRecords == [pc : RunSteps, epoch : Nat, session : Nat,
               sig : {"none", "bound", "detached", "aborted"}, why : Reasons]
Nets == [status : {"idle", "connecting", "online", "offline", "suspended",
                   "reauthorization_required"},
         gen : Nat, running : Nat, suspended : BOOLEAN,
         ctl : {"none", "live", "aborted"}, run : [Gens -> RunRecords]]
CallRecords == [pc : CallSteps, epoch : Nat, session : Nat, first : BOOLEAN,
                out : {"none", "ok", "revoked", "error"}, sent : Nat,
                gen : Nat, fact : Nat, of : Nat,
                stage : {"none", "target", "read"}]
Auths == [status : Live \cup InvalidatingStates, session : Nat, issued : Nat,
          access : {"none", "fresh", "stale"},
          flight : {"none", "saving", "sent"}, dropped : BOOLEAN, of : Nat,
          leaving : BOOLEAN]
Notes == [gen : Nat, delivered : SUBSET Nat, open : BOOLEAN,
          used : [by : Nat, of : Nat]]

\* Steps of a run that has been, or is about to be, online.
Speaking == {"stream", "probe", "refresh", "refreshed"}
\* Steps that no current run is at while "online" is shown.
Silent == {"off", "lease", "leased", "backoff"}

\* What run r of the network n may be in epoch e, when s is signed in and the
\* credential coordinator's status is l.
RunFits(n, r, e, s, l) ==
    LET run == n.run[r]
    IN  /\ r > n.gen => run.pc = "off"
        /\ run.pc = "off" => run.sig = "none"
        /\ r = n.gen /\ run.pc # "off" => n.running = n.gen /\ ~n.suspended
        /\ run.pc = "stream" => /\ run.session # NoSession
                                /\ run.epoch <= e
                                /\ run.epoch = e => run.session = s
        /\ r = n.gen /\ run.pc = "stream" => run.epoch = e
        /\ r = n.gen /\ run.pc \in Speaking => l \in Live

NetFits(n, e, s, l) ==
    /\ n \in Nets
    /\ \A r \in Gens : RunFits(n, r, e, s, l)
    /\ n.status = "online" => /\ n.gen \in Gens /\ l \in Live
                              /\ n.run[n.gen].pc \notin Silent

NetInv == NetFits(net, epoch, auth.session, auth.status)

\* The access token is that of a live session; a rotation is some session's.
AuthInv ==
    /\ auth \in Auths /\ epoch \in Nat
    /\ auth.access # "none" => auth.status \in Live /\ auth.session # NoSession
    /\ auth.status = "unauthenticated" => auth.session = NoSession
    /\ auth.flight # "none" => auth.of # NoSession

\* A request under way belongs to who is signed in while its epoch lasts, and
\* a click's target while the notifications' generation does.
CallFits(c, e, s, g) ==
    /\ c.pc = "fetch" => /\ c.session # NoSession
                         /\ c.epoch <= e
                         /\ c.epoch = e => c.session = s
    /\ c.pc = "done" /\ c.out = "ok" => c.epoch = e /\ c.session = s /\ s # NoSession
    /\ c.stage = "read" => /\ c.of # NoSession
                           /\ c.gen <= g
                           /\ c.gen = g => c.of = s

\* A request that is not idempotent was not sent before it is on its way.
SentFits(k, c) ==
    k = WriteCall \/ c.stage = "read" =>
        /\ c.pc # "refresh" /\ c.sent <= 1
        /\ c.pc \in {"begin", "lease", "leased"} => c.sent = 0

CallInv ==
    /\ call \in [Callers -> CallRecords]
    /\ \A k \in Callers : CallFits(call[k], epoch, auth.session, notes.gen)
    /\ \A k \in Callers : SentFits(k, call[k])

\* An answer is taken before anything else goes on.
AnswerAlone ==
    \A k \in Callers : call[k].pc = "done" /\ call[k].out = "ok" =>
        /\ \A j \in Callers \ {k} : call[j].pc \notin ReadyCall
        /\ \A r \in Gens : net.run[r].pc \notin ReadyRun /\ net.run[r].sig # "aborted"

NotesInv == notes \in Notes /\ NotificationsAreOwn

ApartInv == AuthInv /\ NetInv /\ CallInv /\ AnswerAlone /\ NotesInv

-----------------------------------------------------------------------------
\* What the coordinator's functions make of its state.

LEMMA GenFacts ==
  /\ MaxGen \in Nat /\ MaxGen >= 1
  /\ \A r \in Gens : r \in Nat /\ r >= 1 /\ r \in Callers
        /\ r # ListCall /\ r # ClickCall /\ r # WriteCall
  /\ ListCall \in Callers /\ ClickCall \in Callers /\ WriteCall \in Callers
  /\ ListCall # ClickCall /\ ListCall # WriteCall /\ ClickCall # WriteCall
  BY NetworkBounds DEF Gens, Callers, ListCall, ClickCall, WriteCall

\* Records of runs that are made from scratch.
LEMMA RunShapes ==
  /\ NoRun \in RunRecords /\ NoRun.pc = "off" /\ NoRun.sig = "none"
  /\ \A p \in RunSteps : LET x == [NoRun EXCEPT !.pc = p]
                         IN  x \in RunRecords /\ x.pc = p /\ x.sig = "none"
  BY DEF NoRun, RunRecords, RunSteps, NoSession, Reasons

\* Runs that only change their signal.
LEMMA SignalShapes ==
  ASSUME NEW x \in RunRecords, NEW g \in {"none", "bound", "detached", "aborted"}
  PROVE  LET y == [x EXCEPT !.sig = g]
         IN  /\ y \in RunRecords /\ y.pc = x.pc /\ y.epoch = x.epoch
             /\ y.session = x.session
  BY DEF RunRecords

\* A network whose runs differ at most in what they listen to.
LEMMA SameRunsFit ==
  ASSUME NEW n, NEW m \in Nets, NEW e \in Nat, NEW s, NEW l, NetFits(n, e, s, l),
         m.gen = n.gen, m.running = n.running, m.suspended = n.suspended,
         m.status = n.status \/ m.status # "online",
         \A r \in Gens : /\ m.run[r].pc = n.run[r].pc
                         /\ m.run[r].epoch = n.run[r].epoch
                         /\ m.run[r].session = n.run[r].session
                         /\ m.run[r].sig = n.run[r].sig \/ n.run[r].sig = "bound"
  PROVE  NetFits(m, e, s, l)
  BY DEF NetFits, RunFits, Speaking, Silent

\* controller?.abort() and controller = new AbortController().
LEMMA AbortFits ==
  ASSUME NEW n, NEW e \in Nat, NEW s, NEW l, NetFits(n, e, s, l)
  PROVE  /\ NetFits(Abort(n), e, s, l)
         /\ Abort(n).gen = n.gen /\ Abort(n).running = n.running
         /\ Abort(n).suspended = n.suspended /\ Abort(n).status = n.status
         /\ \A r \in Gens : /\ Abort(n).run[r].pc = n.run[r].pc
                            /\ Abort(n).run[r].epoch = n.run[r].epoch
                            /\ Abort(n).run[r].session = n.run[r].session
  <1> DEFINE rr == [r \in Gens |->
                  IF n.ctl = "live" /\ n.run[r].sig = "bound"
                  THEN [n.run[r] EXCEPT !.sig = "aborted"] ELSE n.run[r]]
  <1>0. n \in Nets
    BY DEF NetFits
  <1>1. \A r \in Gens : /\ rr[r] \in RunRecords /\ rr[r].pc = n.run[r].pc
                        /\ rr[r].epoch = n.run[r].epoch
                        /\ rr[r].session = n.run[r].session
                        /\ rr[r].sig = n.run[r].sig \/ n.run[r].sig = "bound"
    BY <1>0 DEF Nets, RunRecords
  <1>2. rr \in [Gens -> RunRecords]
    BY <1>1
  <1>3. Abort(n) = [n EXCEPT !.ctl = IF @ = "live" THEN "aborted" ELSE @, !.run = rr]
    BY DEF Abort
  <1> HIDE DEF rr
  <1>4. /\ Abort(n) \in Nets /\ Abort(n).run = rr
        /\ Abort(n).gen = n.gen /\ Abort(n).running = n.running
        /\ Abort(n).suspended = n.suspended /\ Abort(n).status = n.status
    BY <1>0, <1>2, <1>3 DEF Nets
  <1> QED
    BY <1>1, <1>4, SameRunsFit

LEMMA NewControllerFits ==
  ASSUME NEW n, NEW e \in Nat, NEW s, NEW l, NetFits(n, e, s, l)
  PROVE  /\ NetFits(NewController(n), e, s, l)
         /\ NewController(n).gen = n.gen /\ NewController(n).running = n.running
         /\ NewController(n).suspended = n.suspended
         /\ NewController(n).status = n.status /\ NewController(n).ctl = "live"
         /\ \A r \in Gens : /\ NewController(n).run[r].pc = n.run[r].pc
                            /\ NewController(n).run[r].epoch = n.run[r].epoch
                            /\ NewController(n).run[r].session = n.run[r].session
  <1> DEFINE rr == [r \in Gens |->
                  IF n.run[r].sig = "bound"
                  THEN [n.run[r] EXCEPT !.sig = "detached"] ELSE n.run[r]]
  <1>0. n \in Nets
    BY DEF NetFits
  <1>1. \A r \in Gens : /\ rr[r] \in RunRecords /\ rr[r].pc = n.run[r].pc
                        /\ rr[r].epoch = n.run[r].epoch
                        /\ rr[r].session = n.run[r].session
                        /\ rr[r].sig = n.run[r].sig \/ n.run[r].sig = "bound"
    BY <1>0 DEF Nets, RunRecords
  <1>2. rr \in [Gens -> RunRecords]
    BY <1>1
  <1>3. NewController(n) = [n EXCEPT !.ctl = "live", !.run = rr]
    BY DEF NewController
  <1> HIDE DEF rr
  <1>4. /\ NewController(n) \in Nets /\ NewController(n).run = rr
        /\ NewController(n).gen = n.gen /\ NewController(n).running = n.running
        /\ NewController(n).suspended = n.suspended
        /\ NewController(n).status = n.status /\ NewController(n).ctl = "live"
    BY <1>0, <1>2, <1>3 DEF Nets
  <1> QED
    BY <1>1, <1>4, SameRunsFit

\* start()
LEMMA StartFits ==
  ASSUME NEW n, NEW e \in Nat, NEW s, NEW l, NetFits(n, e, s, l)
  PROVE  NetFits(start(n), e, s, l)
  <1> DEFINE x == [NoRun EXCEPT !.pc = "loop"]
             rr == [n.run EXCEPT ![n.gen + 1] = x]
             m == [n EXCEPT !.suspended = FALSE, !.gen = @ + 1,
                            !.running = n.gen + 1, !.run = rr]
  <1>0. n \in Nets /\ n.gen \in Nat
    BY DEF NetFits, Nets
  <1>1. x \in RunRecords /\ x.pc = "loop" /\ x.sig = "none"
    BY RunShapes DEF RunSteps
  <1> HIDE DEF x
  <1>2. rr \in [Gens -> RunRecords]
    BY <1>0, <1>1 DEF Nets
  <1>3. start(n) = n \/ (n.running = 0 /\ start(n) = m)
    BY DEF start, x
  <1>4. /\ \A r \in Gens \ {n.gen + 1} : rr[r] = n.run[r]
        /\ n.gen + 1 \in Gens => rr[n.gen + 1] = x
    BY <1>0 DEF Nets
  <1> HIDE DEF rr
  <1>5. /\ m \in Nets /\ m.run = rr /\ m.gen = n.gen + 1 /\ m.running = n.gen + 1
        /\ m.suspended = FALSE /\ m.status = n.status
    <2>1. n.gen + 1 \in Nat /\ FALSE \in BOOLEAN
      BY <1>0
    <2>2. /\ m.run = rr /\ m.gen = n.gen + 1 /\ m.running = n.gen + 1
          /\ m.suspended = FALSE /\ m.status = n.status
      BY <1>0 DEF Nets
    <2>3. m \in Nets
      BY <1>0, <1>2, <2>1 DEF Nets
    <2> QED
      BY <2>2, <2>3
  <1> HIDE DEF m
  <1>6. CASE n.running = 0 /\ start(n) = m
    <2>1. \A r \in Gens : r \in Nat
      BY GenFacts
    <2>2. n.status # "online"
      BY <1>0, <1>6, <2>1, GenFacts DEF NetFits, RunFits, Speaking, Silent
    <2>3. ASSUME NEW r \in Gens PROVE RunFits(m, r, e, s, l)
      BY <1>0, <1>1, <1>4, <1>5, <2>1, <2>3 DEF NetFits, RunFits, Speaking, Silent
    <2> QED
      BY <1>5, <1>6, <2>2, <2>3 DEF NetFits
  <1> QED
    BY <1>3, <1>6

\* A network in which one run has gone on.
LEMMA OneRunFits ==
  ASSUME NEW n, NEW m \in Nets, NEW e \in Nat, NEW s, NEW l, NEW r \in Gens,
         NetFits(n, e, s, l), RunFits(m, r, e, s, l),
         m.gen = n.gen, m.suspended = n.suspended,
         \A q \in Gens \ {r} : m.run[q] = n.run[q],
         r # n.gen => m.running = n.running,
         m.status = "online" => n.status = "online",
         m.status = "online" /\ r = n.gen => m.run[r].pc \notin Silent
  PROVE  NetFits(m, e, s, l)
  <1>1. ASSUME NEW q \in Gens PROVE RunFits(m, q, e, s, l)
    BY <1>1 DEF NetFits, RunFits, Speaking, Silent
  <1> QED
    BY <1>1 DEF NetFits

\* The status that is shown.
LEMMA StatusFits ==
  ASSUME NEW n, NEW e \in Nat, NEW s, NEW l, NetFits(n, e, s, l),
         NEW st \in {"idle", "connecting", "offline", "suspended",
                     "reauthorization_required"}
  PROVE  LET m == [n EXCEPT !.status = st]
         IN  /\ NetFits(m, e, s, l)
             /\ m.gen = n.gen /\ m.running = n.running /\ m.run = n.run
             /\ m.suspended = n.suspended /\ m.status = st /\ m.ctl = n.ctl
  <1> DEFINE m == [n EXCEPT !.status = st]
  <1>0. n \in Nets
    BY DEF NetFits
  <1>1. /\ m \in Nets /\ m.gen = n.gen /\ m.running = n.running /\ m.run = n.run
        /\ m.suspended = n.suspended /\ m.status = st /\ m.ctl = n.ctl
    BY <1>0 DEF Nets
  <1> HIDE DEF m
  <1>2. NetFits(m, e, s, l)
    BY <1>1, SameRunsFit
  <1> QED
    BY <1>1, <1>2 DEF m

\* One run is given another record.
LEMMA RunSet ==
  ASSUME NEW n, NEW e \in Nat, NEW s, NEW l, NetFits(n, e, s, l),
         NEW r \in Gens, NEW x \in RunRecords,
         n.run[r].pc # "off", x.pc # "off",
         x.pc = "stream" => /\ x.session # NoSession
                            /\ x.epoch <= e
                            /\ x.epoch = e => x.session = s,
         r = n.gen /\ x.pc = "stream" => x.epoch = e,
         r = n.gen /\ x.pc \in Speaking => l \in Live,
         n.status = "online" /\ r = n.gen => x.pc \notin Silent
  PROVE  LET m == [n EXCEPT !.run[r] = x]
         IN  /\ NetFits(m, e, s, l)
             /\ m.gen = n.gen /\ m.running = n.running /\ m.status = n.status
             /\ m.suspended = n.suspended /\ m.ctl = n.ctl
             /\ m.run = [n.run EXCEPT ![r] = x]
  <1> DEFINE rr == [n.run EXCEPT ![r] = x]
             m == [n EXCEPT !.run[r] = x]
  <1>0. n \in Nets /\ n.run \in [Gens -> RunRecords] /\ n.gen \in Nat /\ r \in Nat
    BY GenFacts DEF NetFits, Nets
  <1>1. rr \in [Gens -> RunRecords] /\ rr[r] = x /\ \A q \in Gens \ {r} : rr[q] = n.run[q]
    BY <1>0
  <1>2. m = [n EXCEPT !.run = rr]
    BY <1>0 DEF Nets
  <1> HIDE DEF rr
  <1>3. /\ m \in Nets /\ m.run = rr
        /\ m.gen = n.gen /\ m.running = n.running /\ m.status = n.status
        /\ m.suspended = n.suspended /\ m.ctl = n.ctl
    BY <1>0, <1>1, <1>2 DEF Nets
  <1> HIDE DEF m
  <1>4. RunFits(m, r, e, s, l)
    BY <1>0, <1>1, <1>3 DEF NetFits, RunFits, Speaking, Silent
  <1>5. NetFits(m, e, s, l)
    BY <1>1, <1>3, <1>4, OneRunFits
  <1> QED
    BY <1>3, <1>5 DEF m, rr

\* run() returned.
LEMMA EndRunFits ==
  ASSUME NEW n, NEW e \in Nat, NEW s, NEW l, NetFits(n, e, s, l), NEW r \in Gens,
         n.status = "online" => r # n.gen
  PROVE  NetFits(EndRun(n, r), e, s, l)
  <1> DEFINE rr == [n.run EXCEPT ![r] = NoRun]
             a == IF r = n.gen THEN 0 ELSE n.running
             m == EndRun(n, r)
  <1>0. /\ n \in Nets /\ n.run \in [Gens -> RunRecords] /\ n.gen \in Nat /\ r \in Nat
        /\ n.running \in Nat
    BY GenFacts DEF NetFits, Nets
  <1>1. rr \in [Gens -> RunRecords] /\ rr[r].pc = "off" /\ rr[r].sig = "none"
           /\ \A q \in Gens \ {r} : rr[q] = n.run[q]
    BY <1>0, RunShapes
  <1>2. m = [n EXCEPT !.run = rr, !.running = a]
    BY <1>0 DEF Nets, EndRun
  <1>3. a \in Nat /\ (r # n.gen => a = n.running)
    BY <1>0
  <1> HIDE DEF rr, a
  <1>4. /\ m \in Nets /\ m.run = rr /\ m.gen = n.gen /\ m.running = a
        /\ m.status = n.status /\ m.suspended = n.suspended
    BY <1>0, <1>1, <1>2, <1>3 DEF Nets
  <1> HIDE DEF m
  <1>5. RunFits(m, r, e, s, l)
    BY <1>1, <1>4 DEF RunFits, Speaking, Silent
  <1>6. n.status = "online" => r # n.gen
    BY DEF NetFits
  <1>7. NetFits(m, e, s, l)
    BY <1>1, <1>3, <1>4, <1>5, <1>6, OneRunFits
  <1> QED
    BY <1>7 DEF m

\* The tail of the loop.
LEMMA BackoffFits ==
  ASSUME NEW n, NEW e \in Nat, NEW s, NEW l, NetFits(n, e, s, l), NEW r \in Gens,
         n.run[r].pc # "off"
  PROVE  NetFits(Backoff(n, r), e, s, l)
  <1>1. CASE r # n.gen
    BY <1>1, EndRunFits DEF Backoff
  <1>2. CASE r = n.gen
    <2> DEFINE x == [NoRun EXCEPT !.pc = "backoff", !.sig = "bound"]
               k == NewController(n)
               o == [k EXCEPT !.status = "offline"]
    <2>1. x \in RunRecords /\ x.pc = "backoff"
      BY DEF NoRun, RunRecords, RunSteps, NoSession, Reasons
    <2>2. Backoff(n, r) = [k EXCEPT !.status = "offline", !.run[r] = x]
      BY <1>2 DEF Backoff
    <2> HIDE DEF x
    <2>3. NetFits(k, e, s, l) /\ k.run[r].pc = n.run[r].pc
      BY NewControllerFits
    <2> HIDE DEF k
    <2>4. /\ NetFits(o, e, s, l) /\ o.run = k.run /\ o.status = "offline"
      BY <2>3, StatusFits
    <2>5. [k EXCEPT !.status = "offline", !.run[r] = x] = [o EXCEPT !.run[r] = x]
      BY <2>3 DEF NetFits, Nets
    <2> HIDE DEF o
    <2> QED
      BY <2>1, <2>2, <2>3, <2>4, <2>5, RunSet DEF Speaking, Silent
  <1> QED
    BY <1>1, <1>2

\* invalidate() and suspend(): whoever is signed in from then on, in the next
\* epoch or in this one, no run is current.
LEMMA HaltFits ==
  ASSUME NEW n, NEW e \in Nat, NEW s, NEW l, NetFits(n, e, s, l),
         NEW st \in {"idle", "suspended"}, NEW f \in Nat, NEW t, NEW k,
         f > e \/ (f = e /\ t = s)
  PROVE  /\ NetFits(Halt(n, st), f, t, k)
         /\ Halt(n, st).gen = n.gen + 1 /\ Halt(n, st).status = st
  <1> DEFINE b == Abort(n)
             m == [b EXCEPT !.gen = @ + 1, !.ctl = "none", !.running = 0,
                            !.status = st]
  <1>1. /\ NetFits(b, e, s, l) /\ b \in Nets /\ b.gen \in Nat /\ b.gen = n.gen
    BY AbortFits DEF NetFits, Nets
  <1>2. Halt(n, st) = m
    BY DEF Halt
  <1> HIDE DEF b
  <1>3. b.gen + 1 \in Nat
    BY <1>1
  <1>4. /\ m.gen = b.gen + 1 /\ m.running = 0 /\ m.status = st /\ m.run = b.run
    BY <1>1 DEF Nets
  <1>5. m \in Nets
    BY <1>1, <1>3 DEF Nets
  <1> HIDE DEF m
  <1>6. ASSUME NEW r \in Gens PROVE RunFits(m, r, f, t, k)
    <2>1. r \in Nat /\ b.run[r] \in RunRecords /\ RunFits(b, r, e, s, l)
      BY <1>1, <1>6, GenFacts DEF NetFits, Nets
    <2>2. m.run[r].epoch \in Nat
      BY <1>4, <2>1 DEF RunRecords
    <2>3. r > b.gen => m.run[r].pc = "off"
      BY <1>4, <2>1 DEF RunFits
    <2>4. r >= m.gen => m.run[r].pc = "off"
      BY <1>1, <1>4, <2>1, <2>3
    <2> QED
      BY <1>1, <1>4, <2>1, <2>2, <2>4 DEF RunFits, Speaking, Silent
  <1> QED
    BY <1>1, <1>2, <1>4, <1>5, <1>6 DEF NetFits

LEMMA SuspendFits ==
  ASSUME NEW n, NEW e \in Nat, NEW s, NEW l, NetFits(n, e, s, l)
  PROVE  NetFits(suspend(n), e, s, l)
  <1> DEFINE h == Halt(n, "suspended")
             m == [h EXCEPT !.suspended = TRUE]
  <1>1. /\ NetFits(h, e, s, l) /\ h.gen = n.gen + 1 /\ h.status = "suspended"
        /\ n.gen \in Nat
    BY HaltFits DEF NetFits, Nets
  <1>2. suspend(n) = m
    BY DEF suspend
  <1>3. \A r \in Gens : r = h.gen => h.run[r].pc = "off"
    <2>1. ASSUME NEW r \in Gens, r = h.gen PROVE h.run[r].pc = "off"
      <3>1. r > n.gen
        BY <1>1, <2>1, GenFacts
      <3>2. n.run[r].pc = "off"
        BY <3>1 DEF NetFits, RunFits, Speaking, Silent
      <3>3. h.run[r].pc = Abort(n).run[r].pc
        <4>1. Abort(n) \in Nets
          BY AbortFits DEF NetFits
        <4> QED
          BY <4>1 DEF Halt, Nets
      <3> QED
        BY <3>2, <3>3, AbortFits
    <2> QED
      BY <2>1
  <1> HIDE DEF h
  <1>4. h \in Nets
    BY <1>1 DEF NetFits
  <1>5. m.gen = h.gen /\ m.run = h.run /\ m.status = h.status /\ m.running = h.running
    BY <1>4 DEF Nets
  <1>6. m \in Nets
    BY <1>4 DEF Nets
  <1> HIDE DEF m
  <1>7. \A r \in Gens : RunFits(m, r, e, s, l)
    BY <1>1, <1>3, <1>5 DEF NetFits, RunFits, Speaking, Silent
  <1> QED
    BY <1>1, <1>2, <1>5, <1>6, <1>7 DEF NetFits

LEMMA ResumeFits ==
  ASSUME NEW n, NEW e \in Nat, NEW s, NEW l, NetFits(n, e, s, l)
  PROVE  NetFits(resume(n), e, s, l)
  <1> DEFINE m == [n EXCEPT !.suspended = FALSE]
  <1>0. n \in Nets
    BY DEF NetFits
  <1>1. m.gen = n.gen /\ m.run = n.run /\ m.status = n.status /\ m.running = n.running
          /\ m.suspended = FALSE
    BY <1>0 DEF Nets
  <1>2. m \in Nets
    BY <1>0 DEF Nets
  <1> HIDE DEF m
  <1>3. NetFits(m, e, s, l)
    <2>1. \A r \in Gens : RunFits(m, r, e, s, l)
      BY <1>1 DEF NetFits, RunFits, Speaking, Silent
    <2> QED
      BY <1>1, <1>2, <2>1 DEF NetFits
  <1>4. NetFits(start(m), e, s, l)
    BY <1>3, StartFits
  <1> QED
    BY <1>4 DEF resume, m

\* The flight that runs waited for has ended.
LEMMA EndFlightFits ==
  ASSUME NEW n, NEW e \in Nat, NEW s, NEW l, NetFits(n, e, s, l),
         NEW o \in {"ok", "revoked", "error"}
  PROVE  NetFits(EndFlight(n, o), e, s, l)
  <1> DEFINE rr == [r \in Gens |-> ResumedRun(n.run[r], o)]
             m == EndFlight(n, o)
  <1>0. n \in Nets /\ \A r \in Gens : n.run[r] \in RunRecords
    BY DEF NetFits, Nets
  <1>1. ASSUME NEW r \in Gens
        PROVE  /\ rr[r] \in RunRecords
               /\ \/ rr[r].pc = n.run[r].pc
                  \/ n.run[r].pc = "lease" /\ rr[r].pc = "leased"
                  \/ n.run[r].pc = "refresh" /\ rr[r].pc = "refreshed"
               /\ rr[r].epoch = n.run[r].epoch /\ rr[r].session = n.run[r].session
               /\ rr[r].sig = n.run[r].sig
    <2>1. n.run[r] \in RunRecords /\ rr[r] = ResumedRun(n.run[r], o)
      BY <1>0, <1>1
    <2>2. o \in Reasons
      BY DEF Reasons
    <2>3. CASE n.run[r].pc = "lease"
      BY <2>1, <2>2, <2>3 DEF ResumedRun, RunRecords, RunSteps
    <2>4. CASE n.run[r].pc = "refresh"
      BY <2>1, <2>2, <2>4 DEF ResumedRun, RunRecords, RunSteps
    <2>5. CASE n.run[r].pc \notin {"lease", "refresh"}
      BY <2>1, <2>5 DEF ResumedRun
    <2> QED
      BY <2>3, <2>4, <2>5
  <1>2. rr \in [Gens -> RunRecords]
    BY <1>1
  <1>3. m = [n EXCEPT !.run = rr]
    BY DEF EndFlight
  <1> HIDE DEF rr
  <1>4. /\ m \in Nets /\ m.run = rr /\ m.gen = n.gen /\ m.status = n.status
        /\ m.running = n.running /\ m.suspended = n.suspended
    BY <1>0, <1>2, <1>3 DEF Nets
  <1> HIDE DEF m
  <1>5. ASSUME NEW r \in Gens PROVE RunFits(m, r, e, s, l)
    BY <1>1, <1>4, <1>5 DEF NetFits, RunFits, Speaking, Silent
  <1>6. NetFits(m, e, s, l)
    BY <1>1, <1>4, <1>5 DEF NetFits, Speaking, Silent
  <1> QED
    BY <1>6 DEF m

\* A run subscribes with the lease of somebody who is signed in.
LEMMA SubscribeFits ==
  ASSUME NEW n, NEW r \in Gens, NEW l, epoch \in Nat, auth.session \in Nat,
         NetFits(n, epoch, auth.session, l), l \in Live,
         auth.session # NoSession,
         n.run[r].pc \in {"loop", "leased"},
         n.run[r].pc = "loop" => n.status # "online"
  PROVE  NetFits(Subscribe(n, r), epoch, auth.session, l)
  <1> DEFINE x == [pc |-> "stream", epoch |-> epoch, session |-> auth.session,
                   sig |-> "bound", why |-> "none"]
  <1>1. /\ x \in RunRecords /\ x.pc = "stream" /\ x.epoch = epoch
        /\ x.session = auth.session
    BY DEF RunRecords, RunSteps, Reasons
  <1>2. Subscribe(n, r) = EndRun(n, r) \/ Subscribe(n, r) = [n EXCEPT !.run[r] = x]
    BY DEF Subscribe
  <1> HIDE DEF x
  <1>3. NetFits(EndRun(n, r), epoch, auth.session, l)
    BY EndRunFits DEF NetFits, Silent
  <1>4. NetFits([n EXCEPT !.run[r] = x], epoch, auth.session, l)
    BY <1>1, RunSet DEF Speaking, Silent
  <1> QED
    BY <1>2, <1>3, <1>4

-----------------------------------------------------------------------------
\* Steps.

Answered(c) == c.pc = "done" /\ c.out = "ok"

\* The epoch and the notifications' generation only grow, and nobody else is
\* signed in within them.
Later ==
    /\ epoch' \in Nat /\ epoch' >= epoch
    /\ notes'.gen \in Nat /\ notes'.gen >= notes.gen
    /\ \/ auth'.session = auth.session
       \/ auth.session = NoSession
       \/ epoch' > epoch /\ notes'.gen > notes.gen

\* What a step leaves to be shown about the calls only.
Follows == AuthInv' /\ NetInv' /\ NotesInv' /\ Later

\* A call that was not just answered fits what comes later.
LEMMA CallKept ==
  ASSUME NEW c \in CallRecords, NEW e \in Nat, NEW s, NEW g \in Nat,
         CallFits(c, e, s, g), ~Answered(c),
         NEW f \in Nat, NEW t, NEW h \in Nat, f >= e, h >= g,
         t = s \/ s = NoSession \/ (f > e /\ h > g)
  PROVE  CallFits(c, f, t, h)
  BY DEF CallFits, CallRecords, Answered

\* Calls that go on fit, the others are as they were.
LEMMA CallsFollow ==
  ASSUME ApartInv, Follows, call' \in [Callers -> CallRecords],
         \A k \in Callers :
            \/ call'[k] = call[k] /\ ~Answered(call[k])
            \/ /\ CallFits(call'[k], epoch', auth'.session, notes'.gen)
               /\ SentFits(k, call'[k]) /\ ~Answered(call'[k])
  PROVE  ApartInv'
  <1>0. /\ epoch \in Nat /\ notes.gen \in Nat /\ epoch' \in Nat /\ notes'.gen \in Nat
        /\ epoch' >= epoch /\ notes'.gen >= notes.gen
    BY DEF ApartInv, AuthInv, NotesInv, Notes, Follows, Later
  <1>1. ASSUME NEW k \in Callers
        PROVE  /\ CallFits(call'[k], epoch', auth'.session, notes'.gen)
               /\ SentFits(k, call'[k]) /\ ~Answered(call'[k])
    <2>1. CASE call'[k] = call[k] /\ ~Answered(call[k])
      <3>1. /\ call[k] \in CallRecords /\ SentFits(k, call[k])
            /\ CallFits(call[k], epoch, auth.session, notes.gen)
        BY DEF ApartInv, CallInv
      <3> QED
        BY <1>0, <2>1, <3>1, CallKept DEF Follows, Later
    <2> QED
      BY <2>1
  <1>2. CallInv'
    BY <1>1 DEF CallInv
  <1>3. AnswerAlone'
    BY <1>1 DEF AnswerAlone, Answered
  <1> QED
    BY <1>2, <1>3 DEF ApartInv, Follows

\* Calls nobody touches.
LEMMA CallsStay ==
  ASSUME ApartInv, Follows, call' = call, \A k \in Callers : ~Answered(call[k])
  PROVE  ApartInv'
  <1>1. call' \in [Callers -> CallRecords]
    BY DEF ApartInv, CallInv
  <1> QED
    BY <1>1, CallsFollow

\* One call goes on.
LEMMA OneCallGoesOn ==
  ASSUME ApartInv, Follows, NEW k \in Callers, NEW x \in CallRecords,
         call' = [call EXCEPT ![k] = x],
         CallFits(x, epoch', auth'.session, notes'.gen), SentFits(k, x), ~Answered(x),
         \A j \in Callers \ {k} : ~Answered(call[j])
  PROVE  ApartInv'
  <1>1. call' \in [Callers -> CallRecords] /\ call \in [Callers -> CallRecords]
    BY DEF ApartInv, CallInv
  <1> QED
    BY <1>1, CallsFollow

\* No answer waits while a run is ready or aborted, another call is ready, or
\* the environment moves.
LEMMA NoneAnswered ==
  ASSUME ApartInv
  PROVE  /\ Quiet => \A k \in Callers : ~Answered(call[k])
         /\ \A r \in Gens : net.run[r].pc \in ReadyRun \/ net.run[r].sig = "aborted"
               => \A k \in Callers : ~Answered(call[k])
         /\ \A j \in Callers : call[j].pc \in ReadyCall
               => \A k \in Callers \ {j} : ~Answered(call[k])
  BY DEF ApartInv, AnswerAlone, Answered, Quiet, ReadyCall

\* Calls that are made from scratch.
LEMMA NewCalls ==
  ASSUME NEW g \in Nat, NEW f \in Nat, NEW o \in Nat,
         NEW p \in {"idle", "begin"}, NEW st \in {"none", "target", "read"}
  PROVE  LET x == [NoCall EXCEPT !.pc = p, !.gen = g, !.fact = f, !.of = o,
                                 !.stage = st]
         IN  /\ x \in CallRecords /\ ~Answered(x) /\ x.pc = p /\ x.sent = 0
             /\ x.stage = st /\ x.gen = g /\ x.of = o
  BY DEF NoCall, CallRecords, CallSteps, Answered, NoSession

LEMMA NoCallShape ==
  /\ NoCall \in CallRecords /\ ~Answered(NoCall)
  /\ \A k, e, s, g : CallFits(NoCall, e, s, g) /\ SentFits(k, NoCall)
  BY DEF NoCall, CallRecords, CallSteps, Answered, NoSession, CallFits, SentFits

\* The session probe of a run.
LEMMA ProbeShape ==
  LET x == [NoCall EXCEPT !.pc = "begin"]
  IN  /\ x \in CallRecords /\ ~Answered(x)
      /\ \A k, e, s, g : CallFits(x, e, s, g) /\ SentFits(k, x)
  <1> DEFINE x == [NoCall EXCEPT !.pc = "begin"]
  <1>1. x.pc = "begin" /\ x.sent = 0 /\ x.stage = "none" /\ x \in CallRecords
    BY DEF NoCall, CallRecords, CallSteps, NoSession
  <1> HIDE DEF x
  <1>2. ~Answered(x) /\ \A k, e, s, g : CallFits(x, e, s, g) /\ SentFits(k, x)
    BY <1>1 DEF Answered, CallFits, SentFits
  <1> QED
    BY <1>1, <1>2 DEF x

\* notificationController.invalidate()
LEMMA NotesForgotten ==
  ASSUME NotesInv
  PROVE  LET m == invalidateNotifications(notes)
         IN  /\ m \in Notes /\ m.gen = notes.gen + 1 /\ m.used = notes.used
             /\ notes.gen \in Nat
  <1> DEFINE m == invalidateNotifications(notes)
  <1>1. notes \in Notes /\ notes.gen + 1 \in Nat /\ {} \in SUBSET Nat /\ FALSE \in BOOLEAN
    BY DEF NotesInv, Notes
  <1>2. m = [notes EXCEPT !.gen = @ + 1, !.delivered = {}, !.open = FALSE]
    BY DEF invalidateNotifications
  <1>3. m.gen = notes.gen + 1 /\ m.used = notes.used /\ notes.gen \in Nat
    BY <1>1, <1>2 DEF Notes
  <1>4. m \in Notes
    BY <1>1, <1>2 DEF Notes
  <1> QED
    BY <1>3, <1>4

\* coordinator.refresh() of a session.
LEMMA RefreshAuth ==
  ASSUME AuthInv, auth.session # NoSession
  PROVE  LET a == refresh(auth)
         IN  /\ a \in Auths /\ a.session = auth.session /\ a.status = auth.status
             /\ a.access = auth.access /\ a.of # NoSession
  BY DEF AuthInv, Auths, refresh

\* Nothing but the network coordinator moves.
LEMMA NetMoves ==
  ASSUME ApartInv, UNCHANGED <<auth, epoch, notes>>,
         NetFits(net', epoch, auth.session, auth.status)
  PROVE  Follows
  <1>1. NetFits(net', epoch', auth'.session, auth'.status)
    OBVIOUS
  <1>2. AuthInv' /\ NotesInv'
    BY DEF ApartInv, AuthInv, NotesInv, NotificationsAreOwn
  <1>3. Later
    BY DEF ApartInv, AuthInv, NotesInv, Notes, Later
  <1> QED
    BY <1>1, <1>2, <1>3 DEF Follows, NetInv

\* invalidateNetwork(), together with what becomes of the session.
LEMMA EpochMoves ==
  ASSUME ApartInv, NEW n, NetFits(n, epoch, auth.session, auth.status),
         InvalidateNetwork(n), AuthInv'
  PROVE  Follows
  <1>1. epoch \in Nat /\ epoch' = epoch + 1
    BY DEF ApartInv, AuthInv, InvalidateNetwork
  <1>2. NetFits(net', epoch', auth'.session, auth'.status)
    BY <1>1, HaltFits DEF InvalidateNetwork, invalidate
  <1>3. NotesInv' /\ notes'.gen = notes.gen + 1 /\ notes.gen \in Nat
    BY NotesForgotten DEF InvalidateNetwork, ApartInv, NotesInv, NotificationsAreOwn
  <1>4. Later
    BY <1>1, <1>3 DEF Later
  <1> QED
    BY <1>2, <1>3, <1>4 DEF Follows, NetInv

\* discardLocalSession(), called by run r.
LEMMA DiscardFollows ==
  ASSUME ApartInv, NEW n, NEW r \in Gens, n.run[r].pc # "off",
         NetFits(n, epoch, auth.session, auth.status), Discard(n, r)
  PROVE  Follows
  <1>1. epoch \in Nat /\ epoch' = epoch + 1 /\ auth \in Auths
    BY DEF ApartInv, AuthInv, Discard
  <1>2. /\ auth' = [auth EXCEPT !.status = "unauthenticated", !.session = NoSession,
                            !.access = "none", !.dropped = auth.flight # "none"]
    BY DEF Discard
  <1>3. /\ auth'.status = "unauthenticated" /\ auth'.session = NoSession
        /\ auth'.access = "none" /\ auth'.flight = auth.flight /\ auth'.of = auth.of
        /\ auth' \in Auths
    <2>1. (auth.flight # "none") \in BOOLEAN
      OBVIOUS
    <2> QED
      BY <1>1, <1>2, <2>1 DEF Auths, NoSession, InvalidatingStates
  <1>4. AuthInv'
    BY <1>1, <1>3 DEF AuthInv, ApartInv
  <1> DEFINE h == Halt(n, "idle")
  <1>5. NetFits(h, epoch', auth'.session, auth'.status) /\ h.gen = n.gen + 1
    BY <1>1, HaltFits
  <1>6. net' = [EndRun(h, r) EXCEPT !.status = "reauthorization_required"]
    BY DEF Discard, invalidate
  <1>7. n.gen \in Nat /\ r \in Nat /\ r <= n.gen
    BY GenFacts DEF NetFits, RunFits, Speaking, Silent, Nets
  <1> HIDE DEF h
  <1>8. r # h.gen /\ epoch' \in Nat
    BY <1>1, <1>5, <1>7
  <1>9. NetFits(EndRun(h, r), epoch', auth'.session, auth'.status)
    BY <1>5, <1>8, EndRunFits
  <1>10. NetInv'
    BY <1>6, <1>8, <1>9, StatusFits DEF NetInv
  <1>11. NotesInv' /\ notes'.gen = notes.gen + 1 /\ notes.gen \in Nat
    BY NotesForgotten DEF Discard, ApartInv, NotesInv, NotificationsAreOwn
  <1>12. Later
    BY <1>1, <1>11 DEF Later
  <1> QED
    BY <1>4, <1>10, <1>11, <1>12 DEF Follows

\* The catch block of run().
LEMMA CatchFollows ==
  ASSUME ApartInv, NEW n, NEW r \in Gens, NEW code, n.run[r].pc # "off",
         NetFits(n, epoch, auth.session, auth.status), Catch(n, r, code)
  PROVE  Follows
  <1>1. CASE Discard(n, r)
    BY <1>1, DiscardFollows
  <1>2. CASE net' = Backoff(n, r) /\ UNCHANGED <<auth, epoch, notes>>
    <2>1. epoch \in Nat
      BY DEF ApartInv, AuthInv
    <2> QED
      BY <1>2, <2>1, BackoffFits, NetMoves
  <1> QED
    BY <1>1, <1>2 DEF Catch

-----------------------------------------------------------------------------
\* The runs of the network coordinator.

\* A lease, now or later, is for somebody who is signed in.
LEMMA LeaseFacts ==
  Lease \in {"now", "wait"} => auth.status \in Live /\ auth.session # NoSession
  <1>1. CASE auth.status \notin Live \/ auth.session = NoSession
    BY <1>1 DEF Lease
  <1> QED
    BY <1>1

LEMMA LoopKeeps ==
  ASSUME ApartInv, NEW r \in Gens, Loop(r)
  PROVE  ApartInv'
  <1>0. /\ epoch \in Nat /\ auth.session \in Nat /\ net.run[r].pc = "loop"
        /\ NetFits(net, epoch, auth.session, auth.status)
        /\ call' = call /\ epoch' = epoch /\ notes' = notes
    BY DEF ApartInv, AuthInv, Auths, NetInv, Loop
  <1>1. \A k \in Callers : ~Answered(call[k])
    BY <1>0, NoneAnswered DEF ReadyRun
  <1> DEFINE k == NewController(net)
             n == [k EXCEPT !.status = "connecting"]
             x == [NoRun EXCEPT !.pc = "lease", !.epoch = epoch]
  <1>2. /\ NetFits(n, epoch, auth.session, auth.status)
        /\ n.run[r].pc = "loop" /\ n.status = "connecting"
    <2>1. NetFits(k, epoch, auth.session, auth.status) /\ k.run[r].pc = "loop"
      BY <1>0, NewControllerFits
    <2> HIDE DEF k
    <2> QED
      BY <1>0, <2>1, StatusFits
  <1>3. \/ net' = EndRun(net, r) /\ auth' = auth /\ r # net.gen
        \/ net' = Backoff(n, r) /\ auth' = auth
        \/ net' = Subscribe(n, r) /\ auth' = auth /\ Lease = "now"
        \/ net' = [n EXCEPT !.run[r] = x] /\ auth' = refresh(auth) /\ Lease = "wait"
    <2>1. r # net.gen \/ ~net.suspended
      BY <1>0 DEF NetFits, RunFits
    <2> QED
      BY <2>1 DEF Loop, Lease
  <1> HIDE DEF n
  <1>4. x \in RunRecords /\ x.pc = "lease"
    BY <1>0 DEF NoRun, RunRecords, RunSteps, NoSession, Reasons
  <1> HIDE DEF x
  <1>5. Follows
    <2>1. CASE net' = EndRun(net, r) /\ auth' = auth /\ r # net.gen
      BY <1>0, <1>3, <2>1, EndRunFits, NetMoves
    <2>2. CASE net' = Backoff(n, r) /\ auth' = auth
      BY <1>0, <1>2, <2>2, BackoffFits, NetMoves
    <2>3. CASE net' = Subscribe(n, r) /\ auth' = auth /\ Lease = "now"
      <3>1. auth.status \in Live /\ auth.session # NoSession
        BY <2>3, LeaseFacts
      <3> QED
        BY <1>0, <1>2, <2>3, <3>1, SubscribeFits, NetMoves
    <2>4. CASE net' = [n EXCEPT !.run[r] = x] /\ auth' = refresh(auth) /\ Lease = "wait"
      <3>1. auth.session # NoSession
        BY <2>4, LeaseFacts
      <3>2. /\ auth' \in Auths /\ auth'.session = auth.session
            /\ auth'.status = auth.status /\ auth'.access = auth.access
            /\ auth'.of # NoSession
        BY <2>4, <3>1, RefreshAuth DEF ApartInv
      <3>3. AuthInv'
        BY <1>0, <3>2 DEF ApartInv, AuthInv
      <3>4. NetFits(net', epoch, auth.session, auth.status)
        BY <1>0, <1>2, <1>4, <2>4, RunSet DEF Speaking, Silent
      <3>5. NotesInv' /\ Later
        BY <1>0, <3>2 DEF ApartInv, NotesInv, NotificationsAreOwn, Notes, Later
      <3> QED
        BY <1>0, <3>2, <3>3, <3>4, <3>5 DEF Follows, NetInv
    <2> QED
      BY <1>3, <2>1, <2>2, <2>3, <2>4
  <1> QED
    BY <1>0, <1>1, <1>5, CallsStay

LEMMA LeasedKeeps ==
  ASSUME ApartInv, NEW r \in Gens, Leased(r)
  PROVE  ApartInv'
  <1>0. /\ epoch \in Nat /\ auth.session \in Nat /\ net.run[r].pc = "leased"
        /\ NetFits(net, epoch, auth.session, auth.status) /\ call' = call
    BY DEF ApartInv, AuthInv, Auths, NetInv, Leased
  <1>1. \A k \in Callers : ~Answered(call[k])
    BY <1>0, NoneAnswered DEF ReadyRun
  <1>2. Follows
    <2>1. CASE \E code : Catch(net, r, code)
      BY <1>0, <2>1, CatchFollows
    <2>2. CASE /\ auth.access = "fresh"
               /\ net' = Subscribe(net, r) /\ UNCHANGED <<auth, epoch, notes>>
      <3>1. auth.status \in Live /\ auth.session # NoSession
        BY <2>2 DEF ApartInv, AuthInv
      <3> QED
        BY <1>0, <2>2, <3>1, SubscribeFits, NetMoves
    <2> QED
      BY <2>1, <2>2 DEF Leased
  <1> QED
    BY <1>0, <1>1, <1>2, CallsStay

LEMMA AbortedKeeps ==
  ASSUME ApartInv, NEW r \in Gens, RunAborted(r)
  PROVE  ApartInv'
  <1>0. /\ epoch \in Nat /\ net.run[r].sig = "aborted"
        /\ NetFits(net, epoch, auth.session, auth.status) /\ call' = call
        /\ UNCHANGED <<auth, epoch, notes>> /\ net.run[r].pc # "off"
    BY DEF ApartInv, AuthInv, Auths, NetInv, NetFits, RunFits, Speaking, Silent, RunAborted
  <1>1. \A k \in Callers : ~Answered(call[k])
    BY <1>0, NoneAnswered
  <1>2. \/ net.run[r].pc = "backoff" /\ net' = EndRun(net, r)
        \/ net' = Backoff(Abort(net), r)
    BY DEF RunAborted
  <1>3. NetFits(EndRun(net, r), epoch, auth.session, auth.status)
           \/ net.run[r].pc # "backoff"
    BY <1>0, EndRunFits DEF NetFits, Silent
  <1>4. NetFits(Backoff(Abort(net), r), epoch, auth.session, auth.status)
    <2>1. NetFits(Abort(net), epoch, auth.session, auth.status)
             /\ Abort(net).run[r].pc # "off"
      BY <1>0, AbortFits
    <2> QED
      BY <1>0, <2>1, BackoffFits
  <1>5. Follows
    BY <1>0, <1>2, <1>3, <1>4, NetMoves
  <1> QED
    BY <1>0, <1>1, <1>5, CallsStay

LEMMA WakeUpKeeps ==
  ASSUME ApartInv, NEW r \in Gens, WakeUp(r)
  PROVE  ApartInv'
  <1>0. /\ epoch \in Nat /\ net.run[r].pc = "backoff" /\ Quiet
        /\ NetFits(net, epoch, auth.session, auth.status) /\ call' = call
        /\ UNCHANGED <<auth, epoch, notes>>
    BY DEF ApartInv, AuthInv, Auths, NetInv, WakeUp
  <1>1. \A k \in Callers : ~Answered(call[k])
    BY <1>0, NoneAnswered
  <1> DEFINE x == [net.run[r] EXCEPT !.pc = "loop"]
  <1>2. net.run[r] \in RunRecords /\ net \in Nets
    BY <1>0 DEF NetFits, Nets
  <1>3. x \in RunRecords /\ x.pc = "loop"
    BY <1>2 DEF RunRecords, RunSteps
  <1>4. net' = [net EXCEPT !.run[r] = x]
    BY <1>2 DEF WakeUp, Nets
  <1> HIDE DEF x
  <1>5. net.status # "online" \/ r # net.gen
    BY <1>0 DEF NetFits, Speaking, Silent
  <1>6. NetFits(net', epoch, auth.session, auth.status)
    BY <1>0, <1>3, <1>4, <1>5, RunSet DEF Speaking, Silent
  <1> QED
    BY <1>0, <1>1, <1>6, NetMoves, CallsStay

\* A run goes on to its probe.
LEMMA StartProbeFollows ==
  ASSUME ApartInv, NEW n, NEW r \in Gens, NEW why \in Reasons,
         NetFits(n, epoch, auth.session, auth.status),
         n.run[r].pc \in Speaking, UNCHANGED <<auth, epoch, notes>>,
         StartProbe(n, r, why), \A k \in Callers : ~Answered(call[k])
  PROVE  ApartInv'
  <1> DEFINE x == [n.run[r] EXCEPT !.pc = "probe", !.sig = "none", !.why = why]
             c == [NoCall EXCEPT !.pc = "begin"]
  <1>0. epoch \in Nat /\ n \in Nets /\ n.run[r] \in RunRecords /\ r \in Callers
    BY GenFacts DEF ApartInv, AuthInv, NetFits, Nets
  <1>1. x \in RunRecords /\ x.pc = "probe"
    BY <1>0 DEF RunRecords, RunSteps
  <1>2. net' = [n EXCEPT !.run[r] = x] /\ call' = [call EXCEPT ![r] = c]
    BY <1>0 DEF StartProbe, Nets
  <1>3. r = n.gen => auth.status \in Live
    BY DEF NetFits, RunFits
  <1> HIDE DEF x
  <1>4. NetFits(net', epoch, auth.session, auth.status)
    BY <1>0, <1>1, <1>2, <1>3, RunSet DEF Speaking, Silent
  <1>5. Follows
    BY <1>4, NetMoves
  <1>6. c \in CallRecords /\ ~Answered(c) /\ SentFits(r, c)
           /\ CallFits(c, epoch', auth'.session, notes'.gen)
    BY ProbeShape
  <1> HIDE DEF c
  <1> QED
    BY <1>0, <1>2, <1>5, <1>6, OneCallGoesOn

LEMMA ControlKeeps ==
  ASSUME ApartInv, NEW r \in Gens, Control(r)
  PROVE  ApartInv'
  <1>0. /\ epoch \in Nat /\ Quiet /\ net.run[r].pc = "stream" /\ r = net.gen
        /\ NetFits(net, epoch, auth.session, auth.status) /\ net \in Nets
        /\ UNCHANGED <<auth, epoch, notes>> /\ notes.gen \in Nat
        /\ net.run[r] \in RunRecords /\ net.run[r].epoch \in Nat
    BY DEF ApartInv, AuthInv, NetInv, NetFits, Nets, RunRecords, Control, NotesInv, Notes
  <1>1. \A k \in Callers : ~Answered(call[k])
    BY <1>0, NoneAnswered
  <1> DEFINE m == [net EXCEPT !.status = "online"]
  <1>2. /\ m \in Nets /\ m.gen = net.gen /\ m.run = net.run
        /\ m.running = net.running /\ m.suspended = net.suspended
    BY <1>0 DEF Nets
  <1>3. net' = m
    BY DEF Control
  <1> HIDE DEF m
  <1>4. NetFits(m, epoch, auth.session, auth.status)
    <2>1. \A q \in Gens : RunFits(m, q, epoch, auth.session, auth.status)
      BY <1>0, <1>2 DEF NetFits, RunFits
    <2>2. auth.status \in Live
      BY <1>0 DEF NetFits, RunFits, Speaking
    <2> QED
      BY <1>0, <1>2, <2>1, <2>2 DEF NetFits, Silent
  <1>5. Follows
    BY <1>0, <1>3, <1>4, NetMoves
  <1> DEFINE x == [NoCall EXCEPT !.pc = "begin", !.gen = notes.gen,
                                 !.fact = net.run[r].epoch]
  <1>6. x.pc = "begin" /\ x.sent = 0 /\ x.stage = "none" /\ x \in CallRecords
    BY <1>0 DEF NoCall, CallRecords, CallSteps, NoSession
  <1>7. call' = call \/ call' = [call EXCEPT ![ListCall] = x]
    BY DEF Control, HandleFact
  <1> HIDE DEF x
  <1>8. /\ ~Answered(x) /\ CallFits(x, epoch', auth'.session, notes'.gen)
        /\ SentFits(ListCall, x) /\ ListCall \in Callers
    BY <1>6, GenFacts DEF Answered, CallFits, SentFits
  <1> QED
    BY <1>1, <1>5, <1>6, <1>7, <1>8, CallsStay, OneCallGoesOn

LEMMA StreamEndsKeeps ==
  ASSUME ApartInv, NEW r \in Gens,
         NEW how \in {"eof", "unauthorized", "invalid", "network"}, StreamEnds(r, how)
  PROVE  ApartInv'
  <1> DEFINE n == Abort(net)
  <1>0. /\ epoch \in Nat /\ Quiet /\ net.run[r].pc = "stream"
        /\ NetFits(net, epoch, auth.session, auth.status)
    BY DEF ApartInv, AuthInv, NetInv, StreamEnds
  <1>1. \A k \in Callers : ~Answered(call[k])
    BY <1>0, NoneAnswered
  <1>2. NetFits(n, epoch, auth.session, auth.status) /\ n.run[r].pc = "stream"
    BY <1>0, AbortFits
  <1>3. \/ StartProbe(n, r, how) /\ UNCHANGED <<auth, epoch, notes>>
              /\ how \in {"eof", "unauthorized"}
        \/ call' = call /\ \E code : Catch(n, r, code)
    BY DEF StreamEnds
  <1> HIDE DEF n
  <1>4. CASE StartProbe(n, r, how) /\ UNCHANGED <<auth, epoch, notes>>
                /\ how \in {"eof", "unauthorized"}
    BY <1>1, <1>2, <1>4, StartProbeFollows DEF Speaking, Silent, Reasons
  <1>5. CASE call' = call /\ \E code : Catch(n, r, code)
    BY <1>1, <1>2, <1>5, CatchFollows, CallsStay
  <1> QED
    BY <1>3, <1>4, <1>5

LEMMA StreamExpiresKeeps ==
  ASSUME ApartInv, NEW r \in Gens, StreamExpires(r)
  PROVE  ApartInv'
  <1> DEFINE n == Abort(net)
             x == [n.run[r] EXCEPT !.pc = "refresh", !.sig = "none"]
             m == [n EXCEPT !.run[r] = x]
  <1>0. /\ epoch \in Nat /\ Quiet /\ net.run[r].pc = "stream" /\ call' = call
        /\ NetFits(net, epoch, auth.session, auth.status)
    BY DEF ApartInv, AuthInv, NetInv, StreamExpires
  <1>1. \A k \in Callers : ~Answered(call[k])
    BY <1>0, NoneAnswered
  <1>2. /\ NetFits(n, epoch, auth.session, auth.status)
        /\ n.run[r].pc = "stream" /\ n.run[r].epoch = net.run[r].epoch
        /\ n.gen = net.gen
    BY <1>0, AbortFits
  <1>3. n \in Nets /\ n.run[r] \in RunRecords
    BY <1>2 DEF NetFits, Nets
  <1>4. \/ net' = Backoff(n, r) /\ UNCHANGED <<auth, epoch, notes>>
        \/ /\ net.run[r].epoch = epoch /\ r = net.gen
           /\ InvalidateNetwork(m) /\ auth' = refresh(auth)
    BY <1>3 DEF StreamExpires, Nets
  <1> HIDE DEF n
  <1>5. x \in RunRecords /\ x.pc = "refresh"
    BY <1>3 DEF RunRecords, RunSteps
  <1> HIDE DEF x
  <1>6. CASE net' = Backoff(n, r) /\ UNCHANGED <<auth, epoch, notes>>
    BY <1>0, <1>1, <1>2, <1>6, BackoffFits, NetMoves, CallsStay
  <1>7. CASE /\ net.run[r].epoch = epoch /\ r = net.gen
             /\ InvalidateNetwork(m) /\ auth' = refresh(auth)
    <2>1. auth.session # NoSession /\ auth.status \in Live
      BY <1>2, <1>7 DEF NetFits, RunFits, Speaking, Silent
    <2>2. NetFits(m, epoch, auth.session, auth.status)
      BY <1>0, <1>2, <1>5, <2>1, RunSet DEF Speaking, Silent
    <2>3. /\ auth' \in Auths /\ auth'.session = auth.session
          /\ auth'.status = auth.status /\ auth'.access = auth.access
          /\ auth'.of # NoSession
      BY <1>7, <2>1, RefreshAuth DEF ApartInv
    <2>4. AuthInv'
      BY <1>0, <1>7, <2>3 DEF ApartInv, AuthInv, InvalidateNetwork
    <2> QED
      BY <1>0, <1>1, <1>7, <2>2, <2>4, EpochMoves, CallsStay
  <1> QED
    BY <1>4, <1>6, <1>7

LEMMA RefreshedKeeps ==
  ASSUME ApartInv, NEW r \in Gens, Refreshed(r)
  PROVE  ApartInv'
  <1>0. /\ net.run[r].pc = "refreshed"
        /\ NetFits(net, epoch, auth.session, auth.status)
    BY DEF ApartInv, NetInv, Refreshed
  <1>1. \A k \in Callers : ~Answered(call[k])
    BY <1>0, NoneAnswered DEF ReadyRun
  <1>2. CASE StartProbe(net, r, "expiry") /\ UNCHANGED <<auth, epoch, notes>>
    BY <1>0, <1>1, <1>2, StartProbeFollows DEF Speaking, Silent, Reasons
  <1>3. CASE call' = call /\ \E code : Catch(net, r, code)
    BY <1>0, <1>1, <1>3, CatchFollows, CallsStay
  <1> QED
    BY <1>2, <1>3 DEF Refreshed

\* The verdict of a probe.
LEMMA ProbedKeeps ==
  ASSUME ApartInv, NEW r \in Gens, Probed(r)
  PROVE  ApartInv'
  <1> DEFINE x == [NoRun EXCEPT !.pc = "loop"]
  <1>0. /\ net.run[r].pc = "probe" /\ call[r].pc = "done" /\ epoch \in Nat
        /\ NetFits(net, epoch, auth.session, auth.status) /\ r \in Callers
        /\ call' = [call EXCEPT ![r] = NoCall]
    BY GenFacts DEF ApartInv, AuthInv, NetInv, Probed
  <1>1. \A k \in Callers \ {r} : ~Answered(call[k])
    BY <1>0, NoneAnswered DEF ReadyCall
  <1>2. \/ Discard(net, r)
        \/ /\ net' = [net EXCEPT !.run[r] = x] /\ UNCHANGED <<auth, epoch, notes>>
           /\ net.run[r].why = "expiry"
        \/ \E code : Catch(net, r, code)
    BY DEF Probed
  <1>3. x \in RunRecords /\ x.pc = "loop"
    BY RunShapes DEF RunSteps
  <1> HIDE DEF x
  <1>4. Follows
    <2>1. CASE Discard(net, r)
      BY <1>0, <2>1, DiscardFollows
    <2>2. CASE \E code : Catch(net, r, code)
      BY <1>0, <2>2, CatchFollows
    <2>3. CASE /\ net' = [net EXCEPT !.run[r] = x] /\ UNCHANGED <<auth, epoch, notes>>
               /\ net.run[r].why = "expiry"
      <3>1. NetFits(net', epoch, auth.session, auth.status)
        BY <1>0, <1>3, <2>3, RunSet DEF Silent, Speaking
      <3> QED
        BY <2>3, <3>1, NetMoves
    <2> QED
      BY <1>2, <2>1, <2>2, <2>3
  <1> QED
    BY <1>0, <1>1, <1>4, NoCallShape, OneCallGoesOn

-----------------------------------------------------------------------------
\* REST calls.

\* What becomes of a call's record.
LEMMA CallShapes ==
  ASSUME ApartInv, NEW k \in Callers
  PROVE  /\ call[k] \in CallRecords
         /\ \A o \in {"revoked", "error", "ok"} :
              LET x == Done(k, o)
              IN  /\ x \in CallRecords /\ x.pc = "done" /\ x.out = o
                  /\ x.stage = call[k].stage /\ x.gen = call[k].gen
                  /\ x.of = call[k].of /\ x.sent = call[k].sent
                  /\ x.epoch = call[k].epoch /\ x.session = call[k].session
         /\ LET x == Fetching(k)
            IN  /\ x \in CallRecords /\ x.pc = "fetch" /\ x.epoch = epoch
                /\ x.session = auth.session /\ x.sent = call[k].sent + 1
                /\ x.stage = call[k].stage /\ x.gen = call[k].gen
                /\ x.of = call[k].of
         /\ LET x == [call[k] EXCEPT !.pc = "lease", !.epoch = epoch]
            IN  /\ x \in CallRecords /\ x.pc = "lease"
                /\ x.stage = call[k].stage /\ x.gen = call[k].gen
                /\ x.of = call[k].of /\ x.sent = call[k].sent
         /\ LET x == [call[k] EXCEPT !.pc = "refresh"]
            IN  /\ x \in CallRecords /\ x.pc = "refresh"
                /\ x.stage = call[k].stage /\ x.gen = call[k].gen
                /\ x.of = call[k].of /\ x.sent = call[k].sent
  <1>1. call[k] \in CallRecords /\ epoch \in Nat /\ auth.session \in Nat
    BY DEF ApartInv, CallInv, AuthInv, Auths
  <1>2. call[k].sent + 1 \in Nat
    BY <1>1 DEF CallRecords
  <1>3. ASSUME NEW o \in {"revoked", "error", "ok"}
        PROVE  LET x == Done(k, o)
               IN  /\ x \in CallRecords /\ x.pc = "done" /\ x.out = o
                   /\ x.stage = call[k].stage /\ x.gen = call[k].gen
                   /\ x.of = call[k].of /\ x.sent = call[k].sent
                   /\ x.epoch = call[k].epoch /\ x.session = call[k].session
    BY <1>1, <1>3 DEF Done, CallRecords, CallSteps
  <1>4. LET x == Fetching(k)
        IN  /\ x \in CallRecords /\ x.pc = "fetch" /\ x.epoch = epoch
            /\ x.session = auth.session /\ x.sent = call[k].sent + 1
            /\ x.stage = call[k].stage /\ x.gen = call[k].gen
            /\ x.of = call[k].of
    BY <1>1, <1>2 DEF Fetching, CallRecords, CallSteps
  <1>5. LET x == [call[k] EXCEPT !.pc = "lease", !.epoch = epoch]
        IN  /\ x \in CallRecords /\ x.pc = "lease"
            /\ x.stage = call[k].stage /\ x.gen = call[k].gen
            /\ x.of = call[k].of /\ x.sent = call[k].sent
    BY <1>1 DEF CallRecords, CallSteps
  <1>6. LET x == [call[k] EXCEPT !.pc = "refresh"]
        IN  /\ x \in CallRecords /\ x.pc = "refresh"
            /\ x.stage = call[k].stage /\ x.gen = call[k].gen
            /\ x.of = call[k].of /\ x.sent = call[k].sent
    BY <1>1 DEF CallRecords, CallSteps
  <1> QED
    BY <1>1, <1>3, <1>4, <1>5, <1>6

\* Such a record fits what comes later, but for its answer.
LEMMA MovedCallFits ==
  ASSUME ApartInv, Later, NEW k \in Callers, NEW x,
         x.stage = call[k].stage, x.gen = call[k].gen, x.of = call[k].of,
         ~Answered(x), x.pc = "fetch" => /\ x.session # NoSession
                                         /\ x.session = auth'.session
                                         /\ x.epoch = epoch'
  PROVE  CallFits(x, epoch', auth'.session, notes'.gen)
  <1>1. /\ call[k] \in CallRecords /\ call[k].gen \in Nat /\ notes.gen \in Nat
        /\ CallFits(call[k], epoch, auth.session, notes.gen)
    BY DEF ApartInv, CallInv, CallRecords, NotesInv, Notes
  <1> QED
    BY <1>1 DEF CallFits, Answered, Later

\* Only the credential coordinator may move, to a refresh.
LEMMA RefreshFollows ==
  ASSUME ApartInv, UNCHANGED <<epoch, net, notes>>,
         auth' = auth \/ (auth.session # NoSession /\ auth' = refresh(auth))
  PROVE  Follows /\ auth'.session = auth.session
  <1>1. /\ auth' \in Auths /\ auth'.session = auth.session
        /\ auth'.status = auth.status /\ auth'.access = auth.access
        /\ auth'.flight # "none" => auth'.of # NoSession
    BY RefreshAuth DEF ApartInv, AuthInv
  <1>2. AuthInv'
    BY <1>1 DEF ApartInv, AuthInv
  <1>3. NetInv'
    BY <1>1 DEF ApartInv, NetInv
  <1>4. NotesInv' /\ Later
    BY <1>1 DEF ApartInv, AuthInv, NotesInv, NotificationsAreOwn, Notes, Later
  <1> QED
    BY <1>1, <1>2, <1>3, <1>4 DEF Follows

LEMMA BeginKeeps ==
  ASSUME ApartInv, NEW k \in Callers, Begin(k) \/ CallLeased(k)
  PROVE  ApartInv'
  <1>0. /\ call[k].pc \in {"begin", "leased"} /\ SentFits(k, call[k])
        /\ UNCHANGED <<epoch, net, notes>> /\ call[k].sent \in Nat
        /\ call \in [Callers -> CallRecords]
    BY DEF ApartInv, CallInv, CallRecords, Begin, CallLeased
  <1>1. \A j \in Callers \ {k} : ~Answered(call[j])
    BY <1>0, NoneAnswered DEF ReadyCall
  <1>2. /\ auth' = auth \/ (auth.session # NoSession /\ auth' = refresh(auth))
        /\ \/ call' = [call EXCEPT ![k] = Done(k, "error")]
           \/ call' = [call EXCEPT ![k] = Fetching(k)] /\ auth.session # NoSession
           \/ call' = [call EXCEPT ![k] = [call[k] EXCEPT !.pc = "lease", !.epoch = epoch]]
    <2>1. CASE Begin(k)
      BY <1>0, <2>1, LeaseFacts DEF Begin, Lease
    <2>2. CASE CallLeased(k)
      BY <1>0, <2>2 DEF CallLeased, ApartInv, AuthInv
    <2> QED
      BY <2>1, <2>2
  <1>3. Follows /\ auth'.session = auth.session /\ Later
    BY <1>0, <1>2, RefreshFollows DEF Follows
  <1>4. CASE call' = [call EXCEPT ![k] = Done(k, "error")]
    <2> DEFINE x == Done(k, "error")
    <2>1. /\ x \in CallRecords /\ x.pc = "done" /\ x.out = "error"
          /\ x.stage = call[k].stage /\ x.gen = call[k].gen /\ x.of = call[k].of
          /\ x.sent = call[k].sent
      BY CallShapes
    <2>2. call' = [call EXCEPT ![k] = x]
      BY <1>4
    <2> HIDE DEF x
    <2>3. ~Answered(x) /\ SentFits(k, x)
      BY <1>0, <2>1 DEF Answered, SentFits
    <2> QED
      BY <1>1, <1>3, <2>1, <2>2, <2>3, MovedCallFits, OneCallGoesOn
  <1>5. CASE call' = [call EXCEPT ![k] = Fetching(k)] /\ auth.session # NoSession
    <2> DEFINE x == Fetching(k)
    <2>1. /\ x \in CallRecords /\ x.pc = "fetch" /\ x.epoch = epoch
          /\ x.session = auth.session /\ x.sent = call[k].sent + 1
          /\ x.stage = call[k].stage /\ x.gen = call[k].gen /\ x.of = call[k].of
      BY CallShapes
    <2>2. call' = [call EXCEPT ![k] = x]
      BY <1>5
    <2> HIDE DEF x
    <2>3. ~Answered(x) /\ SentFits(k, x)
      BY <1>0, <2>1 DEF Answered, SentFits
    <2> QED
      BY <1>0, <1>1, <1>3, <1>5, <2>1, <2>2, <2>3, MovedCallFits, OneCallGoesOn
  <1>6. CASE call' = [call EXCEPT ![k] = [call[k] EXCEPT !.pc = "lease", !.epoch = epoch]]
    <2> DEFINE x == [call[k] EXCEPT !.pc = "lease", !.epoch = epoch]
    <2>1. /\ x \in CallRecords /\ x.pc = "lease"
          /\ x.stage = call[k].stage /\ x.gen = call[k].gen /\ x.of = call[k].of
          /\ x.sent = call[k].sent
      BY CallShapes
    <2>2. call' = [call EXCEPT ![k] = x]
      BY <1>6
    <2> HIDE DEF x
    <2>3. ~Answered(x) /\ SentFits(k, x)
      BY <1>0, <2>1 DEF Answered, SentFits
    <2> QED
      BY <1>1, <1>3, <2>1, <2>2, <2>3, MovedCallFits, OneCallGoesOn
  <1> QED
    BY <1>2, <1>4, <1>5, <1>6

\* An answer arrives when nothing else is ready.
LEMMA AnswerKeeps ==
  ASSUME ApartInv, NEW k \in Callers,
         NEW how \in {"ok", "revoked", "expire", "network"}, Answer(k, how)
  PROVE  ApartInv'
  <1>0. /\ call[k].pc = "fetch" /\ Quiet /\ SentFits(k, call[k])
        /\ call \in [Callers -> CallRecords] /\ epoch \in Nat
        /\ CallFits(call[k], epoch, auth.session, notes.gen)
        /\ NetFits(net, epoch, auth.session, auth.status)
    BY DEF ApartInv, CallInv, AuthInv, NetInv, Answer
  <1>1. \A j \in Callers : ~Answered(call[j])
    BY <1>0, NoneAnswered
  <1>2. \/ /\ call[k].epoch = epoch /\ Idempotent(k)
           /\ call' = [call EXCEPT ![k].pc = "refresh"]
           /\ InvalidateNetwork(net) /\ auth' = refresh(auth)
        \/ /\ \/ call' = [call EXCEPT ![k] = Done(k, "error")]
              \/ call' = [call EXCEPT ![k] = Done(k, "revoked")]
              \/ call' = [call EXCEPT ![k] = Done(k, "ok")] /\ call[k].epoch = epoch
           /\ UNCHANGED <<auth, epoch, net, notes>>
    BY DEF Answer, withAccessLease
  <1>3. CASE /\ call[k].epoch = epoch /\ Idempotent(k)
             /\ call' = [call EXCEPT ![k].pc = "refresh"]
             /\ InvalidateNetwork(net) /\ auth' = refresh(auth)
    <2> DEFINE x == [call[k] EXCEPT !.pc = "refresh"]
    <2>1. /\ x \in CallRecords /\ x.pc = "refresh"
          /\ x.stage = call[k].stage /\ x.gen = call[k].gen /\ x.of = call[k].of
          /\ x.sent = call[k].sent
      BY CallShapes
    <2>2. call' = [call EXCEPT ![k] = x]
      BY <1>3
    <2> HIDE DEF x
    <2>3. ~Answered(x) /\ SentFits(k, x)
      BY <1>3, <2>1 DEF Answered, SentFits, Idempotent
    <2>4. auth.session # NoSession
      BY <1>0, <1>3 DEF CallFits
    <2>5. /\ auth' \in Auths /\ auth'.session = auth.session
          /\ auth'.status = auth.status /\ auth'.access = auth.access
          /\ auth'.of # NoSession
      BY <1>3, <2>4, RefreshAuth DEF ApartInv
    <2>6. AuthInv'
      BY <1>0, <1>3, <2>5 DEF ApartInv, AuthInv, InvalidateNetwork
    <2>7. Follows /\ Later
      BY <1>0, <1>3, <2>6, EpochMoves DEF Follows
    <2> QED
      BY <1>1, <2>1, <2>2, <2>3, <2>7, MovedCallFits, OneCallGoesOn
  <1>4. ASSUME NEW o \in {"error", "revoked"},
               call' = [call EXCEPT ![k] = Done(k, o)],
               UNCHANGED <<auth, epoch, net, notes>>
        PROVE  ApartInv'
    <2> DEFINE x == Done(k, o)
    <2>0. o \in {"revoked", "error", "ok"}
      OBVIOUS
    <2>1. /\ x \in CallRecords /\ x.pc = "done" /\ x.out = o
          /\ x.stage = call[k].stage /\ x.gen = call[k].gen /\ x.of = call[k].of
          /\ x.sent = call[k].sent
      BY <2>0, CallShapes
    <2>2. call' = [call EXCEPT ![k] = x]
      BY <1>4
    <2> HIDE DEF x
    <2>3. ~Answered(x) /\ SentFits(k, x)
      BY <1>0, <2>1 DEF Answered, SentFits
    <2>4. Follows /\ Later
      BY <1>0, <1>4, NetMoves DEF Follows
    <2> QED
      BY <1>1, <2>1, <2>2, <2>3, <2>4, MovedCallFits, OneCallGoesOn
  <1>5. CASE /\ call' = [call EXCEPT ![k] = Done(k, "ok")] /\ call[k].epoch = epoch
             /\ UNCHANGED <<auth, epoch, net, notes>>
    <2> DEFINE x == Done(k, "ok")
    <2>1. /\ x \in CallRecords /\ x.pc = "done" /\ x.out = "ok"
          /\ x.stage = call[k].stage /\ x.gen = call[k].gen /\ x.of = call[k].of
          /\ x.sent = call[k].sent /\ x.epoch = call[k].epoch
          /\ x.session = call[k].session
      BY CallShapes
    <2>2. call' = [call EXCEPT ![k] = x]
      BY <1>5
    <2> HIDE DEF x
    <2>3. SentFits(k, x) /\ CallFits(x, epoch, auth.session, notes.gen)
      BY <1>0, <1>5, <2>1 DEF SentFits, CallFits
    <2>4. Follows
      BY <1>0, <1>5, NetMoves
    <2>5. call' \in [Callers -> CallRecords] /\ call'[k] = x
             /\ \A j \in Callers \ {k} : call'[j] = call[j]
      BY <1>0, <2>1, <2>2
    <2>6. CallInv'
      BY <1>5, <2>3, <2>5 DEF ApartInv, CallInv
    <2>7. AnswerAlone'
      <3>1. \A j \in Callers : Answered(call'[j]) => j = k
        BY <1>1, <2>5
      <3>2. /\ \A j \in Callers \ {k} : call'[j].pc \notin ReadyCall
            /\ \A r \in Gens : /\ net'.run[r].pc \notin ReadyRun
                               /\ net'.run[r].sig # "aborted"
        BY <1>0, <1>5, <2>5 DEF Quiet
      <3> QED
        BY <3>1, <3>2 DEF AnswerAlone, Answered
    <2> QED
      BY <2>4, <2>6, <2>7 DEF ApartInv, Follows
  <1> QED
    BY <1>2, <1>3, <1>4, <1>5

-----------------------------------------------------------------------------
\* Notifications and the renderer.

LEMMA UsedShape ==
  ASSUME NotesInv, NEW a \in Nat, NEW m,
         \/ m = [notes EXCEPT !.used = [by |-> a, of |-> a]]
         \/ \E f \in Nat : m = [notes EXCEPT !.delivered = @ \cup {f}, !.open = TRUE,
                                             !.used = [by |-> a, of |-> a]]
  PROVE  m \in Notes /\ m.used.by = m.used.of /\ m.gen = notes.gen /\ notes.gen \in Nat
  <1>0. notes \in Notes /\ notes.gen \in Nat /\ TRUE \in BOOLEAN
    BY DEF NotesInv, Notes
  <1> DEFINE u == [by |-> a, of |-> a]
  <1>1. u \in [by : Nat, of : Nat] /\ u.by = u.of
    OBVIOUS
  <1>2. CASE m = [notes EXCEPT !.used = u]
    <2> HIDE DEF u
    <2> QED
      BY <1>0, <1>1, <1>2 DEF Notes
  <1>3. ASSUME NEW f \in Nat,
               m = [notes EXCEPT !.delivered = @ \cup {f}, !.open = TRUE, !.used = u]
        PROVE  m \in Notes /\ m.used.by = m.used.of /\ m.gen = notes.gen
    <2>1. notes.delivered \cup {f} \in SUBSET Nat
      BY <1>0 DEF Notes
    <2> HIDE DEF u
    <2>2. m.used = u /\ m.gen = notes.gen
      BY <1>0, <1>3 DEF Notes
    <2>3. m \in Notes
      BY <1>0, <1>1, <1>3, <2>1 DEF Notes
    <2> QED
      BY <1>1, <2>2, <2>3
  <1> QED
    BY <1>0, <1>2, <1>3

\* Only the notification controller moves.
LEMMA NotesMove ==
  ASSUME ApartInv, UNCHANGED <<auth, epoch, net>>,
         notes' \in Notes, notes'.used.by = notes'.used.of, notes'.gen = notes.gen
  PROVE  Follows
  <1>1. AuthInv' /\ NetInv'
    BY DEF ApartInv, AuthInv, NetInv
  <1>2. NotesInv' /\ Later
    BY DEF ApartInv, AuthInv, NotesInv, NotificationsAreOwn, Notes, Later
  <1> QED
    BY <1>1, <1>2 DEF Follows

LEMMA ListDoneKeeps ==
  ASSUME ApartInv, ListDone
  PROVE  ApartInv'
  <1> DEFINE c == call[ListCall]
  <1>0. /\ c.pc = "done" /\ ListCall \in Callers /\ c \in CallRecords /\ c.fact \in Nat
        /\ CallFits(c, epoch, auth.session, notes.gen) /\ auth.session \in Nat
        /\ UNCHANGED <<auth, epoch, net>> /\ call' = [call EXCEPT ![ListCall] = NoCall]
    BY GenFacts DEF ApartInv, CallInv, AuthInv, Auths, CallRecords, ListDone
  <1>1. \A j \in Callers \ {ListCall} : ~Answered(call[j])
    BY <1>0, NoneAnswered DEF ReadyCall
  <1>2. \/ notes' = notes
        \/ /\ c.out = "ok"
           /\ notes' = [notes EXCEPT !.delivered = @ \cup {c.fact}, !.open = TRUE,
                                     !.used = [by |-> auth.session, of |-> c.session]]
    BY DEF ListDone
  <1>3. c.out = "ok" => c.session = auth.session
    BY <1>0 DEF CallFits
  <1>4. /\ notes' \in Notes /\ notes'.used.by = notes'.used.of
        /\ notes'.gen = notes.gen
    <2>1. CASE notes' = notes
      BY <2>1 DEF ApartInv, NotesInv, NotificationsAreOwn
    <2>2. CASE notes' # notes
      <3>1. notes' = [notes EXCEPT !.delivered = @ \cup {c.fact}, !.open = TRUE,
                                   !.used = [by |-> auth.session,
                                             of |-> auth.session]]
        BY <1>2, <1>3, <2>2
      <3>2. NotesInv
        BY DEF ApartInv
      <3> HIDE DEF c
      <3> QED
        BY <1>0, <3>1, <3>2, UsedShape
    <2> QED
      BY <2>1, <2>2
  <1>5. Follows
    BY <1>0, <1>4, NotesMove
  <1> QED
    BY <1>0, <1>1, <1>5, NoCallShape, OneCallGoesOn

LEMMA ClickKeeps ==
  ASSUME ApartInv, Click
  PROVE  ApartInv'
  <1> DEFINE x == [NoCall EXCEPT !.pc = "begin", !.gen = notes.gen,
                                 !.stage = "target"]
  <1>0. /\ Quiet /\ ClickCall \in Callers /\ UNCHANGED <<auth, epoch, net>>
        /\ notes \in Notes /\ notes.gen \in Nat
        /\ notes' = [notes EXCEPT !.open = FALSE] /\ notes.used.by = notes.used.of
    BY GenFacts DEF ApartInv, NotesInv, NotificationsAreOwn, Notes, Click
  <1>1. \A j \in Callers : ~Answered(call[j])
    BY <1>0, NoneAnswered
  <1>2. notes' \in Notes /\ notes'.used = notes.used /\ notes'.gen = notes.gen
    BY <1>0 DEF Notes
  <1>3. Follows
    BY <1>0, <1>2, NotesMove
  <1>4. x.pc = "begin" /\ x.sent = 0 /\ x.stage = "target" /\ x \in CallRecords
    BY <1>0 DEF NoCall, CallRecords, CallSteps, NoSession
  <1>5. call' = [call EXCEPT ![ClickCall] = x]
    BY DEF Click
  <1> HIDE DEF x
  <1>6. /\ ~Answered(x) /\ CallFits(x, epoch', auth'.session, notes'.gen)
        /\ SentFits(ClickCall, x)
    BY <1>4 DEF Answered, CallFits, SentFits
  <1> QED
    BY <1>0, <1>1, <1>3, <1>4, <1>5, <1>6, OneCallGoesOn

LEMMA ClickDoneKeeps ==
  ASSUME ApartInv, ClickDone
  PROVE  ApartInv'
  <1> DEFINE c == call[ClickCall]
             x == [NoCall EXCEPT !.pc = "begin", !.gen = c.gen,
                                 !.of = c.session, !.stage = "read"]
  <1>0. /\ c.pc = "done" /\ ClickCall \in Callers /\ c \in CallRecords
        /\ c.gen \in Nat /\ c.session \in Nat /\ notes.gen \in Nat
        /\ CallFits(c, epoch, auth.session, notes.gen) /\ auth.session \in Nat
        /\ UNCHANGED <<auth, epoch, net>> /\ NotesInv
        /\ NetFits(net, epoch, auth.session, auth.status)
    BY GenFacts DEF ApartInv, CallInv, AuthInv, Auths, CallRecords, NotesInv, Notes,
       NetInv, ClickDone
  <1>1. \A j \in Callers \ {ClickCall} : ~Answered(call[j])
    BY <1>0, NoneAnswered DEF ReadyCall
  <1>2. \/ /\ c.gen = notes.gen /\ c.out = "ok" /\ notes' = notes
           /\ call' = [call EXCEPT ![ClickCall] = x]
        \/ /\ call' = [call EXCEPT ![ClickCall] = NoCall]
           /\ \/ notes' = notes
              \/ /\ c.gen = notes.gen /\ c.stage = "read"
                 /\ notes' = [notes EXCEPT !.used = [by |-> auth.session, of |-> c.of]]
              \/ /\ c.out = "ok"
                 /\ notes' = [notes EXCEPT !.used = [by |-> auth.session,
                                                     of |-> c.session]]
    BY DEF ClickDone
  <1>3. x.pc = "begin" /\ x.sent = 0 /\ x.stage = "read" /\ x \in CallRecords
           /\ x.of = c.session /\ x.gen = c.gen
    BY <1>0 DEF NoCall, CallRecords, CallSteps, NoSession
  <1>4. c.out = "ok" => c.session = auth.session /\ c.session # NoSession
    BY <1>0 DEF CallFits
  <1>5. c.stage = "read" /\ c.gen = notes.gen => c.of = auth.session
    BY <1>0 DEF CallFits
  <1> HIDE DEF c, x
  <1>6. CASE /\ c.gen = notes.gen /\ c.out = "ok" /\ notes' = notes
             /\ call' = [call EXCEPT ![ClickCall] = x]
    <2>1. Follows
      BY <1>0, <1>6, NetMoves
    <2>2. /\ ~Answered(x) /\ CallFits(x, epoch', auth'.session, notes'.gen)
          /\ SentFits(ClickCall, x)
      BY <1>0, <1>3, <1>4, <1>6 DEF Answered, CallFits, SentFits
    <2> QED
      BY <1>0, <1>1, <1>3, <1>6, <2>1, <2>2, OneCallGoesOn
  <1>7. CASE /\ call' = [call EXCEPT ![ClickCall] = NoCall]
             /\ \/ notes' = notes
                \/ notes' = [notes EXCEPT !.used = [by |-> auth.session,
                                                    of |-> auth.session]]
    <2>1. Follows
      <3>1. CASE notes' = notes
        BY <1>0, <3>1, NetMoves
      <3>2. CASE notes' = [notes EXCEPT !.used = [by |-> auth.session,
                                                  of |-> auth.session]]
        BY <1>0, <3>2, UsedShape, NotesMove
      <3> QED
        BY <1>7, <3>1, <3>2
    <2> QED
      BY <1>0, <1>1, <1>7, <2>1, NoCallShape, OneCallGoesOn
  <1> QED
    BY <1>2, <1>4, <1>5, <1>6, <1>7

LEMMA WriteKeeps ==
  ASSUME ApartInv, Write \/ WriteDone
  PROVE  ApartInv'
  <1>0. /\ WriteCall \in Callers /\ UNCHANGED <<auth, epoch, net, notes>>
        /\ NetFits(net, epoch, auth.session, auth.status)
    BY GenFacts DEF ApartInv, NetInv, Write, WriteDone
  <1>1. Follows
    BY <1>0, NetMoves
  <1>2. CASE Write
    <2> DEFINE x == [NoCall EXCEPT !.pc = "begin"]
    <2>1. call' = [call EXCEPT ![WriteCall] = x] /\ Quiet
      BY <1>2 DEF Write
    <2>2. \A j \in Callers : ~Answered(call[j])
      BY <2>1, NoneAnswered
    <2>3. /\ x \in CallRecords /\ ~Answered(x) /\ SentFits(WriteCall, x)
          /\ CallFits(x, epoch', auth'.session, notes'.gen)
      BY ProbeShape
    <2> HIDE DEF x
    <2> QED
      BY <1>0, <1>1, <2>1, <2>2, <2>3, OneCallGoesOn
  <1>3. CASE WriteDone
    <2>1. /\ call' = [call EXCEPT ![WriteCall] = NoCall]
          /\ call[WriteCall].pc = "done"
      BY <1>3 DEF WriteDone
    <2>2. \A j \in Callers \ {WriteCall} : ~Answered(call[j])
      BY <1>0, <2>1, NoneAnswered DEF ReadyCall
    <2> QED
      BY <1>0, <1>1, <2>1, <2>2, NoCallShape, OneCallGoesOn
  <1> QED
    BY <1>2, <1>3

-----------------------------------------------------------------------------
\* The credential coordinator, the server, the user and the host.

\* Somebody signs in where nobody was, or stays signed in.
LEMMA SignedInFits ==
  ASSUME NEW n, NEW e \in Nat, NEW s, NEW l, NetFits(n, e, s, l),
         NEW t, NEW k \in Live, t = s \/ s = NoSession
  PROVE  NetFits(n, e, t, k)
  BY DEF NetFits, RunFits, Nets, RunRecords

\* publishCoordinatorState() and onPublicState.
LEMMA PublishFollows ==
  ASSUME ApartInv, NEW n, NetFits(n, epoch, auth.session, auth.status), AuthInv',
         NEW st \in Live \cup InvalidatingStates, Publish(st, n), auth'.status = st,
         st \in Live => auth'.session = auth.session \/ auth.session = NoSession
  PROVE  Follows
  <1>0. epoch \in Nat /\ notes.gen \in Nat
    BY DEF ApartInv, AuthInv, NotesInv, Notes
  <1>1. CASE st \in InvalidatingStates
    BY <1>1, EpochMoves DEF Publish
  <1>2. CASE st \notin InvalidatingStates
    <2>1. /\ net' = start(n) /\ epoch' = epoch /\ notes' = notes /\ st \in Live
      BY <1>2 DEF Publish
    <2>2. NetFits(n, epoch, auth'.session, auth'.status)
      BY <1>0, <2>1, SignedInFits
    <2>3. NetInv'
      BY <1>0, <2>1, <2>2, StartFits DEF NetInv
    <2>4. NotesInv' /\ Later
      BY <1>0, <2>1 DEF ApartInv, NotesInv, NotificationsAreOwn, Later
    <2> QED
      BY <2>3, <2>4 DEF Follows
  <1> QED
    BY <1>1, <1>2

\* Steps of the host that leave the session alone.
LEMMA HostKeeps ==
  ASSUME ApartInv, Suspend \/ Resume \/ CloseWindow \/ Activate \/ Blur \/ Retry \/ Revoke
  PROVE  ApartInv'
  <1>0. /\ Quiet /\ call' = call /\ UNCHANGED <<auth, epoch>> /\ epoch \in Nat
        /\ NetFits(net, epoch, auth.session, auth.status) /\ NotesInv
        /\ notes.gen \in Nat
    BY DEF ApartInv, AuthInv, NetInv, NotesInv, Notes, Suspend, Resume, CloseWindow,
       Activate, Blur, Retry, Revoke
  <1>1. \A j \in Callers : ~Answered(call[j])
    BY <1>0, NoneAnswered
  <1>2. NetFits(net', epoch, auth.session, auth.status)
    <2>1. CASE Suspend
      BY <1>0, <2>1, SuspendFits DEF Suspend
    <2>2. CASE Resume
      BY <1>0, <2>2, ResumeFits DEF Resume
    <2>3. CASE CloseWindow
      BY <1>0, <2>3, HaltFits DEF CloseWindow, invalidate
    <2>4. CASE Activate \/ Retry
      BY <1>0, <2>4, StartFits DEF Activate, Retry
    <2>5. CASE Blur \/ Revoke
      BY <1>0, <2>5 DEF Blur, Revoke
    <2> QED
      BY <2>1, <2>2, <2>3, <2>4, <2>5
  <1>3. notes' = notes \/ notes' = invalidateNotifications(notes)
    BY DEF Suspend, Resume, CloseWindow, Activate, Blur, Retry, Revoke
  <1>4. NotesInv' /\ notes'.gen \in Nat /\ notes'.gen >= notes.gen
    <2>1. CASE notes' = notes
      BY <1>0, <2>1 DEF NotesInv, NotificationsAreOwn
    <2>2. CASE notes' = invalidateNotifications(notes)
      BY <1>0, <2>2, NotesForgotten DEF NotesInv, NotificationsAreOwn
    <2> QED
      BY <1>3, <2>1, <2>2
  <1>5. Follows
    BY <1>0, <1>2, <1>4 DEF Follows, Later, ApartInv, AuthInv, NetInv
  <1> QED
    BY <1>0, <1>1, <1>5, CallsStay

\* The session's own steps.
LEMMA SessionKeeps ==
  ASSUME ApartInv, RefreshSaved \/ Authorize \/ Logout \/ LogoutDone \/ Expire
  PROVE  ApartInv'
  <1>0. /\ Quiet /\ call' = call /\ epoch \in Nat /\ auth \in Auths
        /\ NetFits(net, epoch, auth.session, auth.status) /\ AuthInv
        /\ (auth.flight # "none") \in BOOLEAN
    BY DEF ApartInv, AuthInv, NetInv, RefreshSaved, Authorize, Logout, LogoutDone,
       Expire
  <1>1. \A j \in Callers : ~Answered(call[j])
    BY <1>0, NoneAnswered
  <1>2. CASE RefreshSaved
    <2>1. CASE auth.session = NoSession
      <3>1. auth' = [auth EXCEPT !.flight = "sent"] /\ UNCHANGED <<epoch, net, notes>>
              /\ auth.flight = "saving"
        BY <1>2, <2>1 DEF RefreshSaved
      <3>2. /\ auth' \in Auths /\ auth'.session = auth.session
            /\ auth'.status = auth.status /\ auth'.access = auth.access
            /\ auth'.of = auth.of
        BY <1>0, <3>1 DEF Auths
      <3>3. AuthInv' /\ NetInv'
        BY <1>0, <3>1, <3>2 DEF AuthInv, NetInv
      <3>4. NotesInv' /\ Later
        BY <1>0, <3>1, <3>2 DEF ApartInv, NotesInv, NotificationsAreOwn, Notes, Later
      <3> QED
        BY <1>0, <1>1, <3>3, <3>4, CallsStay DEF Follows
    <2>2. CASE auth.session # NoSession
      <3>1. /\ auth' = [auth EXCEPT !.flight = "sent", !.status = "refreshing"]
            /\ Publish("refreshing", net) /\ auth.flight = "saving"
        BY <1>2, <2>2 DEF RefreshSaved
      <3>2. /\ auth' \in Auths /\ auth'.session = auth.session
            /\ auth'.status = "refreshing" /\ auth'.access = auth.access
            /\ auth'.of = auth.of
        BY <1>0, <3>1 DEF Auths, Live
      <3>3. "refreshing" \in Live
        BY DEF Live
      <3>4. epoch' \in Nat
        BY <1>0, <3>1 DEF Publish, InvalidateNetwork
      <3>5. AuthInv'
        BY <1>0, <2>2, <3>1, <3>2, <3>3, <3>4 DEF AuthInv
      <3>6. Follows
        BY <1>0, <3>1, <3>2, <3>3, <3>5, PublishFollows
      <3> QED
        BY <1>0, <1>1, <3>6, CallsStay
    <2> QED
      BY <2>1, <2>2
  <1>3. CASE Authorize
    <2>1. /\ auth' = [auth EXCEPT !.status = "authenticated", !.access = "fresh",
                            !.session = auth.issued + 1, !.issued = @ + 1]
          /\ Publish("authenticated", net) /\ auth.status = "unauthenticated"
          /\ auth.session = NoSession /\ auth.issued \in Nat
      BY <1>0, <1>3 DEF Authorize, AuthInv, Auths
    <2>2. auth.issued + 1 \in Nat /\ auth.issued + 1 # NoSession
      BY <2>1 DEF NoSession
    <2>3. /\ auth'.session = auth.issued + 1 /\ auth'.status = "authenticated"
          /\ auth'.flight = auth.flight /\ auth'.of = auth.of
      BY <1>0, <2>1 DEF Auths
    <2>4. auth' \in Auths
      BY <1>0, <2>1, <2>2 DEF Auths, Live
    <2>5. "authenticated" \in Live
      BY DEF Live
    <2>6. epoch' \in Nat
      BY <1>0, <2>1 DEF Publish, InvalidateNetwork
    <2>7. AuthInv'
      BY <1>0, <2>2, <2>3, <2>4, <2>5, <2>6 DEF AuthInv
    <2>8. Follows
      BY <1>0, <2>1, <2>3, <2>5, <2>7, PublishFollows
    <2> QED
      BY <1>0, <1>1, <2>8, CallsStay
  <1>4. CASE Logout
    <2>1. /\ auth' = [auth EXCEPT !.status = "locked", !.access = "none",
                            !.leaving = TRUE, !.dropped = auth.flight # "none"]
          /\ Publish("locked", net)
      BY <1>4 DEF Logout
    <2>2. /\ auth'.status = "locked" /\ auth'.access = "none"
          /\ auth'.flight = auth.flight /\ auth'.of = auth.of
      BY <1>0, <2>1 DEF Auths
    <2>3. auth' \in Auths
      BY <1>0, <2>1 DEF Auths, InvalidatingStates
    <2>4. "locked" \in InvalidatingStates /\ "locked" \notin Live
      BY DEF InvalidatingStates, Live
    <2>5. epoch' \in Nat
      BY <1>0, <2>1 DEF Publish, InvalidateNetwork
    <2>6. AuthInv'
      BY <1>0, <2>2, <2>3, <2>5 DEF AuthInv
    <2>7. Follows
      BY <1>0, <2>1, <2>2, <2>4, <2>6, PublishFollows
    <2> QED
      BY <1>0, <1>1, <2>7, CallsStay
  <1>5. CASE LogoutDone
    <2>1. /\ auth' = [auth EXCEPT !.status = "unauthenticated", !.session = NoSession,
                            !.access = "none", !.leaving = FALSE]
          /\ Publish("unauthenticated", net)
      BY <1>5 DEF LogoutDone
    <2>2. /\ auth'.status = "unauthenticated" /\ auth'.access = "none"
          /\ auth'.session = NoSession
          /\ auth'.flight = auth.flight /\ auth'.of = auth.of
      BY <1>0, <2>1 DEF Auths
    <2>3. auth' \in Auths
      BY <1>0, <2>1 DEF Auths, InvalidatingStates, NoSession
    <2>4. "unauthenticated" \in InvalidatingStates /\ "unauthenticated" \notin Live
      BY DEF InvalidatingStates, Live
    <2>5. epoch' \in Nat
      BY <1>0, <2>1 DEF Publish, InvalidateNetwork
    <2>6. AuthInv'
      BY <1>0, <2>2, <2>3, <2>5 DEF AuthInv
    <2>7. Follows
      BY <1>0, <2>1, <2>2, <2>4, <2>6, PublishFollows
    <2> QED
      BY <1>0, <1>1, <2>7, CallsStay
  <1>6. CASE Expire
    <2>1. /\ auth' = [auth EXCEPT !.access = "stale"] /\ auth.access = "fresh"
          /\ UNCHANGED <<epoch, net, notes>>
      BY <1>6 DEF Expire
    <2>2. /\ auth' \in Auths /\ auth'.session = auth.session
          /\ auth'.status = auth.status /\ auth'.flight = auth.flight
          /\ auth'.of = auth.of
      BY <1>0, <2>1 DEF Auths
    <2>3. AuthInv' /\ NetInv'
      BY <1>0, <2>1, <2>2 DEF AuthInv, NetInv
    <2>4. NotesInv' /\ Later
      BY <1>0, <2>1, <2>2 DEF ApartInv, NotesInv, NotificationsAreOwn, Notes, Later
    <2> QED
      BY <1>0, <1>1, <2>3, <2>4, CallsStay DEF Follows
  <1> QED
    BY <1>2, <1>3, <1>4, <1>5, <1>6

\* The calls that waited for the flight go on.
LEMMA ResumedShapes ==
  ASSUME ApartInv, Later, NEW k \in Callers, NEW o \in {"ok", "revoked", "error"},
         ~Answered(call[k])
  PROVE  LET x == ResumedCall(call[k], o)
         IN  /\ x \in CallRecords /\ ~Answered(x) /\ SentFits(k, x)
             /\ CallFits(x, epoch', auth'.session, notes'.gen)
  <1> DEFINE c == call[k]
             x == ResumedCall(call[k], o)
  <1>0. /\ c \in CallRecords /\ SentFits(k, c) /\ epoch \in Nat /\ notes.gen \in Nat
        /\ CallFits(c, epoch, auth.session, notes.gen)
    BY DEF ApartInv, CallInv, AuthInv, NotesInv, Notes
  <1>1. CASE c.pc \notin {"lease", "refresh"}
    <2>1. x = c
      BY <1>1 DEF ResumedCall, Waiting
    <2> QED
      BY <1>0, <2>1, CallKept DEF Later
  <1>2. CASE c.pc \in {"lease", "refresh"}
    <2>1. /\ x \in CallRecords /\ x.stage = c.stage /\ x.gen = c.gen /\ x.of = c.of
          /\ x.sent = c.sent
          /\ \/ x.pc = "done" /\ x.out = o /\ o # "ok"
             \/ x.pc = "leased" /\ c.pc = "lease"
             \/ x.pc = "begin" /\ c.pc = "refresh"
      <3>1. CASE o # "ok"
        <4>1. x = [c EXCEPT !.pc = "done", !.out = o]
          BY <1>2, <3>1 DEF ResumedCall, Waiting
        <4> QED
          BY <1>0, <3>1, <4>1 DEF CallRecords, CallSteps
      <3>2. CASE o = "ok" /\ c.pc = "lease"
        <4>1. x = [c EXCEPT !.pc = "leased"]
          BY <3>2 DEF ResumedCall
        <4> QED
          BY <1>0, <3>2, <4>1 DEF CallRecords, CallSteps
      <3>3. CASE o = "ok" /\ c.pc = "refresh"
        <4>1. x = [c EXCEPT !.pc = "begin", !.first = FALSE]
          BY <3>3 DEF ResumedCall
        <4>2. FALSE \in BOOLEAN
          OBVIOUS
        <4>3. x.pc = "begin" /\ x.stage = c.stage /\ x.gen = c.gen /\ x.of = c.of
                /\ x.sent = c.sent
          BY <1>0, <4>1 DEF CallRecords
        <4>4. x \in CallRecords
          BY <1>0, <4>1, <4>2 DEF CallRecords, CallSteps
        <4> QED
          BY <3>3, <4>3, <4>4
      <3> QED
        BY <1>2, <3>1, <3>2, <3>3
    <2> HIDE DEF x
    <2>2. ~Answered(x) /\ SentFits(k, x)
      BY <1>0, <2>1 DEF Answered, SentFits
    <2>3. x.pc # "fetch"
      BY <2>1
    <2>4. CallFits(x, epoch', auth'.session, notes'.gen)
      BY <2>1, <2>2, <2>3, MovedCallFits
    <2> QED
      BY <2>1, <2>2, <2>4 DEF x
  <1> QED
    BY <1>1, <1>2

\* The rotation is answered.
LEMMA RefreshAnswerKeeps ==
  ASSUME ApartInv, NEW how \in {"ok", "revoked", "error"}, RefreshAnswer(how)
  PROVE  ApartInv'
  <1> DEFINE stale == auth.dropped \/ auth.of # auth.session
             settled == [auth EXCEPT !.flight = "none", !.dropped = FALSE]
             out == IF stale THEN "error" ELSE how
             to == CASE how = "ok" -> "authenticated"
                     [] how = "revoked" -> "revoked"
                     [] OTHER -> "locked"
             ac == IF how = "ok" THEN "fresh" ELSE "none"
             n == EndFlight(net, how)
  <1>0. /\ Quiet /\ epoch \in Nat /\ auth \in Auths /\ auth.flight = "sent"
        /\ NetFits(net, epoch, auth.session, auth.status) /\ AuthInv
        /\ notes.gen \in Nat /\ auth.of # NoSession
    BY DEF ApartInv, AuthInv, NetInv, NotesInv, Notes, RefreshAnswer
  <1>1. \A j \in Callers : ~Answered(call[j])
    BY <1>0, NoneAnswered
  <1>2. /\ call' = [k \in Callers |-> ResumedCall(call[k], out)]
        /\ \/ /\ stale
              /\ auth' = [settled EXCEPT !.access = "none"]
              /\ net' = EndFlight(net, "error")
              /\ UNCHANGED <<epoch, notes>>
           \/ /\ ~stale
              /\ auth' = [settled EXCEPT !.status = to, !.access = ac]
              /\ Publish(to, n)
    BY DEF RefreshAnswer
  <1>3. /\ settled \in Auths /\ settled.flight = "none" /\ settled.session = auth.session
        /\ settled.status = auth.status
    BY <1>0 DEF Auths
  <1>4. out \in {"ok", "revoked", "error"}
    OBVIOUS
  <1>5. /\ to \in {"authenticated", "revoked", "locked"}
        /\ to = "authenticated" <=> ac # "none"
        /\ ac \in {"fresh", "none"}
    OBVIOUS
  <1> HIDE DEF settled, out, to, ac
  <1>6. Follows
    <2>1. CASE /\ stale
               /\ auth' = [settled EXCEPT !.access = "none"]
               /\ net' = EndFlight(net, "error")
               /\ UNCHANGED <<epoch, notes>>
      <3>1. /\ auth' \in Auths /\ auth'.session = auth.session
            /\ auth'.status = auth.status /\ auth'.access = "none"
            /\ auth'.flight = "none"
        BY <1>3, <2>1 DEF Auths
      <3>2. AuthInv'
        BY <1>0, <2>1, <3>1 DEF AuthInv
      <3>3. NetInv'
        BY <1>0, <2>1, <3>1, EndFlightFits DEF NetInv
      <3>4. NotesInv' /\ Later
        BY <1>0, <2>1, <3>1 DEF ApartInv, NotesInv, NotificationsAreOwn, Later
      <3> QED
        BY <3>2, <3>3, <3>4 DEF Follows
    <2>2. CASE /\ ~stale
               /\ auth' = [settled EXCEPT !.status = to, !.access = ac]
               /\ Publish(to, n)
      <3>1. /\ auth' \in Auths /\ auth'.session = auth.session
            /\ auth'.status = to /\ auth'.access = ac /\ auth'.flight = "none"
        BY <1>3, <1>5, <2>2 DEF Auths, Live, InvalidatingStates
      <3>2. auth.session # NoSession
        BY <1>0, <2>2
      <3>3. epoch' \in Nat
        BY <1>0, <2>2 DEF Publish, InvalidateNetwork
      <3>4. AuthInv'
        BY <1>5, <3>1, <3>2, <3>3 DEF AuthInv, Live
      <3>5. NetFits(n, epoch, auth.session, auth.status)
        BY <1>0, EndFlightFits
      <3>6. to \in Live \cup InvalidatingStates
        BY <1>5 DEF Live, InvalidatingStates
      <3> HIDE DEF n
      <3> QED
        BY <2>2, <3>1, <3>4, <3>5, <3>6, PublishFollows
    <2> QED
      BY <1>2, <2>1, <2>2
  <1>7. \A k \in Callers :
          /\ call'[k] \in CallRecords /\ ~Answered(call'[k]) /\ SentFits(k, call'[k])
          /\ CallFits(call'[k], epoch', auth'.session, notes'.gen)
    <2>1. ASSUME NEW k \in Callers
          PROVE  /\ call'[k] \in CallRecords /\ ~Answered(call'[k])
                 /\ SentFits(k, call'[k])
                 /\ CallFits(call'[k], epoch', auth'.session, notes'.gen)
      <3>1. call'[k] = ResumedCall(call[k], out)
        BY <1>2, <2>1
      <3> QED
        BY <1>1, <1>4, <1>6, <3>1, ResumedShapes DEF Follows
    <2> QED
      BY <2>1
  <1>8. call' \in [Callers -> CallRecords]
    BY <1>2, <1>7
  <1> QED
    BY <1>6, <1>7, <1>8, CallsFollow

-----------------------------------------------------------------------------

LEMMA InitApart == Init => ApartInv
  <1> SUFFICES ASSUME Init PROVE ApartInv
    OBVIOUS
  <1>1. AuthInv
    BY DEF Init, AuthInv, Auths, Live, InvalidatingStates, NoSession
  <1>2. NotesInv
    BY DEF Init, NotesInv, Notes, NotificationsAreOwn, NoSession
  <1>3. NetInv
    <2>1. /\ net.status = "idle" /\ net.gen = 0 /\ net.running = 0 /\ ~net.suspended
          /\ net.ctl = "none" /\ net.run = [r \in Gens |-> NoRun]
      BY DEF Init
    <2>2. net.run \in [Gens -> RunRecords] /\ \A r \in Gens : net.run[r] = NoRun
      BY <2>1, RunShapes
    <2>3. net \in Nets
      BY <2>2, RunShapes DEF Init, Nets
    <2>4. \A r \in Gens : RunFits(net, r, epoch, auth.session, auth.status)
      BY <2>1, <2>2, RunShapes, GenFacts DEF RunFits, Speaking
    <2> QED
      BY <2>1, <2>3, <2>4 DEF NetInv, NetFits
  <1>4. call = [k \in Callers |-> NoCall]
    BY DEF Init
  <1>5. CallInv
    BY <1>4, NoCallShape DEF CallInv
  <1>6. AnswerAlone
    BY <1>4, NoCallShape DEF AnswerAlone, Answered
  <1> QED
    BY <1>1, <1>2, <1>3, <1>5, <1>6 DEF ApartInv

LEMMA NextApart == ApartInv /\ [Next]_vars => ApartInv'
  <1> SUFFICES ASSUME ApartInv, [Next]_vars PROVE ApartInv'
    OBVIOUS
  <1>1. CASE UNCHANGED vars
    BY <1>1 DEF vars, ApartInv, AuthInv, NetInv, CallInv, AnswerAlone, NotesInv,
       NotificationsAreOwn
  <1>2. ASSUME NEW r \in Gens, RunStep(r) PROVE ApartInv'
    BY <1>2, LoopKeeps, LeasedKeeps, ControlKeeps, StreamExpiresKeeps, AbortedKeeps,
       RefreshedKeeps, ProbedKeeps, WakeUpKeeps, StreamEndsKeeps DEF RunStep
  <1>3. ASSUME NEW k \in Callers, CallStep(k) PROVE ApartInv'
    BY <1>3, BeginKeeps, AnswerKeeps DEF CallStep
  <1>4. CASE ListDone \/ Click \/ ClickDone \/ Write \/ WriteDone
    BY <1>4, ListDoneKeeps, ClickKeeps, ClickDoneKeeps, WriteKeeps
  <1>5. CASE RefreshSaved \/ Authorize \/ Logout \/ LogoutDone \/ Expire
    BY <1>5, SessionKeeps
  <1>6. CASE \E how \in {"ok", "revoked", "error"} : RefreshAnswer(how)
    BY <1>6, RefreshAnswerKeeps
  <1>7. CASE Suspend \/ Resume \/ CloseWindow \/ Activate \/ Blur \/ Retry \/ Revoke
    BY <1>7, HostKeeps
  <1> QED
    BY <1>1, <1>2, <1>3, <1>4, <1>5, <1>6, <1>7 DEF Next

\* The invariant holds of every reachable state, however many sessions, runs,
\* calls and disturbances there are.
THEOREM ApartInvariance == Spec => []ApartInv
  BY InitApart, NextApart, PTL DEF Spec

\* Nothing of one session reaches another: neither the stream, the status that
\* is shown, the answers of business calls nor the notifications (the epoch of
\* credential-runtime.mjs and the generations of network-coordinator.mjs and
\* notification-controller.mjs).
THEOREM KeptApart == Spec => []SessionsKeptApart
  <1>1. ApartInv => SessionsKeptApart
    <2> SUFFICES ASSUME ApartInv PROVE SessionsKeptApart
      OBVIOUS
    <2>1. CurrentRunCurrentEpoch
      BY DEF ApartInv, NetInv, NetFits, RunFits, CurrentRunCurrentEpoch
    <2>2. OnlineMeansSignedIn
      BY GenFacts DEF ApartInv, NetInv, NetFits, RunFits, Silent, OnlineMeansSignedIn
    <2>3. AnswersAreFresh
      BY DEF ApartInv, CallInv, CallFits, AnswersAreFresh
    <2>4. NotificationsAreOwn
      BY DEF ApartInv, NotesInv
    <2> QED
      BY <2>1, <2>2, <2>3, <2>4 DEF SessionsKeptApart
  <1> QED
    BY <1>1, ApartInvariance, PTL

\* No mutation is sent a second time, whatever its first answer was and however
\* its access token fared (executeOnce and its retry after a refresh).
THEOREM SentOnce == Spec => []MutationsSentOnce
  <1>1. ApartInv => MutationsSentOnce
    BY DEF ApartInv, CallInv, SentFits, MutationsSentOnce
  <1> QED
    BY <1>1, ApartInvariance, PTL

=============================================================================
