------------------------- MODULE ClientScreens_proofs -------------------------
(***************************************************************************)
(* Proofs about the parts of the clients that show something: the page and *)
(* its prompt, the discussion of a work item, the preview of a file, the   *)
(* browser's transfers, and the windows of the desktop program.  A part is *)
(* proved by itself, for its instance in ClientParts; ClientParts_proofs   *)
(* carries the results over to the specification that explores them all.   *)
(***************************************************************************)
EXTENDS ClientParts, FiniteSetTheorems, SequenceTheorems, TLAPS

-----------------------------------------------------------------------------
\* The page, the topbar and the prompt.

LiveLoad == [stage : {"idle", "asked", "served"}, value : Nat, current : BOOLEAN]

LiveType ==
    /\ liveChanged \in Nat
    /\ liveLink \in [on : BOOLEAN, greet : 0 .. 2, backlog : Nat, lagged : BOOLEAN]
    /\ liveAdapter \in Nat /\ liveFailed \in BOOLEAN
    /\ liveCo.seq \in Nat /\ liveCo.pending \in BOOLEAN
    /\ DOMAIN liveCo = {"seq", "told", "pending"}
    /\ load \in [{"loop", "user"} -> LiveLoad]
    /\ DOMAIN update = {"prompted", "deferred", "prompt"}

\* The stream is connected and has nothing more to say.
Told == /\ liveLink.on /\ liveLink.greet = 0 /\ liveLink.backlog = 0
        /\ ~liveLink.lagged

\* Once the stream has said everything, a refresh is still to come, or no answer
\* that counts is out of date: one that counts is under way, the last one
\* failed, or the page is fresh.
Informed ==
    Told => \/ liveCo.pending
            \/ /\ \A l \in {"loop", "user"} :
                    load[l].current /\ load[l].stage = "served" => load[l].value = liveChanged
               /\ \/ \E l \in {"loop", "user"} : load[l].current
                  \/ liveFailed \/ livePage = liveChanged

LiveInv ==
    /\ LiveType
    /\ liveCo.seq <= liveAdapter
    /\ liveCo.pending => load["loop"].stage # "idle"
    /\ \A l \in {"loop", "user"} : load[l].current => load[l].stage # "idle"
    /\ Informed
    /\ Live!PromptWanted

LEMMA LiveInit == Live!LiveInit => LiveInv
  <1> SUFFICES ASSUME Live!LiveInit PROVE LiveInv
    OBVIOUS
  <1>1. /\ liveChanged = 0 /\ livePage = 0 /\ liveFailed = FALSE /\ liveLink = Live!Off /\ liveAdapter = 0
        /\ liveCo = [seq |-> 0, told |-> Live!None, pending |-> FALSE]
        /\ load = [by \in {"loop", "user"} |-> Live!Idle] /\ update = Live!NoUpdate
    BY DEF Live!LiveInit
  <1>2. Live!Idle \in LiveLoad /\ ~Live!Idle.current
    BY DEF Live!Idle, LiveLoad
  <1>3. LiveType
    <2>1. liveLink \in [on : BOOLEAN, greet : 0 .. 2, backlog : Nat, lagged : BOOLEAN]
      BY <1>1 DEF Live!Off
    <2>2. liveCo.seq = 0 /\ liveCo.pending = FALSE /\ DOMAIN liveCo = {"seq", "told", "pending"}
      BY <1>1
    <2>3. DOMAIN update = {"prompted", "deferred", "prompt"}
      BY <1>1 DEF Live!NoUpdate
    <2>4. load \in [{"loop", "user"} -> LiveLoad]
      BY <1>1, <1>2
    <2> QED
      BY <1>1, <2>1, <2>2, <2>3, <2>4 DEF LiveType
  <1>4. ~Told
    BY <1>1 DEF Told, Live!Off
  <1>5. Live!PromptWanted
    BY <1>1 DEF Live!PromptWanted, Live!NoUpdate
  <1> QED
    BY <1>1, <1>2, <1>3, <1>4, <1>5 DEF LiveInv, Informed

LEMMA LiveShape ==
  ASSUME LiveType, NEW l \in {"loop", "user"}
  PROVE  /\ load[l] \in LiveLoad /\ load[l].stage \in {"idle", "asked", "served"}
         /\ load[l].value \in Nat /\ load[l].current \in BOOLEAN
  <1>1. load[l] \in LiveLoad
    BY DEF LiveType
  <1> QED
    BY <1>1 DEF LiveLoad

\* The server and the connection.
LEMMA LiveStreamKeeps ==
  ASSUME LiveInv, Live!Change \/ Live!Connect \/ Live!Drop \/ Live!Deploy
  PROVE  LiveInv'
  <1>1. UNCHANGED <<liveAdapter, liveCo, load, livePage, liveFailed, update>>
    BY DEF Live!Change, Live!Connect, Live!Drop, Live!Deploy, Live!shownVars
  <1>2. liveLink \in [on : BOOLEAN, greet : 0 .. 2, backlog : Nat, lagged : BOOLEAN]
        /\ liveChanged \in Nat
    BY DEF LiveInv, LiveType
  <1>3. /\ liveLink' \in [on : BOOLEAN, greet : 0 .. 2, backlog : Nat, lagged : BOOLEAN]
        /\ ~Told'
    <2>1. CASE Live!Change
      <3>1. liveLink' = IF ~liveLink.on THEN liveLink
                        ELSE IF liveLink.backlog < LiveChannel
                             THEN [liveLink EXCEPT !.backlog = @ + 1]
                             ELSE [liveLink EXCEPT !.lagged = TRUE]
        BY <2>1 DEF Live!Change
      <3>2. CASE ~liveLink.on
        BY <1>2, <3>1, <3>2 DEF Told
      <3>3. CASE liveLink.on /\ liveLink.backlog < LiveChannel
        <4>1. liveLink' = [liveLink EXCEPT !.backlog = @ + 1]
          BY <3>1, <3>3
        <4>2. liveLink'.backlog = liveLink.backlog + 1 /\ liveLink.backlog \in Nat
          BY <1>2, <4>1
        <4>3. liveLink' \in [on : BOOLEAN, greet : 0 .. 2, backlog : Nat, lagged : BOOLEAN]
          BY <1>2, <4>1
        <4> QED
          BY <4>2, <4>3 DEF Told
      <3>4. CASE liveLink.on /\ ~(liveLink.backlog < LiveChannel)
        <4>1. liveLink' = [liveLink EXCEPT !.lagged = TRUE]
          BY <3>1, <3>4
        <4> QED
          BY <1>2, <4>1 DEF Told
      <3> QED
        BY <3>2, <3>3, <3>4
    <2>2. CASE Live!Connect
      <3>1. liveLink' = [on |-> TRUE, greet |-> 2, backlog |-> 0, lagged |-> FALSE]
        BY <2>2 DEF Live!Connect, Live!Off
      <3> QED
        BY <3>1 DEF Told
    <2>3. CASE Live!Drop \/ Live!Deploy
      <3>1. liveLink' = [on |-> FALSE, greet |-> 0, backlog |-> 0, lagged |-> FALSE]
        BY <2>3 DEF Live!Drop, Live!Deploy, Live!Off
      <3> QED
        BY <3>1 DEF Told
    <2> QED
      BY <2>1, <2>2, <2>3
  <1>4. liveChanged' \in Nat
    BY <1>2 DEF Live!Change, Live!Connect, Live!Drop, Live!Deploy
  <1>5. LiveType'
    BY <1>1, <1>3, <1>4 DEF LiveInv, LiveType
  <1> QED
    BY <1>1, <1>3, <1>5 DEF LiveInv, Informed, Live!PromptWanted

LEMMA HeardWanted ==
  ASSUME Live!PromptWanted, DOMAIN update = {"prompted", "deferred", "prompt"}, NEW v,
         update' = Live!Heard(v)
  PROVE  Live!PromptWanted' /\ DOMAIN update' = {"prompted", "deferred", "prompt"}
  <1>1. CASE v \in {ServedRelease, Live!None, update.deferred, update.prompted}
    BY <1>1 DEF Live!Heard, Live!PromptWanted
  <1>2. CASE v \notin {ServedRelease, Live!None, update.deferred, update.prompted}
    <2> DEFINE n == IF update.prompt = Live!None THEN v ELSE update.prompt
    <2>1. update' = [update EXCEPT !.prompted = v, !.prompt = n]
      BY <1>2 DEF Live!Heard
    <2>2. n \notin {ServedRelease, update.deferred}
      BY <1>2 DEF Live!PromptWanted
    <2> HIDE DEF n
    <2>3. update'.prompt = n /\ update'.deferred = update.deferred
          /\ DOMAIN update' = {"prompted", "deferred", "prompt"}
      BY <2>1
    <2> QED
      BY <2>2, <2>3 DEF Live!PromptWanted
  <1> QED
    BY <1>1, <1>2

\* The prompt and the polling.
LEMMA LivePromptKeeps ==
  ASSUME LiveInv,
         \/ Live!CheckStart \/ Live!CheckServed \/ Live!CheckEnds \/ Live!PutOff
         \/ Live!Polls \/ Live!PollFails
  PROVE  LiveInv'
  <1>1. UNCHANGED <<liveChanged, liveLink, liveAdapter, liveCo, load, livePage, liveFailed>>
    BY DEF Live!CheckStart, Live!CheckServed, Live!CheckEnds, Live!PutOff, Live!Polls,
       Live!PollStart, Live!PollServed, Live!PollAnswered, Live!PollFails, Live!shownVars
  <1>2. Live!PromptWanted /\ DOMAIN update = {"prompted", "deferred", "prompt"}
    BY DEF LiveInv, LiveType
  <1>3. Live!PromptWanted' /\ DOMAIN update' = {"prompted", "deferred", "prompt"}
    <2>1. CASE Live!CheckEnds
      BY <1>2, <2>1, HeardWanted DEF Live!CheckEnds
    <2>2. CASE Live!PutOff
      <3>1. update' = [update EXCEPT !.deferred = update.prompt, !.prompt = Live!None]
        BY <2>2 DEF Live!PutOff
      <3> QED
        BY <1>2, <3>1 DEF Live!PromptWanted
    <2>3. CASE ~Live!CheckEnds /\ ~Live!PutOff
      <3>1. update' = update
        BY <2>3 DEF Live!CheckStart, Live!CheckServed, Live!Polls,
           Live!PollStart, Live!PollServed, Live!PollAnswered, Live!PollFails
      <3> QED
        BY <1>2, <3>1 DEF Live!PromptWanted
    <2> QED
      BY <2>1, <2>2, <2>3
  <1>4. LiveType'
    BY <1>1, <1>3 DEF LiveInv, LiveType
  <1> QED
    BY <1>1, <1>3, <1>4 DEF LiveInv, Informed, Told

\* A load that starts is the only one that counts.
LEMMA LiveStarts ==
  ASSUME LiveType, NEW by \in {"loop", "user"}, Live!Starts(by)
  PROVE  /\ load' \in [{"loop", "user"} -> LiveLoad]
         /\ load'[by].current /\ load'[by].stage = "asked"
         /\ \A l \in {"loop", "user"} \ {by} :
              ~load'[l].current /\ load'[l].stage = load[l].stage
  <1> DEFINE a == [stage |-> "asked", value |-> 0, current |-> TRUE]
  <1>1. a \in LiveLoad /\ a.current /\ a.stage = "asked"
    BY DEF LiveLoad
  <1>2. DOMAIN load = {"loop", "user"}
    BY DEF LiveType
  <1>3. \A l \in {"loop", "user"} :
          /\ [load[l] EXCEPT !.current = FALSE] \in LiveLoad
          /\ ~[load[l] EXCEPT !.current = FALSE].current
          /\ [load[l] EXCEPT !.current = FALSE].stage = load[l].stage
    BY LiveShape DEF LiveLoad
  <1>4. load' = [l \in {"loop", "user"} |->
                   IF l = by THEN a ELSE [load[l] EXCEPT !.current = FALSE]]
    BY <1>2 DEF Live!Starts
  <1> HIDE DEF a
  <1> QED
    BY <1>1, <1>3, <1>4

\* The coordinator hears of an event.
LEMMA LiveReceiveKeeps ==
  ASSUME LiveInv, Live!Receive PROVE LiveInv'
  <1> DEFINE kind == Live!Next1
             seq == liveAdapter + 1
  <1>1. /\ liveLink.on /\ (liveLink.greet > 0 \/ liveLink.lagged \/ liveLink.backlog > 0)
        /\ liveLink' = Live!Delivered
        /\ liveAdapter' = seq
        /\ UNCHANGED <<liveChanged, livePage, liveFailed>>
    BY DEF Live!Receive, Live!Sequence, Live!shownVars
  <1>2. /\ LiveType /\ liveCo.seq <= liveAdapter /\ liveAdapter \in Nat /\ liveCo.seq \in Nat
        /\ DOMAIN liveCo = {"seq", "told", "pending"} /\ seq \in Nat /\ ~(seq <= liveCo.seq)
        /\ Live!PromptWanted /\ DOMAIN update = {"prompted", "deferred", "prompt"}
        /\ liveCo.pending \in BOOLEAN
        /\ liveLink \in [on : BOOLEAN, greet : 0 .. 2, backlog : Nat, lagged : BOOLEAN]
    BY DEF LiveInv, LiveType
  <1>3. /\ liveLink' \in [on : BOOLEAN, greet : 0 .. 2, backlog : Nat, lagged : BOOLEAN]
        /\ liveLink.greet = 2 => liveLink'.greet = 1
    <2>1. liveLink.greet \in 0 .. 2 /\ liveLink.backlog \in Nat
      BY <1>2
    <2>2. CASE liveLink.greet > 0
      <3>0. Live!Delivered = [liveLink EXCEPT !.greet = @ - 1]
        BY <2>2 DEF Live!Delivered
      <3>1. liveLink' = [liveLink EXCEPT !.greet = @ - 1]
        BY <1>1, <3>0
      <3>2. liveLink.greet - 1 \in 0 .. 2
        BY <2>1, <2>2
      <3> QED
        BY <1>2, <2>1, <3>1, <3>2
    <2>3. CASE ~(liveLink.greet > 0) /\ liveLink.lagged
      <3>1. liveLink' = [liveLink EXCEPT !.lagged = FALSE]
        BY <1>1, <2>3 DEF Live!Delivered
      <3>2. liveLink.greet # 2
        BY <2>3
      <3>3. liveLink' \in [on : BOOLEAN, greet : 0 .. 2, backlog : Nat, lagged : BOOLEAN]
        BY <1>2, <3>1
      <3> QED
        BY <3>2, <3>3
    <2>4. CASE ~(liveLink.greet > 0) /\ ~liveLink.lagged
      <3>1. liveLink' = [liveLink EXCEPT !.backlog = @ - 1]
        BY <1>1, <2>4 DEF Live!Delivered
      <3>2. liveLink.backlog - 1 \in Nat
        BY <1>1, <2>1, <2>4
      <3> QED
        BY <1>2, <2>1, <2>4, <3>1, <3>2
    <2> QED
      BY <2>2, <2>3, <2>4
  <1>4. kind = "release-version" => ~Told'
    <2>1. kind = "release-version" => liveLink.greet = 2
      BY DEF Live!Next1
    <2> QED
      BY <1>3, <2>1 DEF Told
  <1>5. CASE kind = "release-version"
    <2>1. /\ liveCo' = [liveCo EXCEPT !.seq = seq, !.told = release]
          /\ update' = Live!Heard(release) \/ update' = update
          /\ load' = load
      BY <1>2, <1>5 DEF Live!Receive, Live!Sequence
    <2>2. /\ liveCo'.seq = seq /\ liveCo'.pending = liveCo.pending
          /\ DOMAIN liveCo' = {"seq", "told", "pending"}
      BY <1>2, <2>1
    <2>3. Live!PromptWanted' /\ DOMAIN update' = {"prompted", "deferred", "prompt"}
      <3>1. CASE update' = Live!Heard(release)
        BY <1>2, <3>1, HeardWanted
      <3>2. CASE update' = update
        BY <1>2, <3>2 DEF Live!PromptWanted
      <3> QED
        BY <2>1, <3>1, <3>2
    <2>4. LiveType'
      BY <1>1, <1>2, <1>3, <2>1, <2>2, <2>3 DEF LiveType
    <2>5. Informed'
      BY <1>4, <1>5 DEF Informed
    <2>6. /\ liveCo'.seq <= liveAdapter'
          /\ liveCo'.pending => load'["loop"].stage # "idle"
          /\ \A l \in {"loop", "user"} : load'[l].current => load'[l].stage # "idle"
      BY <1>1, <1>2, <2>1, <2>2 DEF LiveInv
    <2> QED
      BY <2>3, <2>4, <2>5, <2>6 DEF LiveInv
  <1>6. CASE kind # "release-version" /\ load["loop"].stage = "idle"
    <2>1. /\ liveCo' = [liveCo EXCEPT !.seq = seq, !.pending = FALSE]
          /\ Live!Starts("loop") /\ update' = update
      BY <1>2, <1>6 DEF Live!Receive, Live!Sequence
    <2>2. /\ liveCo'.seq = seq /\ liveCo'.pending = FALSE
          /\ DOMAIN liveCo' = {"seq", "told", "pending"}
      BY <1>2, <2>1
    <2>3. /\ load' \in [{"loop", "user"} -> LiveLoad]
          /\ load'["loop"].current /\ load'["loop"].stage = "asked"
          /\ ~load'["user"].current
      BY <1>2, <2>1, LiveStarts
    <2>4. LiveType'
      BY <1>1, <1>2, <1>3, <2>1, <2>2, <2>3 DEF LiveType
    <2>5. Informed'
      BY <2>3 DEF Informed
    <2>6. /\ liveCo'.seq <= liveAdapter'
          /\ liveCo'.pending => load'["loop"].stage # "idle"
          /\ \A l \in {"loop", "user"} : load'[l].current => load'[l].stage # "idle"
      BY <1>1, <1>2, <2>2, <2>3
    <2>7. Live!PromptWanted'
      BY <1>2, <2>1 DEF Live!PromptWanted
    <2> QED
      BY <2>4, <2>5, <2>6, <2>7 DEF LiveInv
  <1>7. CASE kind # "release-version" /\ load["loop"].stage # "idle"
    <2>1. /\ liveCo' = [liveCo EXCEPT !.seq = seq, !.pending = TRUE]
          /\ load' = load /\ update' = update
      BY <1>2, <1>7 DEF Live!Receive, Live!Sequence
    <2>2. /\ liveCo'.seq = seq /\ liveCo'.pending = TRUE
          /\ DOMAIN liveCo' = {"seq", "told", "pending"}
      BY <1>2, <2>1
    <2>3. LiveType'
      BY <1>1, <1>2, <1>3, <2>1, <2>2 DEF LiveType
    <2>4. Informed'
      BY <2>2 DEF Informed
    <2>5. /\ liveCo'.seq <= liveAdapter'
          /\ liveCo'.pending => load'["loop"].stage # "idle"
          /\ \A l \in {"loop", "user"} : load'[l].current => load'[l].stage # "idle"
      BY <1>1, <1>2, <1>7, <2>1, <2>2 DEF LiveInv
    <2>6. Live!PromptWanted'
      BY <1>2, <2>1 DEF Live!PromptWanted
    <2> QED
      BY <2>3, <2>4, <2>5, <2>6 DEF LiveInv
  <1> QED
    BY <1>5, <1>6, <1>7

\* A load is over: answered or failed, it is idle, or runs once more.
LEMMA LiveOver ==
  ASSUME LiveInv, NEW by \in {"loop", "user"}, Live!Over(by)
  PROVE  /\ load' \in [{"loop", "user"} -> LiveLoad]
         /\ liveCo'.seq = liveCo.seq /\ liveCo'.pending \in BOOLEAN
         /\ DOMAIN liveCo' = {"seq", "told", "pending"}
         /\ \/ /\ by = "loop" /\ liveCo.pending /\ ~liveCo'.pending
               /\ load'[by].current /\ load'[by].stage = "asked"
               /\ \A l \in {"loop", "user"} \ {by} :
                    ~load'[l].current /\ load'[l].stage = load[l].stage
            \/ /\ by = "loop" => ~liveCo.pending
               /\ liveCo' = liveCo
               /\ ~load'[by].current /\ load'[by].stage = "idle"
               /\ \A l \in {"loop", "user"} \ {by} : load'[l] = load[l]
  <1>1. LiveType /\ DOMAIN liveCo = {"seq", "told", "pending"} /\ liveCo.seq \in Nat
        /\ liveCo.pending \in BOOLEAN
    BY DEF LiveInv, LiveType
  <1>2. CASE by = "loop" /\ liveCo.pending
    <2>1. Live!Starts(by) /\ liveCo' = [liveCo EXCEPT !.pending = FALSE]
      BY <1>2 DEF Live!Over
    <2>2. /\ liveCo'.seq = liveCo.seq /\ liveCo'.pending = FALSE
          /\ DOMAIN liveCo' = {"seq", "told", "pending"}
      BY <1>1, <2>1
    <2> QED
      BY <1>1, <1>2, <2>1, <2>2, LiveStarts
  <1>3. CASE ~(by = "loop" /\ liveCo.pending)
    <2>1. load' = [load EXCEPT ![by] = Live!Idle] /\ liveCo' = liveCo
      BY <1>3 DEF Live!Over
    <2>2. Live!Idle \in LiveLoad /\ ~Live!Idle.current /\ Live!Idle.stage = "idle"
      BY DEF Live!Idle, LiveLoad
    <2> QED
      BY <1>1, <1>3, <2>1, <2>2 DEF LiveType
  <1> QED
    BY <1>2, <1>3

LEMMA LiveLoadKeeps ==
  ASSUME LiveInv, NEW by \in {"loop", "user"},
         Live!LoadServed(by) \/ Live!LoadAnswered(by) \/ Live!LoadFails(by)
  PROVE  LiveInv'
  <1>1. /\ UNCHANGED <<liveChanged, liveLink, liveAdapter, update>>
        /\ LiveType /\ Live!PromptWanted /\ Informed
        /\ liveCo.seq <= liveAdapter /\ (liveCo.pending => load["loop"].stage # "idle")
        /\ \A l \in {"loop", "user"} : load[l].current => load[l].stage # "idle"
    BY DEF LiveInv, Live!LoadServed, Live!LoadAnswered, Live!LoadFails
  <1>2. Live!PromptWanted'
    BY <1>1 DEF Live!PromptWanted
  <1>3. CASE Live!LoadServed(by)
    <2>1. /\ load[by].stage = "asked"
          /\ load' = [load EXCEPT ![by].stage = "served", ![by].value = liveChanged]
          /\ UNCHANGED <<liveCo, livePage, liveFailed>>
      BY <1>3 DEF Live!LoadServed, Live!shownVars
    <2> DEFINE w == [load[by] EXCEPT !.stage = "served"]
               e == [w EXCEPT !.value = liveChanged]
    <2>2. w \in LiveLoad /\ w.stage = "served" /\ w.current = load[by].current
      BY <1>1, LiveShape DEF LiveLoad
    <2>3. load' = [load EXCEPT ![by] = e]
      BY <1>1, <2>1 DEF LiveType
    <2> HIDE DEF w
    <2>4. e \in LiveLoad /\ e.stage = "served" /\ e.current = load[by].current
          /\ e.value = liveChanged
      BY <1>1, <2>2 DEF LiveLoad, LiveType
    <2> HIDE DEF e
    <2>5. /\ load' \in [{"loop", "user"} -> LiveLoad] /\ load'[by] = e
          /\ \A l \in {"loop", "user"} \ {by} : load'[l] = load[l]
      BY <1>1, <2>3, <2>4 DEF LiveType
    <2>6. LiveType'
      BY <1>1, <2>1, <2>5 DEF LiveType
    <2>7. \A l \in {"loop", "user"} :
             /\ load'[l].current = load[l].current
             /\ load'[l].stage # "idle" <=> load[l].stage # "idle"
             /\ load'[l].stage = "served" =>
                  load'[l].value = liveChanged \/ load'[l] = load[l]
      BY <2>1, <2>4, <2>5
    <2>8. Informed'
      BY <1>1, <2>1, <2>7 DEF Informed, Told
    <2> QED
      BY <1>1, <1>2, <2>1, <2>6, <2>7, <2>8 DEF LiveInv
  <1>4. CASE Live!LoadAnswered(by) \/ Live!LoadFails(by)
    <2>1. Live!Over(by)
      BY <1>4 DEF Live!LoadAnswered, Live!LoadFails
    <2>2. \/ /\ load[by].current /\ load[by].stage = "served"
             /\ livePage' = load[by].value /\ liveFailed' = FALSE
          \/ ~load[by].current /\ livePage' = livePage /\ liveFailed' = liveFailed
          \/ livePage' = livePage /\ load[by].current /\ liveFailed' = TRUE
      <3>1. load[by].current \in BOOLEAN
        BY <1>1, LiveShape
      <3>2. CASE Live!LoadAnswered(by)
        BY <3>1, <3>2 DEF Live!LoadAnswered, Live!shownVars
      <3>3. CASE Live!LoadFails(by)
        <4>1. liveFailed' = (liveFailed \/ load[by].current) /\ livePage' = livePage
          BY <3>3 DEF Live!LoadFails
        <4>2. liveFailed \in BOOLEAN
          BY <1>1 DEF LiveType
        <4> QED
          BY <3>1, <4>1, <4>2
      <3> QED
        BY <1>4, <3>2, <3>3
    <2>3. LiveType'
      <3>1. /\ load' \in [{"loop", "user"} -> LiveLoad]
            /\ liveCo'.seq = liveCo.seq /\ liveCo'.pending \in BOOLEAN
            /\ DOMAIN liveCo' = {"seq", "told", "pending"}
        BY <2>1, LiveOver
      <3>2. liveFailed' \in BOOLEAN
        BY <1>1, <2>2 DEF LiveType
      <3> QED
        BY <1>1, <3>1, <3>2 DEF LiveType
    <2>4. /\ liveCo'.seq <= liveAdapter'
          /\ liveCo'.pending => load'["loop"].stage # "idle"
          /\ \A l \in {"loop", "user"} : load'[l].current => load'[l].stage # "idle"
      BY <1>1, <2>1, LiveOver
    <2>5. Informed'
      BY <1>1, <2>1, <2>2, LiveOver DEF Informed, Told
    <2> QED
      BY <1>2, <2>3, <2>4, <2>5 DEF LiveInv
  <1> QED
    BY <1>3, <1>4

LEMMA LiveNext == LiveInv /\ [Live!LiveNext]_liveVars => LiveInv'
  <1> SUFFICES ASSUME LiveInv, [Live!LiveNext]_liveVars PROVE LiveInv'
    OBVIOUS
  <1>1. CASE Live!Visit
    <2>1. /\ Live!Starts("user") /\ LiveType
          /\ UNCHANGED <<liveChanged, liveLink, liveAdapter, liveCo, livePage, liveFailed, update>>
      BY <1>1 DEF Live!Visit, Live!shownVars, LiveInv
    <2>2. /\ load' \in [{"loop", "user"} -> LiveLoad]
          /\ load'["user"].current /\ load'["user"].stage = "asked"
          /\ ~load'["loop"].current /\ load'["loop"].stage = load["loop"].stage
      BY <2>1, LiveStarts
    <2>3. LiveType'
      BY <2>1, <2>2 DEF LiveType
    <2> QED
      BY <2>1, <2>2, <2>3 DEF LiveInv, Informed, Told, Live!PromptWanted
  <1>2. CASE UNCHANGED liveVars
    BY <1>2 DEF liveVars, LiveInv, LiveType, Informed, Told, Live!PromptWanted
  <1>3. CASE \E by \in DOMAIN load :
               Live!LoadServed(by) \/ Live!LoadAnswered(by) \/ Live!LoadFails(by)
    <2>1. DOMAIN load = {"loop", "user"}
      BY DEF LiveInv, LiveType
    <2> QED
      BY <1>3, <2>1, LiveLoadKeeps
  <1> QED
    BY <1>1, <1>2, <1>3, LiveStreamKeeps, LivePromptKeeps, LiveReceiveKeeps DEF Live!LiveNext

LEMMA LiveKept == LiveInv => Live!PageFresh /\ Live!PromptWanted
  <1> SUFFICES ASSUME LiveInv PROVE Live!PageFresh
    BY DEF LiveInv
  <1>1. DOMAIN load = {"loop", "user"}
    BY DEF LiveInv, LiveType
  <1> QED
    BY <1>1 DEF LiveInv, Informed, Told, Live!PageFresh

-----------------------------------------------------------------------------
\* The discussion of a work item, and who is typing.

ItemMessage == [item : Items, kind : {"discussion-refresh", "typing"}]
ItemRun == [kind : {"load", "refresh"}, item : Items, stage : {"asked", "served"},
            value : Nat, live : BOOLEAN]

ItemType ==
    /\ itemChanged \in [Items -> Nat] /\ item \in Items \cup {Item!Away} /\ shown \in Nat
    /\ itemLink \in [on : BOOLEAN, greet : Seq(BOOLEAN), queue : Seq(ItemMessage),
                     lagged : BOOLEAN]
    /\ itemAdapter \in Nat /\ itemCo \in [seq : Nat, pending : BOOLEAN]
    /\ itemRuns \in Seq(ItemRun)
    /\ seen \in BOOLEAN /\ gap \in BOOLEAN /\ itemFailed \in BOOLEAN /\ itemBehind \in BOOLEAN
    /\ ctl \in [focus : BOOLEAN, active : BOOLEAN, age : Nat, idle : Nat, gone : BOOLEAN]
    /\ posts \in Seq(BOOLEAN) /\ presence \in Nat
    /\ doubt \in [report : BOOLEAN, lapse : BOOLEAN, entry : BOOLEAN]

\* What the coordinator keeps: its place in the stream, loads of the item shown,
\* and a refresh under way if another one is to follow.
ItemKept ==
    /\ itemLink.on => item # Item!Away
    /\ ~itemLink.on => itemLink.queue = << >> /\ ~itemLink.lagged
    /\ itemCo.seq <= itemAdapter
    /\ \A n \in DOMAIN itemRuns :
         /\ itemRuns[n].value <= itemChanged[itemRuns[n].item]
         /\ itemRuns[n].live => itemRuns[n].item = item
    /\ itemCo.pending => Item!Refreshing

\* Word of the discussion or of the typing is still to come.
Queued(q, kind) == \E n \in DOMAIN q : q[n] = [item |-> item, kind |-> kind]
Coming(kind) == itemLink.lagged \/ Queued(itemLink.queue, kind)
\* An answer that counts will show the item as it is.
Fresh(r) ==
    /\ Item!Counts(r) /\ r.item = item
    /\ (r.stage = "served" => r.value = itemChanged[item])

ItemInformed ==
    item # Item!Away /\ ~gap /\ ~itemFailed /\ ~itemBehind =>
        \/ Coming("discussion-refresh") \/ itemCo.pending
        \/ \E n \in DOMAIN itemRuns : Fresh(itemRuns[n])
        \/ shown = itemChanged[item]

\* The last report is on its way or valid for long enough, and the time since it
\* leaves room for the idle timer.
ReportedInTime ==
    ctl.active =>
        /\ ctl.idle >= 1
        /\ ~doubt.entry => ctl.age + ctl.idle < Renewal + IdleAfter
        /\ ~doubt.report => IF posts = << >> THEN presence + ctl.age >= TTL
                            ELSE posts[Len(posts)]

TypingKnown ==
    itemLink.on /\ ~doubt.lapse =>
        \/ Coming("typing")
        \/ itemLink.greet = <<Item!Typing(item)>>
        \/ itemLink.greet = << >> /\ seen = Item!Typing(item)

ItemInv == ItemType /\ ItemKept /\ ItemInformed /\ ReportedInTime /\ TypingKnown

LEMMA WithoutOne ==
  ASSUME NEW S, NEW s \in Seq(S), NEW n \in DOMAIN s
  PROVE  /\ Item!Without(s, n) \in Seq(S) /\ Len(Item!Without(s, n)) = Len(s) - 1
         /\ \A k \in DOMAIN Item!Without(s, n) :
              \E m \in DOMAIN s : m # n /\ Item!Without(s, n)[k] = s[m]
         /\ \A m \in DOMAIN s :
              m # n => \E k \in DOMAIN Item!Without(s, n) : Item!Without(s, n)[k] = s[m]
         /\ n = 1 /\ Len(s) > 1 => Item!Without(s, n)[Len(s) - 1] = s[Len(s)]
  <1> DEFINE a == SubSeq(s, 1, n - 1)
             b == SubSeq(s, n + 1, Len(s))
             w == Item!Without(s, n)
  <1>1. Len(s) \in Nat /\ n \in 1 .. Len(s) /\ DOMAIN s = 1 .. Len(s)
    OBVIOUS
  <1>2. a \in Seq(S) /\ Len(a) = n - 1 /\ \A i \in 1 .. n - 1 : a[i] = s[i]
    BY <1>1
  <1>3. b \in Seq(S) /\ Len(b) = Len(s) - n /\ \A i \in 1 .. Len(s) - n : b[i] = s[n + i]
    BY <1>1
  <1>4. w = a \o b
    BY DEF Item!Without
  <1> HIDE DEF a, b, w
  <1>5. /\ w \in Seq(S) /\ Len(w) = Len(s) - 1 /\ DOMAIN w = 1 .. Len(s) - 1
        /\ \A i \in 1 .. Len(s) - 1 : w[i] = IF i <= n - 1 THEN a[i] ELSE b[i - (n - 1)]
    <2>1. /\ w \in Seq(S) /\ Len(w) = Len(a) + Len(b)
          /\ \A i \in 1 .. Len(a) + Len(b) :
               w[i] = IF i <= Len(a) THEN a[i] ELSE b[i - Len(a)]
      BY <1>2, <1>3, <1>4, ConcatProperties
    <2>2. Len(a) + Len(b) = Len(s) - 1 /\ Len(a) = n - 1
      BY <1>1, <1>2, <1>3
    <2>3. DOMAIN w = 1 .. Len(w)
      BY <2>1
    <2> QED
      BY <2>1, <2>2, <2>3
  <1>6. \A i \in 1 .. Len(s) - 1 : w[i] = IF i < n THEN s[i] ELSE s[i + 1]
    <2> SUFFICES ASSUME NEW i \in 1 .. Len(s) - 1
                 PROVE  w[i] = IF i < n THEN s[i] ELSE s[i + 1]
      OBVIOUS
    <2>1. CASE i < n
      BY <1>1, <1>2, <1>5, <2>1
    <2>2. CASE ~(i < n)
      <3>1. i - (n - 1) \in 1 .. Len(s) - n /\ n + (i - (n - 1)) = i + 1
        BY <1>1, <2>2
      <3>2. w[i] = b[i - (n - 1)]
        BY <1>1, <1>5, <2>2
      <3> QED
        BY <1>3, <2>2, <3>1, <3>2
    <2> QED
      BY <2>1, <2>2
  <1>7. \A k \in DOMAIN w : \E m \in DOMAIN s : m # n /\ w[k] = s[m]
    <2> SUFFICES ASSUME NEW k \in 1 .. Len(s) - 1
                 PROVE  \E m \in DOMAIN s : m # n /\ w[k] = s[m]
      BY <1>5
    <2>1. CASE k < n
      BY <1>1, <1>6, <2>1
    <2>2. CASE ~(k < n)
      <3>1. k + 1 \in DOMAIN s /\ k + 1 # n /\ w[k] = s[k + 1]
        BY <1>1, <1>6, <2>2
      <3> QED
        BY <3>1
    <2> QED
      BY <2>1, <2>2
  <1>8. \A m \in DOMAIN s : m # n => \E k \in DOMAIN w : w[k] = s[m]
    <2> SUFFICES ASSUME NEW m \in DOMAIN s, m # n PROVE \E k \in DOMAIN w : w[k] = s[m]
      OBVIOUS
    <2>1. CASE m < n
      <3>1. m \in DOMAIN w /\ w[m] = s[m]
        BY <1>1, <1>5, <1>6, <2>1
      <3> QED
        BY <3>1
    <2>2. CASE ~(m < n)
      <3>1. m - 1 \in DOMAIN w /\ ~(m - 1 < n) /\ m - 1 + 1 = m
        BY <1>1, <1>5, <2>2
      <3>2. w[m - 1] = s[m]
        BY <1>5, <1>6, <3>1
      <3> QED
        BY <3>1, <3>2
    <2> QED
      BY <2>1, <2>2
  <1>9. n = 1 /\ Len(s) > 1 => w[Len(s) - 1] = s[Len(s)]
    BY <1>1, <1>6
  <1> QED
    BY <1>5, <1>7, <1>8, <1>9 DEF w

LEMMA ItemShape ==
  ASSUME ItemType
  PROVE  /\ itemLink.on \in BOOLEAN /\ itemLink.lagged \in BOOLEAN
         /\ itemLink.greet \in Seq(BOOLEAN) /\ itemLink.queue \in Seq(ItemMessage)
         /\ itemCo.seq \in Nat /\ itemCo.pending \in BOOLEAN
         /\ \A n \in DOMAIN itemRuns :
              /\ itemRuns[n] \in ItemRun /\ itemRuns[n].item \in Items
              /\ itemRuns[n].value \in Nat /\ itemRuns[n].live \in BOOLEAN
              /\ itemRuns[n].kind \in {"load", "refresh"}
              /\ itemRuns[n].stage \in {"asked", "served"}
  <1>1. \A n \in DOMAIN itemRuns : itemRuns[n] \in ItemRun
    BY DEF ItemType
  <1> QED
    BY <1>1 DEF ItemType, ItemRun

LEMMA ItemInit == Item!ItemInit => ItemInv
  <1> SUFFICES ASSUME Item!ItemInit PROVE ItemInv
    OBVIOUS
  <1>1. ItemType
    <2>1. << >> \in Seq(BOOLEAN) /\ << >> \in Seq(ItemMessage) /\ << >> \in Seq(ItemRun)
      OBVIOUS
    <2>2. Item!Off \in [on : BOOLEAN, greet : Seq(BOOLEAN), queue : Seq(ItemMessage),
                       lagged : BOOLEAN]
      BY <2>1 DEF Item!Off
    <2> QED
      BY <2>1, <2>2 DEF Item!ItemInit, Item!NewCoordinator, ItemType
  <1>2. /\ itemLink = Item!Off /\ itemCo = Item!NewCoordinator /\ item = Item!Away
        /\ itemRuns = << >> /\ itemAdapter = 0 /\ ctl.active = FALSE
    BY DEF Item!ItemInit
  <1> QED
    BY <1>1, <1>2 DEF ItemInv, ItemKept, ItemInformed, ReportedInTime, TypingKnown,
       Item!Off, Item!NewCoordinator

\* A message sent reaches the subscribed page, and those before it do too, or
\* the page is told that it missed some.
LEMMA SentOn ==
  ASSUME ItemType, ItemKept, NEW m \in ItemMessage, itemLink' = Item!Broadcast(m)
  PROVE  /\ itemLink' \in [on : BOOLEAN, greet : Seq(BOOLEAN), queue : Seq(ItemMessage),
                           lagged : BOOLEAN]
         /\ itemLink'.on = itemLink.on /\ itemLink'.greet = itemLink.greet
         /\ ~itemLink.on => itemLink' = itemLink
         /\ itemLink.on => \E n \in DOMAIN itemLink'.queue : itemLink'.queue[n] = m
         /\ itemLink.lagged => itemLink'.lagged
         /\ \/ itemLink'.lagged
            \/ \A n \in DOMAIN itemLink.queue :
                 \E k \in DOMAIN itemLink'.queue : itemLink'.queue[k] = itemLink.queue[n]
  <1>1. /\ itemLink \in [on : BOOLEAN, greet : Seq(BOOLEAN), queue : Seq(ItemMessage),
                         lagged : BOOLEAN]
        /\ itemLink.queue \in Seq(ItemMessage)
    BY ItemShape DEF ItemType
  <1> DEFINE q == itemLink.queue
  <1>2. CASE ~itemLink.on
    <2>1. itemLink' = itemLink
      BY <1>2 DEF Item!Broadcast
    <2> QED
      BY <1>1, <1>2, <2>1
  <1>3. CASE itemLink.on /\ Len(q) < ItemChannel
    <2>1. itemLink' = [itemLink EXCEPT !.queue = Append(q, m)]
      BY <1>3 DEF Item!Broadcast
    <2>2. /\ Append(q, m) \in Seq(ItemMessage) /\ Append(q, m)[Len(q) + 1] = m
          /\ Len(q) + 1 \in DOMAIN Append(q, m)
          /\ \A n \in DOMAIN q : n \in DOMAIN Append(q, m) /\ Append(q, m)[n] = q[n]
      BY <1>1
    <2>3. /\ itemLink'.queue = Append(q, m) /\ itemLink'.on = itemLink.on
          /\ itemLink'.greet = itemLink.greet /\ itemLink'.lagged = itemLink.lagged
      BY <1>1, <2>1
    <2>4. itemLink' \in [on : BOOLEAN, greet : Seq(BOOLEAN), queue : Seq(ItemMessage),
                         lagged : BOOLEAN]
      BY <1>1, <2>1, <2>2
    <2> QED
      BY <1>3, <2>2, <2>3, <2>4
  <1>4. CASE itemLink.on /\ ~(Len(q) < ItemChannel)
    <2> DEFINE z == Append(Tail(q), m)
    <2>1. itemLink' = [itemLink EXCEPT !.queue = z, !.lagged = TRUE]
      BY <1>4 DEF Item!Broadcast
    <2>2. q # << >>
      BY <1>1, <1>4, ItemAssumption
    <2>3. Tail(q) \in Seq(ItemMessage)
      BY <1>1, <2>2
    <2>4. z \in Seq(ItemMessage) /\ Len(Tail(q)) + 1 \in DOMAIN z /\ z[Len(Tail(q)) + 1] = m
      BY <2>3
    <2> HIDE DEF z
    <2>5. /\ itemLink'.queue = z /\ itemLink'.on = itemLink.on
          /\ itemLink'.greet = itemLink.greet /\ itemLink'.lagged
      BY <1>1, <2>1
    <2>6. itemLink' \in [on : BOOLEAN, greet : Seq(BOOLEAN), queue : Seq(ItemMessage),
                         lagged : BOOLEAN]
      BY <1>1, <2>1, <2>4
    <2> QED
      BY <1>4, <2>4, <2>5, <2>6
  <1> QED
    BY <1>2, <1>3, <1>4

\* What waits for a message still waits for it.
LEMMA SentOnKeeps ==
  ASSUME ItemType, ItemKept, NEW m \in ItemMessage, itemLink' = Item!Broadcast(m),
         UNCHANGED item, NEW kind, Coming(kind)
  PROVE  Coming(kind)'
  <1>1. CASE itemLink.lagged
    BY <1>1, SentOn DEF Coming
  <1>2. CASE Queued(itemLink.queue, kind)
    <2>1. itemLink'.lagged \/ Queued(itemLink.queue, kind)'
      BY <1>2, SentOn DEF Queued
    <2> QED
      BY <2>1 DEF Coming
  <1> QED
    BY <1>1, <1>2 DEF Coming

\* The page and its stream are left alone.
LEMMA PageLeftAlone ==
  ASSUME ItemInv,
         UNCHANGED <<itemChanged, item, shown, itemLink, itemAdapter, itemCo, itemRuns, seen,
                     gap, itemFailed, itemBehind>>
  PROVE  ItemKept' /\ ItemInformed'
  <1>1. ItemKept'
    BY DEF ItemInv, ItemKept, Item!Refreshing
  <1>2. ItemInformed'
    BY DEF ItemInv, ItemInformed, Coming, Queued, Fresh, Item!Counts
  <1> QED
    BY <1>1, <1>2

\* The typing client is left alone.
LEMMA TypistLeftAlone ==
  ASSUME ItemInv, UNCHANGED <<ctl, posts, presence>>, doubt'.report = doubt.report,
         doubt'.entry = doubt.entry
  PROVE  ReportedInTime'
  BY DEF ItemInv, ReportedInTime

LEMMA CtlShape ==
  ASSUME ItemType
  PROVE  /\ ctl.focus \in BOOLEAN /\ ctl.active \in BOOLEAN /\ ctl.gone \in BOOLEAN
         /\ ctl.age \in Nat /\ ctl.idle \in Nat /\ presence \in Nat
         /\ posts \in Seq(BOOLEAN)
         /\ doubt.report \in BOOLEAN /\ doubt.lapse \in BOOLEAN /\ doubt.entry \in BOOLEAN
  BY DEF ItemType

ItemPages == <<itemChanged, item, shown, itemLink, itemAdapter, itemCo, itemRuns, seen,
           gap, itemFailed, itemBehind>>

LEMMA AppendedLast ==
  ASSUME NEW S, NEW s \in Seq(S), NEW e \in S
  PROVE  /\ Append(s, e) \in Seq(S) /\ Append(s, e) # << >>
         /\ Len(Append(s, e)) = Len(s) + 1 /\ Append(s, e)[Len(s) + 1] = e
         /\ DOMAIN Append(s, e) = 1 .. Len(s) + 1
         /\ \A n \in DOMAIN s : n \in DOMAIN Append(s, e) /\ Append(s, e)[n] = s[n]
         /\ \A n \in DOMAIN Append(s, e) : n \in DOMAIN s \/ n = Len(s) + 1
  OBVIOUS

LEMMA ReportAdded ==
  ASSUME posts \in Seq(BOOLEAN), NEW active \in BOOLEAN
  PROVE  /\ Append(posts, active) \in Seq(BOOLEAN) /\ Append(posts, active) # << >>
         /\ Append(posts, active)[Len(Append(posts, active))] = active
  <1>1. /\ Append(posts, active) \in Seq(BOOLEAN) /\ Append(posts, active) # << >>
        /\ Len(Append(posts, active)) = Len(posts) + 1
        /\ Append(posts, active)[Len(posts) + 1] = active
    BY AppendedLast
  <1> QED
    BY <1>1

\* A key: a report, or one recent enough.
LEMMA PublishKeeps ==
  ASSUME ItemInv, NEW renew \in BOOLEAN, Item!Publish(renew)
  PROVE  ItemInv'
  <1> DEFINE r == Item!Reports(renew)
             a == IF r THEN 0 ELSE ctl.age
             e == ~r /\ (doubt.entry \/ ~renew)
  <1>1. /\ UNCHANGED ItemPages /\ UNCHANGED presence
        /\ ctl' = [ctl EXCEPT !.focus = TRUE, !.active = TRUE, !.idle = IdleAfter, !.age = a]
        /\ doubt' = [doubt EXCEPT !.entry = e]
        /\ posts' = IF r THEN Append(posts, TRUE) ELSE posts
    BY DEF Item!Publish, Item!Report, Item!whyVars, ItemPages
  <1>2. /\ ItemType
        /\ ctl \in [focus : BOOLEAN, active : BOOLEAN, age : Nat, idle : Nat, gone : BOOLEAN]
        /\ doubt \in [report : BOOLEAN, lapse : BOOLEAN, entry : BOOLEAN]
    BY DEF ItemInv, ItemType
  <1>3. r = (~ctl.active \/ (renew /\ ctl.age >= Renewal))
    BY DEF Item!Reports
  <1>4. a \in Nat /\ e \in BOOLEAN /\ r \in BOOLEAN
    BY <1>2, <1>3, CtlShape
  <1>5. ~e => a < Renewal
    BY <1>2, <1>3, CtlShape, ItemAssumption
  <1>6. ~r => ctl.active /\ a = ctl.age
    BY <1>3
  <1>12. r => a = 0
    OBVIOUS
  <1> HIDE DEF r, a, e
  <1>7. /\ ctl'.active /\ ctl'.idle = IdleAfter /\ ctl'.age = a
        /\ ctl' \in [focus : BOOLEAN, active : BOOLEAN, age : Nat, idle : Nat, gone : BOOLEAN]
    BY <1>1, <1>2, <1>4, ItemAssumption
  <1>8. /\ doubt'.report = doubt.report /\ doubt'.lapse = doubt.lapse /\ doubt'.entry = e
        /\ doubt' \in [report : BOOLEAN, lapse : BOOLEAN, entry : BOOLEAN]
    BY <1>1, <1>2, <1>4
  <1>9. posts' \in Seq(BOOLEAN)
    <2>1. posts \in Seq(BOOLEAN) /\ Append(posts, TRUE) \in Seq(BOOLEAN)
      BY <1>2, CtlShape, ReportAdded
    <2> QED
      BY <1>1, <2>1
  <1>10. ItemType'
    BY <1>1, <1>2, <1>7, <1>8, <1>9 DEF ItemType, ItemPages
  <1>11. ReportedInTime'
    <2>1. ctl'.idle >= 1
      BY <1>7, ItemAssumption
    <2>2. ~e => a + IdleAfter < Renewal + IdleAfter
      BY <1>4, <1>5, ItemAssumption
    <2>3. CASE r
      <3>1. posts' # << >> /\ posts'[Len(posts')]
        <4>1. posts' = Append(posts, TRUE) /\ posts \in Seq(BOOLEAN)
          BY <1>1, <1>2, <2>3, CtlShape
        <4>2. posts' # << >> /\ posts'[Len(posts')] = TRUE
          BY <4>1, ReportAdded
        <4> QED
          BY <4>2
      <3> QED
        BY <1>7, <1>8, <2>1, <2>2, <3>1 DEF ReportedInTime
    <2>4. CASE ~r
      BY <1>1, <1>6, <1>7, <1>8, <2>1, <2>2, <2>4 DEF ItemInv, ReportedInTime
    <2> QED
      BY <2>3, <2>4
  <1>13. TypingKnown'
    BY <1>1, <1>8 DEF ItemInv, TypingKnown, Coming, Queued, Item!Typing, ItemPages
  <1> QED
    BY <1>1, <1>10, <1>11, <1>13, PageLeftAlone DEF ItemInv, ItemPages

\* The editor is left, taken away or the page closed.
LEMMA ItemStopKeeps ==
  ASSUME ItemInv, Item!Stop \/ Item!Removed \/ Item!Dispose
  PROVE  ItemInv'
  <1>1. UNCHANGED ItemPages /\ UNCHANGED <<presence, doubt>>
    BY DEF Item!Stop, Item!Removed, Item!Dispose, Item!whyVars, ItemPages
  <1>2. /\ ItemType /\ posts \in Seq(BOOLEAN)
        /\ ctl \in [focus : BOOLEAN, active : BOOLEAN, age : Nat, idle : Nat, gone : BOOLEAN]
    BY DEF ItemInv, ItemType
  <1>3. posts' \in {posts, Append(posts, FALSE)}
    BY DEF Item!Stop, Item!Removed, Item!Dispose, Item!Report
  <1>4. posts' \in Seq(BOOLEAN)
    BY <1>2, <1>3, ReportAdded
  <1>5. /\ ctl' \in [focus : BOOLEAN, active : BOOLEAN, age : Nat, idle : Nat, gone : BOOLEAN]
        /\ ~ctl'.active \/ (posts' = posts /\ ctl'.active = ctl.active /\ ctl'.age = ctl.age
                           /\ ctl'.idle = ctl.idle)
    <2> DEFINE w == [ctl EXCEPT !.active = FALSE, !.age = 0, !.idle = 0]
    <2>1. /\ w \in [focus : BOOLEAN, active : BOOLEAN, age : Nat, idle : Nat, gone : BOOLEAN]
          /\ ~w.active /\ w = Item!Stopped(ctl)
      BY <1>2 DEF Item!Stopped
    <2> HIDE DEF w
    <2>2. CASE Item!Stop
      <3>1. ctl' = [w EXCEPT !.focus = FALSE]
        BY <2>1, <2>2 DEF Item!Stop
      <3> QED
        BY <2>1, <3>1
    <2>3. CASE Item!Dispose
      <3>1. ctl' = [w EXCEPT !.gone = TRUE]
        BY <2>1, <2>3 DEF Item!Dispose
      <3> QED
        BY <2>1, <3>1
    <2>4. CASE Item!Removed
      <3>1. ctl' = [ctl EXCEPT !.focus = FALSE] /\ posts' = posts
        BY <2>4 DEF Item!Removed
      <3> QED
        BY <1>2, <3>1
    <2> QED
      BY <2>2, <2>3, <2>4
  <1>6. ItemType'
    BY <1>1, <1>2, <1>4, <1>5 DEF ItemType, ItemPages
  <1>7. ReportedInTime'
    BY <1>1, <1>5 DEF ItemInv, ReportedInTime
  <1>8. TypingKnown'
    BY <1>1 DEF ItemInv, TypingKnown, Coming, Queued, Item!Typing, ItemPages
  <1> QED
    BY <1>1, <1>6, <1>7, <1>8, PageLeftAlone DEF ItemInv, ItemPages

\* Time passes, for the idle timer and for the entry alike.
LEMMA TickKeeps ==
  ASSUME ItemInv, Item!Tick
  PROVE  ItemInv'
  <1> DEFINE i == IF ctl.idle > 0 THEN ctl.idle - 1 ELSE 0
             a == IF ctl.active THEN ctl.age + 1 ELSE 0
  <1>1. /\ UNCHANGED ItemPages
        /\ IF ctl.idle = 1 THEN ctl' = Item!Stopped(ctl) /\ posts' = Append(posts, FALSE)
           ELSE ctl' = [ctl EXCEPT !.idle = i, !.age = a] /\ posts' = posts
        /\ presence' = IF presence > 0 THEN presence - 1 ELSE 0
        /\ doubt' = [doubt EXCEPT !.lapse = @ \/ presence = 1]
    BY DEF Item!Tick, Item!Report, Item!whyVars, ItemPages
  <1>2. /\ ItemType /\ posts \in Seq(BOOLEAN) /\ presence \in Nat
        /\ ctl \in [focus : BOOLEAN, active : BOOLEAN, age : Nat, idle : Nat, gone : BOOLEAN]
        /\ doubt \in [report : BOOLEAN, lapse : BOOLEAN, entry : BOOLEAN]
        /\ ctl.idle \in Nat /\ ctl.age \in Nat /\ ctl.active \in BOOLEAN
    BY DEF ItemInv, ItemType
  <1>3. i \in Nat /\ a \in Nat
    BY <1>2
  <1>4. /\ doubt'.report = doubt.report /\ doubt'.entry = doubt.entry
        /\ doubt'.lapse = (doubt.lapse \/ presence = 1)
        /\ doubt' \in [report : BOOLEAN, lapse : BOOLEAN, entry : BOOLEAN]
    BY <1>1, <1>2
  <1>5. presence' \in Nat
    BY <1>1, <1>2
  <1>6. ctl.active /\ ctl.idle # 1 => i >= 1 /\ i + a = ctl.idle + ctl.age
                      /\ (presence + ctl.age >= TTL => presence' + a >= TTL)
    BY <1>1, <1>2, ItemAssumption DEF ItemInv, ReportedInTime
  <1>9. TypingKnown'
    <2>1. ~doubt'.lapse => Item!Typing(item)' = Item!Typing(item)
      BY <1>1, <1>2, <1>4 DEF Item!Typing, ItemPages
    <2> QED
      BY <1>1, <1>4, <2>1 DEF ItemInv, TypingKnown, Coming, Queued, ItemPages
  <1> HIDE DEF i, a
  <1>7. CASE ctl.idle = 1
    <2>1. /\ ctl' \in [focus : BOOLEAN, active : BOOLEAN, age : Nat, idle : Nat, gone : BOOLEAN]
          /\ ~ctl'.active
      <3>1. ctl' = [ctl EXCEPT !.active = FALSE, !.age = 0, !.idle = 0]
        BY <1>1, <1>7 DEF Item!Stopped
      <3> QED
        BY <1>2, <3>1
    <2>2. posts' \in Seq(BOOLEAN)
      <3>1. posts' = Append(posts, FALSE)
        BY <1>1, <1>7
      <3> QED
        BY <1>2, <3>1, ReportAdded
    <2>3. ItemType'
      BY <2>1, <2>2, <1>1, <1>2, <1>4, <1>5 DEF ItemType, ItemPages
    <2>4. ReportedInTime'
      BY <2>1 DEF ReportedInTime
    <2> QED
      BY <1>1, <1>9, <2>3, <2>4, PageLeftAlone DEF ItemInv, ItemPages
  <1>8. CASE ctl.idle # 1
    <2>1. /\ ctl' \in [focus : BOOLEAN, active : BOOLEAN, age : Nat, idle : Nat, gone : BOOLEAN]
          /\ ctl'.active = ctl.active /\ ctl'.idle = i /\ ctl'.age = a /\ posts' = posts
      BY <1>1, <1>2, <1>3, <1>8
    <2>2. ItemType'
      BY <2>1, <1>1, <1>2, <1>4, <1>5 DEF ItemType, ItemPages
    <2>3. ReportedInTime'
      <3> SUFFICES ASSUME ctl'.active
                   PROVE  /\ ctl'.idle >= 1
                          /\ ~doubt'.entry => ctl'.age + ctl'.idle < Renewal + IdleAfter
                          /\ ~doubt'.report => IF posts' = << >> THEN presence' + ctl'.age >= TTL
                                               ELSE posts'[Len(posts')]
        BY DEF ReportedInTime
      <3>1. ctl.active
        BY <2>1
      <3>2. i >= 1 /\ i + a = ctl.idle + ctl.age
            /\ (presence + ctl.age >= TTL => presence' + a >= TTL)
        BY <1>6, <1>8, <3>1
      <3>3. ~doubt.entry => a + i < Renewal + IdleAfter
        BY <1>2, <1>3, <3>1, <3>2, ItemAssumption DEF ItemInv, ReportedInTime
      <3> QED
        BY <1>4, <2>1, <3>1, <3>2, <3>3 DEF ItemInv, ReportedInTime
    <2> QED
      BY <1>1, <1>9, <2>2, <2>3, PageLeftAlone DEF ItemInv, ItemPages
  <1> QED
    BY <1>7, <1>8

\* A report arrives, and the page is told.
LEMMA ReportedKeeps ==
  ASSUME ItemInv, Item!Reported
  PROVE  ItemInv'
  <1> DEFINE m == [item |-> Typed, kind |-> "typing"]
  <1>1. PICK n \in DOMAIN posts :
               /\ presence' = IF posts[n] THEN TTL ELSE 0
               /\ posts' = Item!Without(posts, n)
               /\ doubt' = [doubt EXCEPT !.report = @ \/ n # 1]
    BY DEF Item!Reported
  <1>2. /\ itemLink' = Item!Broadcast(m)
        /\ UNCHANGED <<itemChanged, item, shown, itemAdapter, itemCo, itemRuns, seen, gap,
                       itemFailed, itemBehind, ctl>>
    BY DEF Item!Reported, Item!whyVars
  <1>3. /\ ItemType /\ ItemKept /\ m \in ItemMessage
        /\ doubt \in [report : BOOLEAN, lapse : BOOLEAN, entry : BOOLEAN]
    BY ItemAssumption DEF ItemInv, ItemType, ItemMessage
  <1>4. /\ doubt'.report = (doubt.report \/ n # 1) /\ doubt'.lapse = doubt.lapse
        /\ doubt'.entry = doubt.entry
        /\ doubt' \in [report : BOOLEAN, lapse : BOOLEAN, entry : BOOLEAN]
    BY <1>1, <1>3
  <1>5. /\ posts' \in Seq(BOOLEAN) /\ Len(posts') = Len(posts) - 1
        /\ n = 1 /\ Len(posts) > 1 => posts'[Len(posts) - 1] = posts[Len(posts)]
    BY <1>1, <1>3, CtlShape, WithoutOne
  <1>6. presence' \in Nat
    BY <1>1, ItemAssumption
  <1> HIDE DEF m
  <1>7. ItemType'
    BY <1>2, <1>3, <1>4, <1>5, <1>6, SentOn DEF ItemType
  <1>8. ItemKept'
    <2>1. /\ itemLink'.on => item' # Item!Away
          /\ ~itemLink'.on => itemLink'.queue = << >> /\ ~itemLink'.lagged
      BY <1>2, <1>3, SentOn DEF ItemKept
    <2> QED
      BY <1>2, <1>3, <2>1 DEF ItemKept, Item!Refreshing
  <1>9. ItemInformed'
    <2>1. Coming("discussion-refresh") => Coming("discussion-refresh")'
      BY <1>2, <1>3, SentOnKeeps
    <2> QED
      BY <1>2, <2>1 DEF ItemInv, ItemInformed, Fresh, Item!Counts
  <1>10. ReportedInTime'
    <2> SUFFICES ASSUME ctl.active, ~doubt'.report
                 PROVE  IF posts' = << >> THEN presence' + ctl.age >= TTL
                        ELSE posts'[Len(posts')]
      BY <1>2, <1>4 DEF ItemInv, ReportedInTime
    <2>1. n = 1 /\ ~doubt.report
      BY <1>4
    <2>2. posts \in Seq(BOOLEAN) /\ posts # << >> /\ Len(posts) >= 1 /\ ctl.age \in Nat
      BY <1>1, <1>3, CtlShape
    <2>3. posts[Len(posts)]
      BY <2>1, <2>2 DEF ItemInv, ReportedInTime
    <2>4. CASE Len(posts) = 1
      <3>1. posts' = << >>
        BY <1>5, <2>4
      <3>2. presence' = TTL
        BY <1>1, <2>1, <2>3, <2>4
      <3> QED
        BY <2>2, <3>1, <3>2, ItemAssumption
    <2>5. CASE Len(posts) # 1
      <3>1. Len(posts') = Len(posts) - 1 /\ posts' # << >> /\ Len(posts) > 1
        BY <1>5, <2>2, <2>5
      <3>2. posts'[Len(posts')] = posts[Len(posts)]
        BY <1>5, <2>1, <3>1
      <3> QED
        BY <2>3, <3>1, <3>2
    <2> QED
      BY <2>4, <2>5
  <1>11. TypingKnown'
    <2> SUFFICES ASSUME itemLink'.on, ~doubt'.lapse, ~Coming("typing")'
                 PROVE  \/ itemLink'.greet = <<Item!Typing(item)'>>
                        \/ itemLink'.greet = << >> /\ seen' = Item!Typing(item)'
      BY DEF TypingKnown
    <2>1. itemLink.on /\ itemLink'.greet = itemLink.greet /\ ~doubt.lapse
          /\ \E k \in DOMAIN itemLink'.queue : itemLink'.queue[k] = m
      BY <1>2, <1>3, <1>4, SentOn
    <2>2. ~Coming("typing")
      BY <1>2, <1>3, SentOnKeeps
    <2>3. item # Typed
      BY <1>2, <2>1 DEF Coming, Queued, m
    <2>4. Item!Typing(item)' = Item!Typing(item)
      BY <1>2, <2>3 DEF Item!Typing
    <2> QED
      BY <1>2, <2>1, <2>2, <2>4 DEF ItemInv, TypingKnown
  <1> QED
    BY <1>7, <1>8, <1>9, <1>10, <1>11 DEF ItemInv

LEMMA ReportLostKeeps ==
  ASSUME ItemInv, Item!ReportLost
  PROVE  ItemInv'
  <1>1. /\ UNCHANGED ItemPages /\ UNCHANGED <<ctl, presence>> /\ posts # << >>
        /\ posts' = Tail(posts) /\ doubt' = [doubt EXCEPT !.report = TRUE]
    BY DEF Item!ReportLost, Item!whyVars, ItemPages
  <1>2. /\ ItemType /\ posts \in Seq(BOOLEAN)
        /\ doubt \in [report : BOOLEAN, lapse : BOOLEAN, entry : BOOLEAN]
    BY DEF ItemInv, ItemType
  <1>3. posts' \in Seq(BOOLEAN)
    BY <1>1, <1>2, HeadTailProperties
  <1>4. /\ doubt'.report /\ doubt'.lapse = doubt.lapse /\ doubt'.entry = doubt.entry
        /\ doubt' \in [report : BOOLEAN, lapse : BOOLEAN, entry : BOOLEAN]
    BY <1>1, <1>2
  <1>5. ItemType'
    BY <1>1, <1>2, <1>3, <1>4 DEF ItemType, ItemPages
  <1>6. ReportedInTime'
    BY <1>1, <1>4 DEF ItemInv, ReportedInTime
  <1>7. TypingKnown'
    BY <1>1, <1>4 DEF ItemInv, TypingKnown, Coming, Queued, Item!Typing, ItemPages
  <1> QED
    BY <1>1, <1>5, <1>6, <1>7, PageLeftAlone DEF ItemInv, ItemPages

\* A change is broadcast, or happens while the stream is down.
LEMMA ItemChangeKeeps ==
  ASSUME ItemInv, Item!Change
  PROVE  ItemInv'
  <1>1. PICK i \in Items :
               /\ itemChanged' = [itemChanged EXCEPT ![i] = @ + 1]
               /\ itemLink' = Item!Broadcast([item |-> i, kind |-> "discussion-refresh"])
               /\ gap' = (gap \/ (i = item /\ ~itemLink.on))
    BY DEF Item!Change
  <1> DEFINE m == [item |-> i, kind |-> "discussion-refresh"]
  <1>2. UNCHANGED <<item, shown, itemAdapter, itemCo, itemRuns, seen, itemFailed,
                    itemBehind, ctl, posts, presence, doubt>>
    BY DEF Item!Change, Item!typistVars
  <1>3. /\ ItemType /\ ItemKept /\ m \in ItemMessage /\ itemLink' = Item!Broadcast(m)
        /\ itemChanged \in [Items -> Nat] /\ gap \in BOOLEAN
    BY <1>1 DEF ItemInv, ItemType, ItemMessage
  <1> HIDE DEF m
  <1>4. /\ itemChanged' \in [Items -> Nat]
        /\ \A j \in Items : itemChanged'[j] >= itemChanged[j]
                            /\ (j # i => itemChanged'[j] = itemChanged[j])
    BY <1>1, <1>3
  <1>5. ItemType'
    <2>1. gap' \in BOOLEAN
      BY <1>1
    <2>2. itemLink' \in [on : BOOLEAN, greet : Seq(BOOLEAN), queue : Seq(ItemMessage),
                         lagged : BOOLEAN]
      BY <1>3, SentOn
    <2> QED
      BY <1>2, <1>3, <1>4, <2>1, <2>2 DEF ItemType
  <1>6. ItemKept'
    <2>1. /\ itemLink'.on => item' # Item!Away
          /\ ~itemLink'.on => itemLink'.queue = << >> /\ ~itemLink'.lagged
      BY <1>2, <1>3, SentOn DEF ItemKept
    <2>2. \A n \in DOMAIN itemRuns : itemRuns[n].value <= itemChanged'[itemRuns[n].item]
      <3> SUFFICES ASSUME NEW n \in DOMAIN itemRuns
                   PROVE  itemRuns[n].value <= itemChanged'[itemRuns[n].item]
        OBVIOUS
      <3>1. itemRuns[n].item \in Items /\ itemRuns[n].value \in Nat
        BY <1>3, ItemShape
      <3>2. itemRuns[n].value <= itemChanged[itemRuns[n].item]
        BY <1>3 DEF ItemKept
      <3> QED
        BY <1>3, <1>4, <3>1, <3>2
    <2> QED
      BY <1>2, <1>3, <2>1, <2>2 DEF ItemKept, Item!Refreshing
  <1>7. ItemInformed'
    <2> SUFFICES ASSUME item # Item!Away, ~gap', ~itemFailed, ~itemBehind,
                        ~Coming("discussion-refresh")', ~itemCo.pending
                 PROVE  \/ \E n \in DOMAIN itemRuns' : Fresh(itemRuns[n])'
                        \/ shown = itemChanged'[item]
      BY <1>2 DEF ItemInformed
    <2>1. ~gap /\ item \in Items /\ ~(i = item /\ ~itemLink.on)
      BY <1>1, <1>3 DEF ItemType
    <2>2. i # item
      <3> SUFFICES ASSUME i = item, itemLink.on PROVE FALSE
        BY <2>1
      <3>1. \E n \in DOMAIN itemLink'.queue : itemLink'.queue[n] = m
        BY <1>3, SentOn
      <3> QED
        BY <1>2, <3>1 DEF Coming, Queued, m
    <2>3. itemChanged'[item] = itemChanged[item]
      BY <1>4, <2>1, <2>2
    <2>4. ~Coming("discussion-refresh")
      BY <1>2, <1>3, SentOnKeeps
    <2> QED
      BY <1>2, <2>1, <2>3, <2>4 DEF ItemInv, ItemInformed, Fresh, Item!Counts
  <1>8. TypingKnown'
    <2>1. Coming("typing") => Coming("typing")'
      BY <1>2, <1>3, SentOnKeeps
    <2>2. itemLink'.on = itemLink.on /\ itemLink'.greet = itemLink.greet
      BY <1>3, SentOn
    <2> QED
      BY <1>2, <2>1, <2>2 DEF ItemInv, TypingKnown, Item!Typing
  <1>9. ReportedInTime'
    BY <1>2, TypistLeftAlone
  <1> QED
    BY <1>5, <1>6, <1>7, <1>8, <1>9 DEF ItemInv

\* The stream comes up, with the typing of the moment, or goes down.
LEMMA ItemStreamKeeps ==
  ASSUME ItemInv, Item!Connect \/ Item!Drop
  PROVE  ItemInv'
  <1>1. UNCHANGED <<itemChanged, item, shown, itemAdapter, itemCo, itemRuns, seen, itemFailed,
                    itemBehind, ctl, posts, presence, doubt>>
    BY DEF Item!Connect, Item!Drop, Item!typistVars, Item!whyVars
  <1>2. ItemType /\ ItemKept /\ gap \in BOOLEAN
    BY DEF ItemInv, ItemType
  <1>3. ReportedInTime'
    BY <1>1, TypistLeftAlone
  <1>4. CASE Item!Connect
    <2>1. Item!Typing(item) \in BOOLEAN
      BY DEF Item!Typing
    <2>2. itemLink' = [on |-> TRUE, greet |-> <<Item!Typing(item)>>, queue |-> << >>,
                       lagged |-> FALSE]
          /\ gap' = gap /\ item # Item!Away /\ ~itemLink.on
      BY <1>4 DEF Item!Connect, Item!Off, Item!whyVars
    <2>3. <<Item!Typing(item)>> \in Seq(BOOLEAN) /\ << >> \in Seq(ItemMessage)
      BY <2>1
    <2> DEFINE g == <<Item!Typing(item)>>
    <2> HIDE DEF g
    <2>4. itemLink' \in [on : BOOLEAN, greet : Seq(BOOLEAN), queue : Seq(ItemMessage),
                         lagged : BOOLEAN]
      BY <2>2, <2>3 DEF g
    <2>5. ItemType'
      BY <1>1, <1>2, <2>2, <2>4 DEF ItemType
    <2>6. ItemKept'
      BY <1>1, <1>2, <2>2 DEF ItemKept, Item!Refreshing
    <2>7. ~Coming("discussion-refresh")
      BY <1>2, <2>2 DEF ItemKept, Coming, Queued
    <2>8. ItemInformed'
      BY <1>1, <2>2, <2>7 DEF ItemInv, ItemInformed, Fresh, Item!Counts
    <2>9. TypingKnown'
      <3>1. itemLink'.greet = <<Item!Typing(item)>>
        BY <2>2
      <3>2. Item!Typing(item)' = Item!Typing(item)
        BY <1>1 DEF Item!Typing
      <3> QED
        BY <3>1, <3>2 DEF TypingKnown
    <2> QED
      BY <1>3, <2>5, <2>6, <2>8, <2>9 DEF ItemInv
  <1>5. CASE Item!Drop
    <2>1. /\ itemLink' = [on |-> FALSE, greet |-> << >>, queue |-> << >>, lagged |-> FALSE]
          /\ gap' = (gap \/ Coming("discussion-refresh"))
      BY <1>5 DEF Item!Drop, Item!Off, Coming, Queued
    <2>2. itemLink' \in [on : BOOLEAN, greet : Seq(BOOLEAN), queue : Seq(ItemMessage),
                         lagged : BOOLEAN]
      BY <2>1
    <2>3. gap' \in BOOLEAN
      BY <2>1
    <2>4. ItemType'
      BY <1>1, <1>2, <2>2, <2>3 DEF ItemType
    <2>5. ItemKept'
      BY <1>1, <1>2, <2>1 DEF ItemKept, Item!Refreshing
    <2>6. ItemInformed'
      BY <1>1, <2>1 DEF ItemInv, ItemInformed, Fresh, Item!Counts
    <2>7. TypingKnown'
      BY <2>1 DEF TypingKnown
    <2> QED
      BY <1>3, <2>4, <2>5, <2>6, <2>7 DEF ItemInv
  <1> QED
    BY <1>4, <1>5

\* Another event of the stream: its number is new, so it is not dropped.
LEMMA ItemHandled ==
  ASSUME ItemType, ItemKept, item \in Items, NEW kind, NEW typing, Item!Handle(kind, typing)
  PROVE  /\ itemAdapter' = itemAdapter + 1 /\ itemAdapter' \in Nat
         /\ itemCo' \in [seq : Nat, pending : BOOLEAN] /\ itemCo'.seq = itemAdapter'
         /\ itemRuns' \in Seq(ItemRun)
         /\ kind = "typing" =>
              seen' = typing /\ itemCo'.pending = itemCo.pending /\ itemRuns' = itemRuns
         /\ kind # "typing" =>
              /\ seen' = seen
              /\ \/ itemCo'.pending /\ itemRuns' = itemRuns /\ Item!Refreshing
                 \/ /\ ~itemCo'.pending /\ itemRuns' = Append(itemRuns, Item!Run("refresh"))
                    /\ Item!Run("refresh") \in ItemRun
  <1>1. /\ itemCo \in [seq : Nat, pending : BOOLEAN] /\ itemAdapter \in Nat
        /\ itemRuns \in Seq(ItemRun) /\ itemCo.seq \in Nat /\ itemCo.seq <= itemAdapter
    BY DEF ItemType, ItemKept
  <1>2. ~(itemAdapter + 1 <= itemCo.seq) /\ itemAdapter + 1 \in Nat
    BY <1>1
  <1>3. CASE kind = "typing"
    <2>1. /\ itemAdapter' = itemAdapter + 1 /\ seen' = typing
          /\ itemCo' = [itemCo EXCEPT !.seq = itemAdapter + 1] /\ itemRuns' = itemRuns
      BY <1>2, <1>3 DEF Item!Handle
    <2> QED
      BY <1>1, <1>2, <1>3, <2>1
  <1>4. CASE kind # "typing"
    <2>1. itemAdapter' = itemAdapter + 1 /\ Item!Invalidated /\ seen' = seen
      BY <1>2, <1>4 DEF Item!Handle
    <2>2. CASE Item!Refreshing
      <3>1. itemCo' = [seq |-> itemAdapter + 1, pending |-> TRUE] /\ itemRuns' = itemRuns
        BY <2>1, <2>2 DEF Item!Invalidated
      <3> QED
        BY <1>1, <1>2, <1>4, <2>1, <2>2, <3>1
    <2>3. CASE ~Item!Refreshing
      <3>1. /\ itemCo' = [seq |-> itemAdapter + 1, pending |-> FALSE]
            /\ itemRuns' = Append(itemRuns, Item!Run("refresh"))
        BY <2>1, <2>3 DEF Item!Invalidated
      <3>2. Item!Run("refresh") \in ItemRun
        BY DEF Item!Run, ItemRun
      <3> HIDE DEF Item!Run
      <3>3. itemRuns' \in Seq(ItemRun)
        BY <1>1, <3>1, <3>2, AppendedLast
      <3> QED
        BY <1>1, <1>2, <1>4, <2>1, <3>1, <3>2, <3>3
    <2> QED
      BY <2>2, <2>3
  <1> QED
    BY <1>3, <1>4

\* The page after an event of the discussion: it will be loaded again.
LEMMA ItemTold ==
  ASSUME ItemType, ItemKept, item \in Items, UNCHANGED <<itemChanged, item>>,
         NEW kind, NEW typing, Item!Handle(kind, typing)
  PROVE  /\ itemCo'.seq <= itemAdapter'
         /\ \A n \in DOMAIN itemRuns' :
              /\ itemRuns'[n].value <= itemChanged'[itemRuns'[n].item]
              /\ itemRuns'[n].live => itemRuns'[n].item = item'
         /\ itemCo'.pending => Item!Refreshing'
         /\ kind # "typing" =>
              itemCo'.pending \/ \E n \in DOMAIN itemRuns' : Fresh(itemRuns[n])'
         /\ kind = "typing" => itemRuns' = itemRuns /\ itemCo'.pending = itemCo.pending
  <1>1. itemRuns \in Seq(ItemRun) /\ itemChanged \in [Items -> Nat]
    BY DEF ItemType
  <1>2. itemCo'.seq <= itemAdapter'
    <2>1. itemCo'.seq = itemAdapter' /\ itemAdapter' \in Nat
      BY ItemHandled
    <2> QED
      BY <2>1
  <1>3. CASE itemRuns' = itemRuns
    BY <1>2, <1>3, ItemHandled DEF ItemKept, Item!Refreshing, Fresh, Item!Counts
  <1>4. CASE itemRuns' # itemRuns
    <2> DEFINE r == Item!Run("refresh")
    <2>1. kind # "typing" /\ ~itemCo'.pending /\ itemRuns' = Append(itemRuns, r) /\ r \in ItemRun
      BY <1>4, ItemHandled
    <2>2. r.kind = "refresh" /\ r.item = item /\ r.stage = "asked" /\ r.value = 0 /\ r.live
      BY DEF Item!Run
    <2> HIDE DEF r
    <2>3. /\ \A n \in DOMAIN itemRuns : n \in DOMAIN itemRuns' /\ itemRuns'[n] = itemRuns[n]
          /\ \A n \in DOMAIN itemRuns' : n \in DOMAIN itemRuns \/ itemRuns'[n] = r
          /\ \E n \in DOMAIN itemRuns' : itemRuns'[n] = r
      <3>1. Len(itemRuns) + 1 \in 1 .. Len(itemRuns) + 1
        BY <1>1
      <3> QED
        BY <1>1, <2>1, <3>1, AppendedLast
    <2>4. \A n \in DOMAIN itemRuns' :
              /\ itemRuns'[n].value <= itemChanged'[itemRuns'[n].item]
              /\ itemRuns'[n].live => itemRuns'[n].item = item'
      <3> SUFFICES ASSUME NEW n \in DOMAIN itemRuns'
                   PROVE  /\ itemRuns'[n].value <= itemChanged[itemRuns'[n].item]
                          /\ itemRuns'[n].live => itemRuns'[n].item = item
        OBVIOUS
      <3>1. CASE n \in DOMAIN itemRuns
        BY <2>3, <3>1 DEF ItemKept
      <3>2. CASE itemRuns'[n] = r
        <4>1. itemChanged[item] \in Nat
          BY <1>1
        <4> QED
          BY <2>2, <3>2, <4>1
      <3> QED
        BY <2>3, <3>1, <3>2
    <2>5. \E n \in DOMAIN itemRuns' : Fresh(itemRuns[n])'
      BY <2>2, <2>3 DEF Fresh, Item!Counts
    <2> QED
      BY <1>2, <2>1, <2>4, <2>5
  <1> QED
    BY <1>3, <1>4

\* What is left to say is not less for having said something else.
LEMMA ItemReceiveKeeps ==
  ASSUME ItemInv, Item!Receive
  PROVE  ItemInv'
  <1>1. /\ itemLink.on
        /\ UNCHANGED <<itemChanged, item, shown, gap, itemFailed, itemBehind, ctl, posts,
                       presence>>
    BY DEF Item!Receive, Item!typistVars, Item!whyVars
  <1>2. /\ ItemType /\ ItemKept /\ item \in Items
        /\ itemLink \in [on : BOOLEAN, greet : Seq(BOOLEAN), queue : Seq(ItemMessage),
                         lagged : BOOLEAN]
        /\ doubt \in [report : BOOLEAN, lapse : BOOLEAN, entry : BOOLEAN] /\ seen \in BOOLEAN
    BY <1>1 DEF ItemInv, ItemType, ItemKept
  <1>3. Item!Typing(item)' = Item!Typing(item) /\ Item!Typing(item) \in BOOLEAN
    BY <1>1 DEF Item!Typing
  <1>4. CASE itemLink.greet # << >>
    <2> DEFINE h == Head(itemLink.greet)
    <2>1. itemLink' = [itemLink EXCEPT !.greet = << >>] /\ Item!Handle("typing", h)
          /\ doubt' = doubt
      BY <1>4 DEF Item!Receive
    <2>2. h \in BOOLEAN
      BY <1>2, <1>4
    <2> HIDE DEF h
    <2>3. /\ itemLink' \in [on : BOOLEAN, greet : Seq(BOOLEAN), queue : Seq(ItemMessage),
                            lagged : BOOLEAN]
          /\ itemLink'.on /\ itemLink'.greet = << >> /\ itemLink'.queue = itemLink.queue
          /\ itemLink'.lagged = itemLink.lagged
      <3>1. << >> \in Seq(BOOLEAN)
        OBVIOUS
      <3> QED
        BY <1>1, <1>2, <2>1, <3>1
    <2>4. seen' = h /\ itemCo'.pending = itemCo.pending /\ itemRuns' = itemRuns
          /\ itemAdapter' \in Nat /\ itemCo' \in [seq : Nat, pending : BOOLEAN]
      BY <1>2, <2>1, ItemHandled
    <2>5. ItemType'
      BY <1>1, <1>2, <2>1, <2>2, <2>3, <2>4 DEF ItemType
    <2>6. ItemKept'
      BY <1>1, <1>2, <2>1, <2>3, ItemTold DEF ItemKept
    <2>7. ItemInformed'
      BY <1>1, <2>3, <2>4 DEF ItemInv, ItemInformed, Coming, Queued, Fresh, Item!Counts
    <2>8. TypingKnown'
      <3> SUFFICES ASSUME ~doubt.lapse, ~Coming("typing")
                   PROVE  seen' = Item!Typing(item)
        BY <1>1, <1>3, <2>1, <2>3 DEF TypingKnown, Coming, Queued
      <3>1. itemLink.greet = <<Item!Typing(item)>>
        BY <1>1, <1>4 DEF ItemInv, TypingKnown
      <3>2. h = Item!Typing(item)
        BY <3>1 DEF h
      <3> QED
        BY <2>4, <3>2
    <2>9. ReportedInTime'
      BY <1>1, <2>1, TypistLeftAlone
    <2> QED
      BY <2>5, <2>6, <2>7, <2>8, <2>9 DEF ItemInv
  <1>5. CASE itemLink.greet = << >> /\ itemLink.lagged
    <2> DEFINE g == <<Item!Typing(item)>>
    <2>1. /\ itemLink' = [itemLink EXCEPT !.lagged = FALSE, !.greet = g]
          /\ Item!Handle("discussion-refresh", FALSE) /\ doubt' = doubt
      BY <1>5 DEF Item!Receive
    <2>2. g \in Seq(BOOLEAN)
      BY <1>3
    <2> HIDE DEF g
    <2>3. /\ itemLink' \in [on : BOOLEAN, greet : Seq(BOOLEAN), queue : Seq(ItemMessage),
                            lagged : BOOLEAN]
          /\ itemLink'.on /\ itemLink'.greet = g
      BY <1>1, <1>2, <2>1, <2>2
    <2>4. seen' = seen /\ itemRuns' \in Seq(ItemRun)
          /\ itemAdapter' \in Nat /\ itemCo' \in [seq : Nat, pending : BOOLEAN]
      BY <1>2, <2>1, ItemHandled
    <2>5. ItemType'
      BY <1>1, <1>2, <2>1, <2>3, <2>4 DEF ItemType
    <2>6. ItemKept'
      BY <1>1, <1>2, <2>1, <2>3, ItemTold DEF ItemKept
    <2>7. ItemInformed'
      <3>1. itemCo'.pending \/ \E n \in DOMAIN itemRuns' : Fresh(itemRuns[n])'
        <4> DEFINE k == "discussion-refresh"
                   no == FALSE
        <4>1. Item!Handle(k, no) /\ k # "typing"
          BY <2>1
        <4> HIDE DEF k, no
        <4> QED
          BY <1>1, <1>2, <4>1, ItemTold
      <3> QED
        BY <3>1 DEF ItemInformed
    <2>8. TypingKnown'
      BY <1>3, <2>3 DEF TypingKnown, g
    <2>9. ReportedInTime'
      BY <1>1, <2>1, TypistLeftAlone
    <2> QED
      BY <2>5, <2>6, <2>7, <2>8, <2>9 DEF ItemInv
  <1>6. CASE itemLink.greet = << >> /\ ~itemLink.lagged
    <2> DEFINE m == Head(itemLink.queue)
               q == Tail(itemLink.queue)
    <2>1. /\ itemLink.queue # << >> /\ itemLink' = [itemLink EXCEPT !.queue = q]
          /\ IF m.item # item THEN UNCHANGED <<itemAdapter, itemCo, itemRuns, seen, doubt>>
             ELSE /\ Item!Handle(m.kind, Item!Typing(item))
                  /\ doubt' = [doubt EXCEPT !.lapse = @ /\ m.kind # "typing"]
      BY <1>6 DEF Item!Receive
    <2>2. itemLink.queue \in Seq(ItemMessage)
      BY <1>2
    <2>3. /\ m \in ItemMessage /\ q \in Seq(ItemMessage)
          /\ \A n \in DOMAIN itemLink.queue :
               itemLink.queue[n] = m \/ \E k \in DOMAIN q : q[k] = itemLink.queue[n]
      <3>1. m \in ItemMessage /\ q \in Seq(ItemMessage) /\ m = itemLink.queue[1]
            /\ Len(q) = Len(itemLink.queue) - 1 /\ DOMAIN q = 1 .. Len(q)
            /\ \A k \in 1 .. Len(q) : q[k] = itemLink.queue[k + 1]
        BY <2>1, <2>2
      <3> SUFFICES ASSUME NEW n \in DOMAIN itemLink.queue, n # 1
                   PROVE  \E k \in DOMAIN q : q[k] = itemLink.queue[n]
        BY <3>1
      <3> HIDE DEF q
      <3>2. n - 1 \in 1 .. Len(q) /\ n - 1 + 1 = n
        BY <2>2, <3>1
      <3>3. q[n - 1] = itemLink.queue[n]
        BY <3>1, <3>2
      <3> QED
        BY <3>1, <3>2, <3>3
    <2> HIDE DEF m, q
    <2>4. /\ itemLink' \in [on : BOOLEAN, greet : Seq(BOOLEAN), queue : Seq(ItemMessage),
                            lagged : BOOLEAN]
          /\ itemLink'.on /\ itemLink'.queue = q /\ itemLink'.greet = << >>
          /\ ~itemLink'.lagged
      BY <1>1, <1>2, <1>6, <2>1, <2>3
    <2>5. ASSUME NEW kind, Coming(kind), m # [item |-> item, kind |-> kind]
          PROVE  Coming(kind)'
      BY <1>1, <1>6, <2>3, <2>4, <2>5 DEF Coming, Queued
    <2>6. m.item \in Items /\ m.kind \in {"discussion-refresh", "typing"}
          /\ m = [item |-> m.item, kind |-> m.kind]
      BY <2>3 DEF ItemMessage
    <2>7. CASE m.item # item
      <3>1. \A kind : Coming(kind) => Coming(kind)'
        BY <2>5, <2>7
      <3>2. UNCHANGED <<itemAdapter, itemCo, itemRuns, seen, doubt>>
        BY <2>1, <2>7
      <3>3. ItemType'
        BY <1>1, <1>2, <2>4, <3>2 DEF ItemType
      <3>4. ItemKept'
        BY <1>1, <1>2, <2>4, <3>2 DEF ItemKept, Item!Refreshing
      <3>5. ItemInformed'
        <4>1. Coming("discussion-refresh") => Coming("discussion-refresh")'
          BY <3>1
        <4> QED
          BY <1>1, <3>2, <4>1 DEF ItemInv, ItemInformed, Fresh, Item!Counts
      <3>6. TypingKnown'
        <4>1. Coming("typing") => Coming("typing")'
          BY <3>1
        <4> QED
          BY <1>1, <1>3, <1>6, <2>4, <3>2, <4>1 DEF ItemInv, TypingKnown
      <3>7. ReportedInTime'
        BY <1>1, <3>2, TypistLeftAlone
      <3> QED
        BY <3>3, <3>4, <3>5, <3>6, <3>7 DEF ItemInv
    <2>8. CASE m.item = item
      <3>1. /\ Item!Handle(m.kind, Item!Typing(item))
            /\ doubt' = [doubt EXCEPT !.lapse = @ /\ m.kind # "typing"]
        BY <2>1, <2>8
      <3>2. /\ doubt' \in [report : BOOLEAN, lapse : BOOLEAN, entry : BOOLEAN]
            /\ doubt'.report = doubt.report /\ doubt'.entry = doubt.entry
            /\ doubt'.lapse = (doubt.lapse /\ m.kind # "typing")
        BY <1>2, <3>1
      <3>3. /\ itemRuns' \in Seq(ItemRun) /\ itemAdapter' \in Nat
            /\ itemCo' \in [seq : Nat, pending : BOOLEAN]
            /\ m.kind = "typing" => seen' = Item!Typing(item)
            /\ m.kind # "typing" => seen' = seen
        BY <1>2, <3>1, ItemHandled
      <3>4. seen' \in BOOLEAN
        BY <1>2, <1>3, <3>3
      <3>5. ItemType'
        BY <1>1, <1>2, <2>4, <3>2, <3>3, <3>4 DEF ItemType
      <3>6. ItemKept'
        BY <1>1, <1>2, <2>4, <3>1, ItemTold DEF ItemKept
      <3>7. ItemInformed'
        <4>1. CASE m.kind # "typing"
          <5>1. itemCo'.pending \/ \E n \in DOMAIN itemRuns' : Fresh(itemRuns[n])'
            BY <1>1, <1>2, <3>1, <4>1, ItemTold
          <5> QED
            BY <5>1 DEF ItemInformed
        <4>2. CASE m.kind = "typing"
          <5>1. itemRuns' = itemRuns /\ itemCo'.pending = itemCo.pending
            BY <1>1, <1>2, <3>1, <4>2, ItemTold
          <5>2. Coming("discussion-refresh") => Coming("discussion-refresh")'
            BY <2>5, <4>2
          <5> QED
            BY <1>1, <5>1, <5>2 DEF ItemInv, ItemInformed, Fresh, Item!Counts
        <4> QED
          BY <4>1, <4>2
      <3>8. TypingKnown'
        <4>1. CASE m.kind = "typing"
          BY <1>3, <2>4, <3>3, <4>1 DEF TypingKnown
        <4>2. CASE m.kind # "typing"
          <5>1. Coming("typing") => Coming("typing")'
            BY <2>5, <4>2
          <5> QED
            BY <1>1, <1>3, <1>6, <2>4, <3>2, <3>3, <4>2, <5>1 DEF ItemInv, TypingKnown
        <4> QED
          BY <4>1, <4>2
      <3>9. ReportedInTime'
        BY <1>1, <3>2, TypistLeftAlone
      <3> QED
        BY <3>5, <3>6, <3>7, <3>8, <3>9 DEF ItemInv
    <2> QED
      BY <2>7, <2>8
  <1> QED
    BY <1>2, <1>4, <1>5, <1>6

\* A refresh that ends starts another one if an event came in meanwhile; the
\* other loads are left alone.
LEMMA ItemOver ==
  ASSUME ItemType, ItemKept, NEW n \in DOMAIN itemRuns, Item!Over(n),
         UNCHANGED <<itemChanged, item>>
  PROVE  /\ itemRuns' \in Seq(ItemRun) /\ itemCo' \in [seq : Nat, pending : BOOLEAN]
         /\ itemCo'.seq = itemCo.seq
         /\ \A m \in DOMAIN itemRuns :
              m # n => \E k \in DOMAIN itemRuns' : itemRuns'[k] = itemRuns[m]
         /\ \A k \in DOMAIN itemRuns' :
              /\ itemRuns'[k].value <= itemChanged'[itemRuns'[k].item]
              /\ itemRuns'[k].live => itemRuns'[k].item = item'
         /\ itemCo'.pending => Item!Refreshing'
         /\ itemCo.pending => itemCo'.pending \/ \E k \in DOMAIN itemRuns' : Fresh(itemRuns[k])'
  <1>1. /\ itemRuns \in Seq(ItemRun) /\ itemCo \in [seq : Nat, pending : BOOLEAN]
        /\ itemChanged \in [Items -> Nat]
    BY DEF ItemType
  <1>2. CASE itemRuns[n].kind = "refresh" /\ itemRuns[n].live /\ itemCo.pending
    <2> DEFINE r == Item!Run("refresh")
    <2>1. itemRuns' = [itemRuns EXCEPT ![n] = r] /\ itemCo' = [itemCo EXCEPT !.pending = FALSE]
      BY <1>2 DEF Item!Over
    <2>2. item \in Items
      BY <1>2, ItemShape DEF ItemKept
    <2>3. /\ r \in ItemRun /\ r.kind = "refresh" /\ r.item = item /\ r.stage = "asked"
          /\ r.value = 0 /\ r.live
      BY <2>2 DEF Item!Run, ItemRun
    <2> HIDE DEF r
    <2>4. /\ itemRuns' \in Seq(ItemRun) /\ DOMAIN itemRuns' = DOMAIN itemRuns
          /\ \A k \in DOMAIN itemRuns : itemRuns'[k] = IF k = n THEN r ELSE itemRuns[k]
      BY <1>1, <2>1, <2>3
    <2>5. /\ itemCo' \in [seq : Nat, pending : BOOLEAN] /\ itemCo'.seq = itemCo.seq
          /\ ~itemCo'.pending
      BY <1>1, <2>1
    <2>6. \A k \in DOMAIN itemRuns' :
              /\ itemRuns'[k].value <= itemChanged'[itemRuns'[k].item]
              /\ itemRuns'[k].live => itemRuns'[k].item = item'
      <3>1. r.value <= itemChanged[r.item]
        BY <1>1, <2>2, <2>3
      <3> QED
        BY <2>3, <2>4, <3>1 DEF ItemKept
    <2>7. \E k \in DOMAIN itemRuns' : Fresh(itemRuns[k])'
      BY <2>3, <2>4 DEF Fresh, Item!Counts
    <2> QED
      BY <2>4, <2>5, <2>6, <2>7
  <1>3. CASE ~(itemRuns[n].kind = "refresh" /\ itemRuns[n].live /\ itemCo.pending)
    <2>1. itemRuns' = Item!Without(itemRuns, n) /\ itemCo' = itemCo
      BY <1>3 DEF Item!Over
    <2>2. /\ itemRuns' \in Seq(ItemRun)
          /\ \A k \in DOMAIN itemRuns' :
               \E m \in DOMAIN itemRuns : m # n /\ itemRuns'[k] = itemRuns[m]
          /\ \A m \in DOMAIN itemRuns :
               m # n => \E k \in DOMAIN itemRuns' : itemRuns'[k] = itemRuns[m]
      BY <1>1, <2>1, WithoutOne
    <2>3. itemCo'.pending => Item!Refreshing'
      <3> SUFFICES ASSUME itemCo.pending PROVE Item!Refreshing'
        BY <2>1
      <3>1. PICK m \in DOMAIN itemRuns : itemRuns[m].kind = "refresh" /\ itemRuns[m].live
        BY DEF ItemKept, Item!Refreshing
      <3>2. m # n
        BY <1>3, <3>1
      <3> QED
        BY <2>2, <3>1, <3>2 DEF Item!Refreshing
    <2> QED
      BY <1>1, <2>1, <2>2, <2>3 DEF ItemKept
  <1> QED
    BY <1>2, <1>3

\* An answer that counts is shown, and noted when it is older than what was
\* shown; a failure that counts is noted.
LEMMA ItemAnswerKeeps ==
  ASSUME ItemInv, NEW n \in DOMAIN itemRuns, Item!Answered(n) \/ Item!Fails(n)
  PROVE  ItemInv'
  <1>1. /\ Item!Over(n)
        /\ UNCHANGED <<itemChanged, item, itemLink, itemAdapter, seen, gap, ctl, posts,
                       presence, doubt>>
    BY DEF Item!Answered, Item!Fails, Item!typistVars
  <1>2. /\ ItemType /\ ItemKept /\ shown \in Nat /\ itemBehind \in BOOLEAN
        /\ itemFailed \in BOOLEAN /\ itemChanged \in [Items -> Nat]
        /\ itemRuns[n].value \in Nat
    BY ItemShape DEF ItemInv, ItemType
  <1> DEFINE c == Item!Counts(itemRuns[n])
             v == itemRuns[n].value
  <1>3. \/ /\ itemRuns[n].stage = "served" /\ itemFailed' = itemFailed
           /\ \/ c /\ shown' = v /\ itemBehind' = (itemBehind \/ v < shown)
              \/ ~c /\ shown' = shown /\ itemBehind' = itemBehind
        \/ shown' = shown /\ itemBehind' = itemBehind /\ itemFailed' = (itemFailed \/ c)
    BY DEF Item!Answered, Item!Fails
  <1> HIDE DEF c, v
  <1>4. shown' \in Nat /\ itemBehind' \in BOOLEAN /\ itemFailed' \in BOOLEAN
    BY <1>2, <1>3 DEF v
  <1>5. ItemType'
    BY <1>1, <1>2, <1>4, ItemOver DEF ItemType
  <1>6. ItemKept'
    BY <1>1, <1>2, ItemOver DEF ItemKept
  <1>7. ItemInformed'
    <2> SUFFICES ASSUME item # Item!Away, ~gap, ~itemFailed', ~itemBehind',
                        ~Coming("discussion-refresh"), ~itemCo'.pending,
                        ~\E k \in DOMAIN itemRuns' : Fresh(itemRuns[k])'
                 PROVE  shown' = itemChanged[item]
      BY <1>1 DEF ItemInformed, Coming, Queued
    <2>1. ~itemFailed /\ ~itemBehind
      BY <1>2, <1>3
    <2>2. ~itemCo.pending
      BY <1>1, <1>2, ItemOver
    <2>3. \A m \in DOMAIN itemRuns : m # n => ~Fresh(itemRuns[m])
      BY <1>1, <1>2, ItemOver DEF Fresh, Item!Counts
    <2>4. Fresh(itemRuns[n]) \/ shown = itemChanged[item]
      BY <2>1, <2>2, <2>3 DEF ItemInv, ItemInformed
    <2>5. c => itemRuns[n].item = item
      BY <1>2 DEF c, Item!Counts, ItemKept
    <2>6. item \in Items
      BY <1>2 DEF ItemType
    <2>7. c => v <= itemChanged[item]
      BY <1>2, <2>5 DEF ItemKept, v
    <2>8. CASE ~c
      BY <1>3, <2>4, <2>8 DEF Fresh, c
    <2>9. CASE c
      <3>1. /\ itemRuns[n].stage = "served" /\ shown' = v /\ ~(v < shown)
        BY <1>3, <2>9
      <3>2. Fresh(itemRuns[n]) => v = itemChanged[item]
        BY <3>1 DEF Fresh, v
      <3>3. shown = itemChanged[item] => v = itemChanged[item]
        <4>1. itemChanged[item] \in Nat /\ v \in Nat
          BY <1>2, <2>6 DEF v
        <4> QED
          BY <2>7, <2>9, <3>1, <4>1
      <3> QED
        BY <2>4, <3>1, <3>2, <3>3
    <2> QED
      BY <2>8, <2>9
  <1>8. TypingKnown'
    BY <1>1 DEF ItemInv, TypingKnown, Coming, Queued, Item!Typing
  <1>9. ReportedInTime'
    BY <1>1, TypistLeftAlone
  <1> QED
    BY <1>5, <1>6, <1>7, <1>8, <1>9 DEF ItemInv

\* The server reads the item as it is.
LEMMA ItemServedKeeps ==
  ASSUME ItemInv, NEW n \in DOMAIN itemRuns, Item!Served(n)
  PROVE  ItemInv'
  <1> DEFINE v == itemChanged[itemRuns[n].item]
             c == Item!Counts(itemRuns[n]) /\ itemLink.on
             r == [itemRuns[n] EXCEPT !.stage = "served", !.value = v]
  <1>1. /\ UNCHANGED <<itemChanged, item, shown, itemLink, itemAdapter, itemCo, seen,
                       itemFailed, itemBehind, ctl, posts, presence, doubt>>
        /\ gap' = (gap /\ ~c)
    BY DEF Item!Served, Item!typistVars
  <1>2. /\ ItemType /\ ItemKept /\ itemRuns \in Seq(ItemRun) /\ gap \in BOOLEAN
        /\ itemRuns[n] \in ItemRun /\ itemRuns[n].item \in Items
        /\ itemChanged \in [Items -> Nat]
    BY ItemShape DEF ItemInv, ItemType
  <1>3. v \in Nat
    BY <1>2
  <1>4. itemRuns' = [itemRuns EXCEPT ![n] = r]
    <2>1. itemRuns' = [itemRuns EXCEPT ![n].stage = "served", ![n].value = v]
      BY DEF Item!Served
    <2> HIDE DEF v
    <2> QED
      BY <1>2, <2>1
  <1> HIDE DEF v
  <1>5. /\ r \in ItemRun /\ r.kind = itemRuns[n].kind /\ r.item = itemRuns[n].item
        /\ r.live = itemRuns[n].live /\ r.stage = "served" /\ r.value = v
    BY <1>2, <1>3 DEF ItemRun
  <1> HIDE DEF r, c
  <1>6. /\ itemRuns' \in Seq(ItemRun) /\ DOMAIN itemRuns' = DOMAIN itemRuns
        /\ \A k \in DOMAIN itemRuns : itemRuns'[k] = IF k = n THEN r ELSE itemRuns[k]
    BY <1>2, <1>4, <1>5
  <1>7. gap' \in BOOLEAN
    BY <1>1
  <1>8. ItemType'
    BY <1>1, <1>2, <1>6, <1>7 DEF ItemType
  <1>9. ItemKept'
    <2>1. Item!Refreshing => Item!Refreshing'
      BY <1>5, <1>6 DEF Item!Refreshing
    <2>2. r.value <= itemChanged[r.item]
      BY <1>3, <1>5 DEF v
    <2>3. r.live => r.item = item
      BY <1>2, <1>5 DEF ItemKept
    <2>4. \A k \in DOMAIN itemRuns' :
              /\ itemRuns'[k].value <= itemChanged[itemRuns'[k].item]
              /\ itemRuns'[k].live => itemRuns'[k].item = item
      BY <1>2, <1>6, <2>2, <2>3 DEF ItemKept
    <2> QED
      BY <1>1, <1>2, <2>1, <2>4 DEF ItemKept
  <1>10. ItemInformed'
    <2>1. Item!Counts(itemRuns[n]) => itemRuns[n].item = item
      BY <1>2 DEF Item!Counts, ItemKept
    <2>2. Item!Counts(itemRuns[n]) => Fresh(itemRuns[n])'
      BY <1>1, <1>5, <1>6, <2>1 DEF Fresh, Item!Counts, v
    <2>3. CASE Item!Counts(itemRuns[n])
      BY <1>6, <2>2, <2>3 DEF ItemInformed
    <2>4. CASE ~Item!Counts(itemRuns[n])
      <3>1. gap' = gap
        BY <1>1, <1>2, <2>4 DEF c
      <3>2. \A k \in DOMAIN itemRuns : Fresh(itemRuns[k]) => k # n /\ Fresh(itemRuns[k])'
        BY <1>1, <1>6, <2>4 DEF Fresh, Item!Counts
      <3> QED
        BY <1>1, <1>6, <3>1, <3>2 DEF ItemInv, ItemInformed, Coming, Queued
    <2> QED
      BY <2>3, <2>4
  <1>11. TypingKnown'
    BY <1>1 DEF ItemInv, TypingKnown, Coming, Queued, Item!Typing
  <1>12. ReportedInTime'
    BY <1>1, TypistLeftAlone
  <1> QED
    BY <1>8, <1>9, <1>10, <1>11, <1>12 DEF ItemInv

\* Another item: its load is the only one that counts.
LEMMA ItemEnterKeeps ==
  ASSUME ItemInv, Item!Enter
  PROVE  ItemInv'
  <1>1. PICK i \in Items :
               /\ item' = i
               /\ itemRuns' = Append([n \in DOMAIN itemRuns |->
                                        [itemRuns[n] EXCEPT !.live = FALSE]],
                                     [Item!Run("load") EXCEPT !.item = i])
    BY DEF Item!Enter
  <1>2. /\ itemLink' = Item!Off /\ itemAdapter' = 0 /\ itemCo' = Item!NewCoordinator
        /\ seen' = FALSE /\ shown' = 0 /\ gap' = FALSE /\ itemFailed' = FALSE
        /\ itemBehind' = FALSE
        /\ UNCHANGED <<itemChanged, ctl, posts, presence, doubt>>
    BY DEF Item!Enter, Item!typistVars
  <1>3. /\ ItemType /\ ItemKept /\ itemRuns \in Seq(ItemRun)
        /\ itemChanged \in [Items -> Nat]
    BY DEF ItemInv, ItemType
  <1> DEFINE o == [n \in DOMAIN itemRuns |-> [itemRuns[n] EXCEPT !.live = FALSE]]
             r == [Item!Run("load") EXCEPT !.item = i]
  <1>4. /\ r \in ItemRun /\ r.kind = "load" /\ r.item = i /\ r.live /\ r.stage = "asked"
        /\ r.value = 0
    BY DEF Item!Run, ItemRun
  <1>5. \A n \in DOMAIN itemRuns :
          /\ o[n] \in ItemRun /\ ~o[n].live /\ o[n].item = itemRuns[n].item
          /\ o[n].value = itemRuns[n].value
    BY <1>3, ItemShape DEF ItemRun
  <1>6. o \in Seq(ItemRun) /\ DOMAIN o = DOMAIN itemRuns
    <2>1. Len(itemRuns) \in Nat /\ DOMAIN itemRuns = 1 .. Len(itemRuns)
      BY <1>3
    <2>2. o \in [1 .. Len(itemRuns) -> ItemRun]
      BY <1>5, <2>1
    <2> QED
      BY <2>1, <2>2, SeqDef
  <1>7. itemRuns' = Append(o, r)
    BY <1>1
  <1> HIDE DEF o, r
  <1>8. /\ itemRuns' \in Seq(ItemRun)
        /\ \A k \in DOMAIN itemRuns' : itemRuns'[k] = r \/ \E n \in DOMAIN itemRuns : itemRuns'[k] = o[n]
        /\ \E k \in DOMAIN itemRuns' : itemRuns'[k] = r
    <2>1. Len(o) \in Nat /\ DOMAIN o = 1 .. Len(o)
      BY <1>6
    <2> QED
      BY <1>4, <1>6, <1>7, <2>1, AppendedLast
  <1>9. Item!Off \in [on : BOOLEAN, greet : Seq(BOOLEAN), queue : Seq(ItemMessage),
                      lagged : BOOLEAN]
    <2>1. << >> \in Seq(BOOLEAN) /\ << >> \in Seq(ItemMessage)
      OBVIOUS
    <2> QED
      BY <2>1 DEF Item!Off
  <1>10. itemCo' \in [seq : Nat, pending : BOOLEAN] /\ itemCo'.seq = 0 /\ ~itemCo'.pending
    BY <1>2 DEF Item!NewCoordinator
  <1>11. ItemType'
    BY <1>1, <1>2, <1>3, <1>8, <1>9, <1>10 DEF ItemType
  <1>12. ItemKept'
    <2>1. ~itemLink'.on /\ itemLink'.queue = << >> /\ ~itemLink'.lagged
      BY <1>2 DEF Item!Off
    <2>2. \A k \in DOMAIN itemRuns' :
              /\ itemRuns'[k].value <= itemChanged'[itemRuns'[k].item]
              /\ itemRuns'[k].live => itemRuns'[k].item = item'
      <3>1. r.value <= itemChanged[r.item]
        BY <1>3, <1>4
      <3>2. \A n \in DOMAIN itemRuns : o[n].value <= itemChanged[o[n].item] /\ ~o[n].live
        BY <1>3, <1>5 DEF ItemKept
      <3> SUFFICES ASSUME NEW k \in DOMAIN itemRuns'
                   PROVE  /\ itemRuns'[k].value <= itemChanged[itemRuns'[k].item]
                          /\ itemRuns'[k].live => itemRuns'[k].item = i
        BY <1>1, <1>2
      <3>3. CASE itemRuns'[k] = r
        BY <1>4, <3>1, <3>3
      <3>4. CASE \E n \in DOMAIN itemRuns : itemRuns'[k] = o[n]
        BY <3>2, <3>4
      <3> QED
        BY <1>8, <3>3, <3>4
    <2> QED
      BY <1>2, <1>10, <2>1, <2>2 DEF ItemKept
  <1>13. ItemInformed'
    <2>1. \E k \in DOMAIN itemRuns' : Fresh(itemRuns[k])'
      BY <1>1, <1>4, <1>8 DEF Fresh, Item!Counts
    <2> QED
      BY <2>1 DEF ItemInformed
  <1>14. TypingKnown'
    BY <1>2 DEF TypingKnown, Item!Off
  <1>15. ReportedInTime'
    BY <1>2, TypistLeftAlone
  <1> QED
    BY <1>11, <1>12, <1>13, <1>14, <1>15 DEF ItemInv

LEMMA ItemNext == ItemInv /\ [Item!ItemNext]_itemVars => ItemInv'
  <1> SUFFICES ASSUME ItemInv, [Item!ItemNext]_itemVars PROVE ItemInv'
    OBVIOUS
  <1>1. CASE Item!Start
    BY <1>1, PublishKeeps DEF Item!Start
  <1>2. CASE Item!Activity
    BY <1>2, PublishKeeps DEF Item!Activity
  <1>3. CASE UNCHANGED itemVars
    <2>1. ItemType' /\ ReportedInTime'
      BY <1>3 DEF itemVars, ItemInv, ItemType, ReportedInTime
    <2>2. ItemKept' /\ ItemInformed'
      BY <1>3, PageLeftAlone DEF itemVars
    <2>3. TypingKnown'
      BY <1>3 DEF itemVars, ItemInv, TypingKnown, Coming, Queued, Item!Typing
    <2> QED
      BY <2>1, <2>2, <2>3 DEF ItemInv
  <1>4. CASE \E n \in DOMAIN itemRuns : Item!Served(n) \/ Item!Answered(n) \/ Item!Fails(n)
    BY <1>4, ItemServedKeeps, ItemAnswerKeeps
  <1> QED
    BY <1>1, <1>2, <1>3, <1>4, ItemStopKeeps, TickKeeps, ReportedKeeps, ReportLostKeeps,
       ItemChangeKeeps, ItemStreamKeeps, ItemReceiveKeeps, ItemEnterKeeps DEF Item!ItemNext

LEMMA ItemShown == ItemInv => Item!DiscussionFresh /\ Item!TypingShown
  <1> SUFFICES ASSUME ItemInv PROVE Item!DiscussionFresh /\ Item!TypingShown
    OBVIOUS
  <1>1. Item!DiscussionFresh
    <2> SUFFICES ASSUME Item!Drained, itemRuns = << >>, ~gap, ~itemFailed, ~itemBehind
                 PROVE  shown = itemChanged[item] /\ ~itemCo.pending
      BY DEF Item!DiscussionFresh
    <2>1. DOMAIN itemRuns = {} /\ DOMAIN itemLink.queue = {}
      BY DEF Item!Drained
    <2>2. ~itemCo.pending
      BY <2>1 DEF ItemInv, ItemKept, Item!Refreshing
    <2> QED
      BY <2>1, <2>2 DEF Item!Drained, ItemInv, ItemKept, ItemInformed, Coming, Queued
  <1>2. Item!TypingShown
    <2>1. ASSUME ctl.active, posts = << >>, ~doubt.report, ~doubt.entry PROVE presence > 0
      <3>1. /\ ctl.idle >= 1 /\ ctl.age + ctl.idle < Renewal + IdleAfter
            /\ presence + ctl.age >= TTL
        BY <2>1 DEF ItemInv, ReportedInTime
      <3>2. ctl.idle \in Nat /\ ctl.age \in Nat /\ presence \in Nat
        BY CtlShape DEF ItemInv
      <3> QED
        BY <3>1, <3>2, ItemAssumption
    <2>2. ASSUME Item!Drained, ~doubt.lapse PROVE seen = Item!Typing(item)
      <3>1. DOMAIN itemLink.queue = {}
        BY <2>2 DEF Item!Drained
      <3> QED
        BY <2>2, <3>1 DEF Item!Drained, ItemInv, TypingKnown, Coming, Queued
    <2> QED
      BY <2>1, <2>2 DEF Item!TypingShown
  <1> QED
    BY <1>1, <1>2

-----------------------------------------------------------------------------
\* The preview dialog.

Calls == [file : DOMAIN Attachments, id : Nat]
PreviewType ==
    /\ file \in DOMAIN Attachments \cup {"none"} /\ previewMade \in Nat
    /\ asks \subseteq Calls /\ mounts \subseteq Calls
    /\ url \in Calls \cup {Preview!NoUrl} /\ controller \in Calls \cup {Preview!NoUrl}
    /\ size \in [w : Nat, h : Nat] /\ previewStage \in [w : Nat \ {0}, h : Nat \ {0}]

\* Of the calls that end as the effects of the file shown ask, there is one, and
\* it was not answered.
CallsKept ==
    /\ live = {url} \ {Preview!NoUrl} /\ alive = {controller} \ {Preview!NoUrl}
    /\ \A c \in asks \cup mounts : c.id <= previewMade
    /\ \A c \in asks : Preview!Latest(c) => c.file = file /\ url = Preview!NoUrl
    /\ \A c \in mounts :
         Preview!Latest(c) => c.file = file /\ controller = Preview!NoUrl
    /\ url # Preview!NoUrl => url.file = file
    /\ controller # Preview!NoUrl => controller.file = file

Views == [kind : {"image", "none"}, state : {"idle", "ready", "error"},
          scale : Int, fitWidth : Int, max : Int, turned : BOOLEAN, x : Int, y : Int,
          mode : {"fit-screen", "fit-width", "manual"},
          drag : [x : Int, y : Int, on : BOOLEAN]]
ViewType ==
    /\ view \in Views
    /\ view.kind = "image" => file # "none" /\ Attachments[file].kind = "image"
    /\ view.state = "ready" => view.kind = "image"

\* What has its scale within its limits and is in the mode it names.
FitsStage(v) ==
    /\ Preview!Unit <= v.scale /\ v.scale <= v.max
    /\ Preview!Unit <= v.fitWidth /\ v.fitWidth <= 4 * Preview!Unit
    /\ 4 * Preview!Unit <= v.max
    /\ v.mode = "fit-screen" => Preview!Near(v.scale, Preview!Unit, 4)
    /\ v.mode = "fit-width" =>
          Preview!Near(v.scale, v.fitWidth, 9) /\ Preview!hasFitWidthMode(v)

PreviewInv == PreviewType /\ CallsKept /\ ViewType /\ FitsStage(view) /\ Preview!Framed

LEMMA ViewShape ==
  ASSUME NEW v \in Views
  PROVE  /\ v.kind \in {"image", "none"} /\ v.state \in {"idle", "ready", "error"}
         /\ v.scale \in Int /\ v.fitWidth \in Int /\ v.max \in Int /\ v.turned \in BOOLEAN
         /\ v.x \in Int /\ v.y \in Int /\ v.mode \in {"fit-screen", "fit-width", "manual"}
         /\ v.drag \in [x : Int, y : Int, on : BOOLEAN]
  BY DEF Views

LEMMA ClampedWithin ==
  ASSUME NEW v \in Int, NEW low \in Int, NEW high \in Int, low <= high
  PROVE  /\ Preview!clampNumber(v, low, high) \in Int
         /\ low <= Preview!clampNumber(v, low, high) /\ Preview!clampNumber(v, low, high) <= high
  BY DEF Preview!clampNumber, Preview!Least, Preview!Most

LEMMA BoundsNat ==
  ASSUME NEW v \in Views, NEW fit \in [w : Nat, h : Nat],
         NEW s \in [w : Nat \ {0}, h : Nat \ {0}]
  PROVE  /\ Preview!Bounds(v, fit, s).x \in Nat /\ Preview!Bounds(v, fit, s).y \in Nat
  <1> DEFINE w == IF v.turned THEN fit.h ELSE fit.w
             h == IF v.turned THEN fit.w ELSE fit.h
             a == w * v.scale - s.w * Preview!Unit
             b == h * v.scale - s.h * Preview!Unit
  <1>1. v.scale \in Int /\ fit.w \in Int /\ fit.h \in Int /\ s.w \in Int /\ s.h \in Int
        /\ Preview!Unit \in Int
    BY ViewShape DEF Preview!Unit
  <1>2. a \in Int /\ b \in Int
    BY <1>1
  <1>3. Preview!Bounds(v, fit, s) = [x |-> Preview!Most(0, a), y |-> Preview!Most(0, b)]
    BY DEF Preview!Bounds
  <1> HIDE DEF a, b
  <1>4. Preview!Most(0, a) \in Nat /\ Preview!Most(0, b) \in Nat
    BY <1>2 DEF Preview!Most
  <1> QED
    BY <1>3, <1>4

\* applyImageViewerTransform puts an image back into its stage.
LEMMA AppliedFramed ==
  ASSUME NEW v \in Views, FitsStage(v), NEW fit \in [w : Nat, h : Nat],
         NEW s \in [w : Nat \ {0}, h : Nat \ {0}],
         view' = Preview!Applied(v, fit, s), size' = fit, previewStage' = s
  PROVE  /\ Preview!Framed' /\ FitsStage(view') /\ view' \in Views
         /\ view'.kind = v.kind /\ view'.state = v.state
  <1> DEFINE b == Preview!Bounds(v, fit, s)
             p == Preview!clampNumber(v.x, -b.x, b.x)
             q == Preview!clampNumber(v.y, -b.y, b.y)
  <1>1. view' = [v EXCEPT !.x = p, !.y = q]
    BY DEF Preview!Applied
  <1>2. b.x \in Nat /\ b.y \in Nat
    BY BoundsNat
  <1>3. p \in Int /\ q \in Int /\ -b.x <= p /\ p <= b.x /\ -b.y <= q /\ q <= b.y
    <2>1. v.x \in Int /\ v.y \in Int /\ -b.x \in Int /\ -b.y \in Int /\ b.x \in Int /\ b.y \in Int
          /\ -b.x <= b.x /\ -b.y <= b.y
      BY <1>2, ViewShape
    <2> HIDE DEF b
    <2> QED
      BY <2>1, ClampedWithin
  <1> HIDE DEF p, q
  <1>4. /\ view'.x = p /\ view'.y = q /\ view'.kind = v.kind /\ view'.state = v.state
        /\ view'.scale = v.scale /\ view'.fitWidth = v.fitWidth /\ view'.max = v.max
        /\ view'.turned = v.turned /\ view'.mode = v.mode
    BY <1>1 DEF Views
  <1>5. view' \in Views
    BY <1>1, <1>3 DEF Views
  <1>6. Preview!Bounds(view, size, previewStage)' = b
    BY <1>4 DEF Preview!Bounds
  <1> HIDE DEF b
  <1>7. Preview!Framed'
    BY <1>3, <1>4, <1>6 DEF Preview!Framed, FitsStage, Preview!hasFitWidthMode
  <1>8. FitsStage(view')
    BY <1>4 DEF FitsStage, Preview!hasFitWidthMode
  <1> QED
    BY <1>4, <1>5, <1>7, <1>8

LEMMA StillFits ==
  ASSUME NEW v \in Views, FitsStage(v)
  PROVE  /\ Preview!Still(v) \in Views /\ FitsStage(Preview!Still(v))
         /\ Preview!Still(v).kind = v.kind /\ Preview!Still(v).state = v.state
  <1>1. Preview!NoDrag \in [x : Int, y : Int, on : BOOLEAN]
    BY DEF Preview!NoDrag
  <1> DEFINE w == Preview!Still(v)
  <1>2. w = [v EXCEPT !.drag = Preview!NoDrag]
    BY DEF Preview!Still
  <1> HIDE DEF w
  <1>3. /\ w.kind = v.kind /\ w.state = v.state /\ w.scale = v.scale /\ w.max = v.max
        /\ w.fitWidth = v.fitWidth /\ w.mode = v.mode /\ w \in Views
    BY <1>1, <1>2 DEF Views
  <1>4. FitsStage(w)
    BY <1>3 DEF FitsStage, Preview!hasFitWidthMode
  <1> QED
    BY <1>3, <1>4 DEF w

\* A preset the image has.
LEMMA PresetFits ==
  ASSUME NEW v \in Views, Preview!Unit <= v.fitWidth, v.fitWidth <= 4 * Preview!Unit, 4 * Preview!Unit <= v.max,
         NEW m \in {"fit-screen", "fit-width"},
         m = "fit-width" => Preview!hasFitWidthMode(v)
  PROVE  /\ Preview!Preset(v, m) \in Views /\ FitsStage(Preview!Preset(v, m))
         /\ Preview!Preset(v, m).kind = v.kind /\ Preview!Preset(v, m).state = v.state
         /\ Preview!Preset(v, m).mode = m
  <1> DEFINE c == IF m = "fit-width" THEN v.fitWidth ELSE Preview!Unit
             n == [v EXCEPT !.mode = m, !.scale = c]
             w == Preview!Preset(v, m)
  <1>1. c \in Int /\ v.fitWidth \in Int /\ v.max \in Int /\ Preview!Unit \in Nat \ {0}
    BY ViewShape DEF Preview!Unit
  <1>2. Preview!Unit <= c /\ c <= v.max
    BY <1>1
  <1> HIDE DEF c
  <1>3. /\ n.kind = v.kind /\ n.state = v.state /\ n.scale = c /\ n.max = v.max
        /\ n.fitWidth = v.fitWidth /\ n.mode = m /\ n \in Views
    BY <1>1 DEF Views
  <1>4. w = [n EXCEPT !.x = 0, !.y = 0]
    BY DEF Preview!Preset, Preview!Centred, c
  <1> HIDE DEF n, w
  <1>5. /\ w.kind = n.kind /\ w.state = n.state /\ w.scale = n.scale /\ w.max = n.max
        /\ w.fitWidth = n.fitWidth /\ w.mode = n.mode /\ w \in Views
    <2>1. n \in Views /\ 0 \in Int
      BY <1>3
    <2> QED
      BY <1>4, <2>1 DEF Views
  <1>6. FitsStage(w)
    <2>1. Preview!Near(Preview!Unit, Preview!Unit, 4)
      BY <1>1 DEF Preview!Near
    <2>2. Preview!Near(v.fitWidth, v.fitWidth, 9)
      BY <1>1 DEF Preview!Near
    <2>3. /\ m = "fit-screen" => Preview!Near(w.scale, Preview!Unit, 4)
          /\ m = "fit-width" => Preview!Near(w.scale, w.fitWidth, 9)
      BY <1>3, <1>5, <2>1, <2>2 DEF c
    <2> QED
      BY <1>2, <1>3, <1>5, <2>3 DEF FitsStage, Preview!hasFitWidthMode
  <1> QED
    BY <1>3, <1>5, <1>6 DEF w

\* A scale brought within its limits, and the mode that goes with it.
Scaled(v, c, t) ==
    LET r == [v EXCEPT !.scale = Preview!clampNumber(c, Preview!Unit, v.max)]
    IN  [r EXCEPT !.mode = Preview!resolveViewMode(r, t)]

LEMMA ModeFits ==
  ASSUME NEW v \in Views, Preview!Unit <= v.fitWidth, v.fitWidth <= 4 * Preview!Unit, 4 * Preview!Unit <= v.max,
         NEW c \in Int, NEW t \in Preview!Tolerances, NEW w, w = Scaled(v, c, t)
  PROVE  w \in Views /\ FitsStage(w) /\ w.kind = v.kind /\ w.state = v.state
  <1> DEFINE k == Preview!clampNumber(c, Preview!Unit, v.max)
             r == [v EXCEPT !.scale = k]
             m == Preview!resolveViewMode(r, t)
  <1>1. v.fitWidth \in Int /\ v.max \in Int /\ Preview!Unit \in Nat \ {0}
    BY ViewShape DEF Preview!Unit
  <1>2. Preview!Unit <= v.max /\ Preview!Unit \in Int
    BY <1>1
  <1>3. k \in Int /\ Preview!Unit <= k /\ k <= v.max
    BY <1>1, <1>2, ClampedWithin
  <1> HIDE DEF k
  <1>4. /\ r.kind = v.kind /\ r.state = v.state /\ r.scale = k /\ r.max = v.max
        /\ r.fitWidth = v.fitWidth /\ r \in Views
    BY <1>3 DEF Views
  <1>5. w = [r EXCEPT !.mode = m]
    BY DEF Scaled, k
  <1> HIDE DEF r
  <1>6. /\ m \in {"fit-screen", "fit-width", "manual"}
        /\ m = "fit-screen" => Preview!Near(r.scale, Preview!Unit, 4)
        /\ m = "fit-width" =>
              Preview!Near(r.scale, r.fitWidth, t) /\ Preview!hasFitWidthMode(r)
    BY DEF Preview!resolveViewMode
  <1>a. m = "fit-width" => Preview!Near(r.scale, r.fitWidth, 9)
    BY <1>1, <1>3, <1>4, <1>6 DEF Preview!Near, Preview!Tolerances
  <1> HIDE DEF m
  <1>7. /\ w.kind = r.kind /\ w.state = r.state /\ w.scale = r.scale /\ w.max = r.max
        /\ w.fitWidth = r.fitWidth /\ w.mode = m /\ w \in Views
    BY <1>4, <1>5, <1>6 DEF Views
  <1>8. FitsStage(w)
    BY <1>3, <1>4, <1>6, <1>a, <1>7 DEF FitsStage, Preview!hasFitWidthMode
  <1> QED
    BY <1>4, <1>7, <1>8

LEMMA RoundedInt ==
  ASSUME NEW a \in Int, NEW b \in Nat \ {0}
  PROVE  Preview!Rounded(a, b) \in Int
  BY DEF Preview!Rounded

\* The size that fits the stage, and the scale that fits its width.
LEMMA FitSizes ==
  ASSUME NEW f \in DOMAIN Attachments, Attachments[f].kind = "image",
         NEW s \in [w : Nat \ {0}, h : Nat \ {0}]
  PROVE  /\ Preview!FitScreen(f, s) \in [w : Nat, h : Nat]
         /\ Preview!FitWidth(f, s, Preview!FitScreen(f, s)) \in Int
         /\ Preview!Unit <= Preview!FitWidth(f, s, Preview!FitScreen(f, s))
         /\ Preview!FitWidth(f, s, Preview!FitScreen(f, s)) <= 4 * Preview!Unit
  <1> DEFINE n == Attachments[f]
             fit == Preview!FitScreen(f, s)
  <1>1. n.w \in Nat \ {0} /\ n.h \in Nat \ {0} /\ s.w \in Nat \ {0} /\ s.h \in Nat \ {0}
        /\ Preview!Unit \in Nat \ {0}
    BY PreviewAssumption DEF Preview!Unit
  <1>2. fit \in [w : Nat, h : Nat] /\ fit.w \in Nat \ {0}
    <2>1. CASE s.w * n.h <= s.h * n.w
      <3> DEFINE w == Preview!Least(s.w, n.w)
                 h == Preview!Most(1, Preview!Rounded(n.h * w, n.w))
      <3>1. w \in Nat \ {0}
        BY <1>1 DEF Preview!Least
      <3>2. (n.h * w) \in Nat
        BY <1>1, <3>1
      <3>3. Preview!Rounded(n.h * w, n.w) \in Int
        BY <1>1, <3>2, RoundedInt
      <3>4. h \in Nat
        BY <3>3 DEF Preview!Most
      <3>5. fit = [w |-> w, h |-> h]
        BY <2>1 DEF Preview!FitScreen
      <3> HIDE DEF w, h, fit
      <3> QED
        BY <3>1, <3>4, <3>5
    <2>2. CASE ~(s.w * n.h <= s.h * n.w)
      <3> DEFINE h == Preview!Least(s.h, n.h)
                 w == Preview!Most(1, Preview!Rounded(n.w * h, n.h))
      <3>1. h \in Nat \ {0}
        BY <1>1 DEF Preview!Least
      <3>2. (n.w * h) \in Nat
        BY <1>1, <3>1
      <3>3. Preview!Rounded(n.w * h, n.h) \in Int
        BY <1>1, <3>2, RoundedInt
      <3>4. w \in Nat \ {0}
        BY <3>3 DEF Preview!Most
      <3>5. fit = [w |-> w, h |-> h]
        BY <2>2 DEF Preview!FitScreen
      <3> HIDE DEF w, h, fit
      <3> QED
        BY <3>1, <3>4, <3>5
    <2> QED
      BY <2>1, <2>2
  <1> HIDE DEF fit
  <1> DEFINE d == Preview!Rounded(98 * s.w, fit.w)
  <1>3. d \in Int
    <2>1. 98 * s.w \in Int
      BY <1>1
    <2> QED
      BY <1>2, <2>1, RoundedInt
  <1>4. Preview!FitWidth(f, s, fit) \in {Preview!Unit, Preview!clampNumber(d, Preview!Unit, 4 * Preview!Unit)}
    BY DEF Preview!FitWidth
  <1> HIDE DEF d
  <1>6. Preview!Unit \in Int /\ 4 * Preview!Unit \in Int /\ Preview!Unit <= 4 * Preview!Unit
    BY <1>1
  <1>7. /\ Preview!clampNumber(d, Preview!Unit, 4 * Preview!Unit) \in Int
        /\ Preview!Unit <= Preview!clampNumber(d, Preview!Unit, 4 * Preview!Unit)
        /\ Preview!clampNumber(d, Preview!Unit, 4 * Preview!Unit) <= 4 * Preview!Unit
    BY <1>3, <1>6, ClampedWithin
  <1> QED
    BY <1>2, <1>4, <1>6, <1>7 DEF fit

\* syncImageViewerLayout
LEMMA LaidFits ==
  ASSUME NEW v \in Views, v.kind = "image", file \in DOMAIN Attachments,
         Attachments[file].kind = "image",
         NEW s \in [w : Nat \ {0}, h : Nat \ {0}], NEW reset \in BOOLEAN,
         NEW t \in Preview!Tolerances
  PROVE  LET l == Preview!Laid(v, Preview!FitScreen(file, s), s, reset, t)
         IN  l \in Views /\ FitsStage(l) /\ l.kind = v.kind /\ l.state = v.state
  <1> DEFINE fw == Preview!FitWidth(file, s, Preview!FitScreen(file, s))
             x == Preview!clampNumber(fw + 2 * Preview!Unit, 4 * Preview!Unit, 6 * Preview!Unit)
             n == [v EXCEPT !.fitWidth = fw, !.max = x]
             l == Preview!Laid(v, Preview!FitScreen(file, s), s, reset, t)
  <1>1. fw \in Int /\ Preview!Unit <= fw /\ fw <= 4 * Preview!Unit /\ Preview!Unit \in Nat \ {0}
    BY FitSizes DEF Preview!Unit
  <1> HIDE DEF fw
  <1>2. x \in Int /\ 4 * Preview!Unit <= x
    <2>1. fw + 2 * Preview!Unit \in Int /\ 4 * Preview!Unit \in Int /\ 6 * Preview!Unit \in Int /\ 4 * Preview!Unit <= 6 * Preview!Unit
      BY <1>1
    <2> QED
      BY <2>1, ClampedWithin
  <1> HIDE DEF x
  <1>3. /\ n.kind = v.kind /\ n.state = v.state /\ n.fitWidth = fw /\ n.max = x
        /\ n.mode = v.mode /\ n.scale = v.scale /\ n \in Views /\ n.scale \in Int
    BY <1>1, <1>2 DEF Views
  <1>4. l = IF reset \/ v.mode = "fit-screen" THEN Preview!Preset(n, "fit-screen")
            ELSE IF v.mode = "fit-width" /\ Preview!hasFitWidthMode(n)
                 THEN Preview!Preset(n, "fit-width")
            ELSE Scaled(n, n.scale, t)
    BY <1>3 DEF Preview!Laid, Scaled, fw, x
  <1> HIDE DEF n, l
  <1>5. Preview!Unit <= n.fitWidth /\ n.fitWidth <= 4 * Preview!Unit /\ 4 * Preview!Unit <= n.max
    BY <1>1, <1>2, <1>3
  <1>6. CASE reset \/ v.mode = "fit-screen"
    <2>1. l = Preview!Preset(n, "fit-screen")
      BY <1>4, <1>6
    <2>2. l \in Views /\ FitsStage(l) /\ l.kind = n.kind /\ l.state = n.state
      BY <1>3, <1>5, <2>1, PresetFits
    <2> QED
      BY <1>3, <2>2 DEF l
  <1>7. CASE ~(reset \/ v.mode = "fit-screen")
             /\ v.mode = "fit-width" /\ Preview!hasFitWidthMode(n)
    <2>1. l = Preview!Preset(n, "fit-width")
      BY <1>4, <1>7
    <2>2. l \in Views /\ FitsStage(l) /\ l.kind = n.kind /\ l.state = n.state
      BY <1>3, <1>5, <1>7, <2>1, PresetFits
    <2> QED
      BY <1>3, <2>2 DEF l
  <1>8. CASE ~(reset \/ v.mode = "fit-screen")
             /\ ~(v.mode = "fit-width" /\ Preview!hasFitWidthMode(n))
    <2>1. l = Scaled(n, n.scale, t)
      BY <1>4, <1>8
    <2>2. l \in Views /\ FitsStage(l) /\ l.kind = n.kind /\ l.state = n.state
      BY <1>3, <1>5, <2>1, ModeFits
    <2> QED
      BY <1>3, <2>2 DEF l
  <1> QED
    BY <1>6, <1>7, <1>8

\* Whatever is done to the image.
LEMMA TouchKeeps ==
  ASSUME PreviewInv, NEW v \in Views, FitsStage(v), v.kind = view.kind, v.state = view.state,
         Preview!Touches(v)
  PROVE  PreviewInv'
  <1>1. /\ view' = Preview!Applied(v, size, previewStage)
        /\ UNCHANGED <<file, asks, url, live, mounts, controller, alive, previewMade, size,
                       previewStage>>
    BY DEF Preview!Touches, Preview!sourceVars
  <1>2. size \in [w : Nat, h : Nat] /\ previewStage \in [w : Nat \ {0}, h : Nat \ {0}]
    BY DEF PreviewInv, PreviewType
  <1>3. /\ Preview!Framed' /\ FitsStage(view') /\ view' \in Views
        /\ view'.kind = v.kind /\ view'.state = v.state
    BY <1>1, <1>2, AppliedFramed
  <1>4. PreviewType'
    BY <1>1 DEF PreviewInv, PreviewType
  <1>5. CallsKept'
    BY <1>1 DEF PreviewInv, CallsKept, Preview!Latest
  <1>6. ViewType'
    BY <1>1, <1>3 DEF PreviewInv, ViewType
  <1> QED
    BY <1>3, <1>4, <1>5, <1>6 DEF PreviewInv

LEMMA ResetKeeps ==
  ASSUME PreviewInv, Preview!ResetView
  PROVE  PreviewInv'
  <1> DEFINE v == Preview!Preset(view, "fit-screen")
             t == [v EXCEPT !.turned = FALSE]
  <1>1. Preview!Touches(Preview!Still(t))
    BY DEF Preview!ResetView
  <1>2. FitsStage(view) /\ view \in Views
    BY DEF PreviewInv, ViewType
  <1>3. v \in Views /\ FitsStage(v) /\ v.kind = view.kind /\ v.state = view.state
    BY <1>2, PresetFits DEF FitsStage
  <1> HIDE DEF v
  <1>4. /\ t \in Views /\ t.kind = v.kind /\ t.state = v.state /\ t.scale = v.scale
        /\ t.max = v.max /\ t.fitWidth = v.fitWidth /\ t.mode = v.mode
    BY <1>3 DEF Views
  <1> HIDE DEF t
  <1>5. FitsStage(t)
    BY <1>3, <1>4 DEF FitsStage, Preview!hasFitWidthMode
  <1>6. /\ Preview!Still(t) \in Views /\ FitsStage(Preview!Still(t))
        /\ Preview!Still(t).kind = view.kind /\ Preview!Still(t).state = view.state
    BY <1>3, <1>4, <1>5, StillFits
  <1> QED
    BY <1>1, <1>6, TouchKeeps

LEMMA ToggleKeeps ==
  ASSUME PreviewInv, Preview!TogglePreset
  PROVE  PreviewInv'
  <1> DEFINE m == IF view.mode = "fit-screen" THEN "fit-width" ELSE "fit-screen"
             v == Preview!Preset(view, m)
  <1>1. Preview!Touches(Preview!Still(v))
        /\ Preview!hasFitWidthMode(view)
    BY DEF Preview!TogglePreset
  <1>2. FitsStage(view) /\ view \in Views
    BY DEF PreviewInv, ViewType
  <1>3. m \in {"fit-screen", "fit-width"}
    OBVIOUS
  <1> HIDE DEF m
  <1>4. v \in Views /\ FitsStage(v) /\ v.kind = view.kind /\ v.state = view.state
    BY <1>1, <1>2, <1>3, PresetFits DEF FitsStage
  <1> HIDE DEF v
  <1>5. /\ Preview!Still(v) \in Views /\ FitsStage(Preview!Still(v))
        /\ Preview!Still(v).kind = view.kind /\ Preview!Still(v).state = view.state
    BY <1>4, StillFits
  <1> QED
    BY <1>1, <1>5, TouchKeeps

LEMMA RescaledKeeps ==
  ASSUME PreviewInv, NEW c \in Int, Preview!Rescale(c)
  PROVE  PreviewInv'
  <1>1. PICK t \in Preview!Tolerances : Preview!Touches(Preview!Rescaled(c, t))
    BY DEF Preview!Rescale
  <1>2. FitsStage(view) /\ view \in Views
    BY DEF PreviewInv, ViewType
  <1> DEFINE w == Preview!Rescaled(c, t)
  <1>3. w = Scaled(view, c, t)
    BY DEF Preview!Rescaled, Scaled
  <1>4. Preview!Touches(w)
    BY <1>1
  <1> HIDE DEF w
  <1>5. w \in Views /\ FitsStage(w) /\ w.kind = view.kind /\ w.state = view.state
    BY <1>2, <1>3, ModeFits DEF FitsStage
  <1> QED
    BY <1>4, <1>5, TouchKeeps

\* A change that leaves the scale and the mode alone.
LEMMA MovedKeeps ==
  ASSUME PreviewInv, NEW t \in Views, Preview!Touches(t), t.kind = view.kind,
         t.state = view.state, t.scale = view.scale, t.max = view.max,
         t.fitWidth = view.fitWidth, t.mode = view.mode
  PROVE  PreviewInv'
  <1>2. FitsStage(view)
    BY DEF PreviewInv, ViewType
  <1>3. FitsStage(t)
    BY <1>2 DEF FitsStage, Preview!hasFitWidthMode
  <1> QED
    BY <1>3, TouchKeeps

\* The pointer and the turning.
LEMMA PointerKeeps ==
  ASSUME PreviewInv,
         \/ Preview!Rotate \/ Preview!PointerDown \/ Preview!PointerUp
         \/ \E dx, dy \in Drags : Preview!PointerMove(dx, dy)
  PROVE  PreviewInv'
  <1>1. view \in Views /\ view.turned \in BOOLEAN /\ view.x \in Int /\ view.y \in Int
        /\ view.drag \in [x : Int, y : Int, on : BOOLEAN] /\ view.drag.x \in Int
        /\ view.drag.y \in Int
    BY ViewShape DEF PreviewInv, ViewType
  <1>2. Preview!NoDrag \in [x : Int, y : Int, on : BOOLEAN]
    BY DEF Preview!NoDrag
  <1>3. CASE Preview!Rotate
    <2> DEFINE u == [view EXCEPT !.turned = ~view.turned]
               t == [u EXCEPT !.drag = Preview!NoDrag]
    <2>1. Preview!Touches(t)
      BY <1>3 DEF Preview!Rotate, Preview!Still
    <2>2. (~view.turned) \in BOOLEAN
      OBVIOUS
    <2>3. /\ u \in Views /\ u.kind = view.kind /\ u.state = view.state
          /\ u.scale = view.scale /\ u.max = view.max /\ u.fitWidth = view.fitWidth
          /\ u.mode = view.mode
      BY <1>1, <2>2 DEF Views
    <2> HIDE DEF u
    <2>4. /\ t \in Views /\ t.kind = u.kind /\ t.state = u.state
          /\ t.scale = u.scale /\ t.max = u.max /\ t.fitWidth = u.fitWidth
          /\ t.mode = u.mode
      BY <1>2, <2>3 DEF Views
    <2> HIDE DEF t
    <2> QED
      BY <2>1, <2>3, <2>4, MovedKeeps
  <1>4. CASE Preview!PointerDown
    <2> DEFINE d == [x |-> view.x, y |-> view.y, on |-> TRUE]
               t == [view EXCEPT !.drag = d]
    <2>1. Preview!Touches(t)
      BY <1>4 DEF Preview!PointerDown
    <2>2. d \in [x : Int, y : Int, on : BOOLEAN]
      BY <1>1
    <2> HIDE DEF d
    <2>3. /\ t \in Views /\ t.kind = view.kind /\ t.state = view.state
          /\ t.scale = view.scale /\ t.max = view.max /\ t.fitWidth = view.fitWidth
          /\ t.mode = view.mode
      BY <1>1, <2>2 DEF Views
    <2> HIDE DEF t
    <2> QED
      BY <2>1, <2>3, MovedKeeps
  <1>5. CASE Preview!PointerUp
    <2> DEFINE t == [view EXCEPT !.drag = Preview!NoDrag]
    <2>1. Preview!Touches(t)
      BY <1>5 DEF Preview!PointerUp, Preview!Still
    <2>2. /\ t \in Views /\ t.kind = view.kind /\ t.state = view.state
          /\ t.scale = view.scale /\ t.max = view.max /\ t.fitWidth = view.fitWidth
          /\ t.mode = view.mode
      BY <1>1, <1>2 DEF Views
    <2> HIDE DEF t
    <2> QED
      BY <2>1, <2>2, MovedKeeps
  <1>6. CASE \E dx, dy \in Drags : Preview!PointerMove(dx, dy)
    <2>1. PICK dx \in Drags, dy \in Drags : Preview!PointerMove(dx, dy)
      BY <1>6
    <2> DEFINE a == view.drag.x + 2 * Preview!Unit * dx
               b == view.drag.y + 2 * Preview!Unit * dy
               t == [view EXCEPT !.x = a, !.y = b]
    <2>2. Preview!Touches(t)
      BY <2>1 DEF Preview!PointerMove
    <2>3. a \in Int /\ b \in Int
      BY <1>1, PreviewAssumption DEF Preview!Unit
    <2> HIDE DEF a, b
    <2>4. /\ t \in Views /\ t.kind = view.kind /\ t.state = view.state
          /\ t.scale = view.scale /\ t.max = view.max /\ t.fitWidth = view.fitWidth
          /\ t.mode = view.mode
      BY <1>1, <2>3 DEF Views
    <2> HIDE DEF t
    <2> QED
      BY <2>2, <2>4, MovedKeeps
  <1> QED
    BY <1>3, <1>4, <1>5, <1>6

\* The image is laid out, when it has loaded and when the stage changes.
LEMMA PreviewSyncKeeps ==
  ASSUME PreviewInv, NEW v \in Views, v.kind = "image", v.kind = view.kind,
         NEW s \in [w : Nat \ {0}, h : Nat \ {0}], NEW reset \in BOOLEAN,
         Preview!Sync(v, s, reset), previewStage' = s,
         UNCHANGED <<file, asks, url, live, mounts, controller, alive, previewMade>>
  PROVE  PreviewInv'
  <1> DEFINE fit == Preview!FitScreen(file, s)
  <1>1. file \in DOMAIN Attachments /\ Attachments[file].kind = "image"
    BY DEF PreviewInv, ViewType, PreviewType
  <1>2. PICK t \in Preview!Tolerances :
           size' = fit /\ view' = Preview!Applied(Preview!Laid(v, fit, s, reset, t), fit, s)
    BY DEF Preview!Sync
  <1> DEFINE l == Preview!Laid(v, fit, s, reset, t)
  <1>3. fit \in [w : Nat, h : Nat]
    BY <1>1, FitSizes
  <1>4. l \in Views /\ FitsStage(l) /\ l.kind = v.kind /\ l.state = v.state
    BY <1>1, LaidFits
  <1>a. size' = fit /\ view' = Preview!Applied(l, fit, s)
    BY <1>2
  <1> HIDE DEF fit, l
  <1>5. /\ Preview!Framed' /\ FitsStage(view') /\ view' \in Views
        /\ view'.kind = l.kind /\ view'.state = l.state
    BY <1>a, <1>3, <1>4, AppliedFramed
  <1>6. PreviewType'
    BY <1>a, <1>3 DEF PreviewInv, PreviewType
  <1>7. CallsKept'
    BY DEF PreviewInv, CallsKept, Preview!Latest
  <1>8. ViewType'
    BY <1>4, <1>5 DEF PreviewInv, ViewType
  <1> QED
    BY <1>5, <1>6, <1>7, <1>8 DEF PreviewInv

LEMMA LoadsKeeps ==
  ASSUME PreviewInv, Preview!ImageLoads
  PROVE  PreviewInv'
  <1>1. /\ view.kind = "image" /\ view.state = "idle"
        /\ UNCHANGED <<file, asks, url, live, mounts, controller, alive, previewMade,
                       previewStage>>
    BY DEF Preview!ImageLoads, Preview!sourceVars
  <1>2. view \in Views /\ previewStage \in [w : Nat \ {0}, h : Nat \ {0}]
    BY DEF PreviewInv, PreviewType, ViewType
  <1>3. CASE Preview!Sync([view EXCEPT !.state = "ready"], previewStage, TRUE)
    <2> DEFINE v == [view EXCEPT !.state = "ready"]
               reset == TRUE
    <2>1. v \in Views /\ v.kind = view.kind
      BY <1>2 DEF Views
    <2>2. Preview!Sync(v, previewStage, reset) /\ reset \in BOOLEAN
      BY <1>3
    <2> HIDE DEF v, reset
    <2> QED
      BY <1>1, <1>2, <2>1, <2>2, PreviewSyncKeeps
  <1>4. CASE view' = [view EXCEPT !.state = "error"] /\ UNCHANGED size
    <2>1. /\ view' \in Views /\ view'.kind = view.kind /\ view'.state = "error"
          /\ view'.fitWidth = view.fitWidth /\ view'.max = view.max
          /\ view'.scale = view.scale /\ view'.mode = view.mode
      BY <1>2, <1>4 DEF Views
    <2>2. PreviewType' /\ CallsKept'
      BY <1>1, <1>4 DEF PreviewInv, PreviewType, CallsKept, Preview!Latest
    <2>3. ViewType'
      BY <1>1, <2>1 DEF PreviewInv, ViewType
    <2>4. FitsStage(view')
      BY <2>1 DEF PreviewInv, FitsStage, Preview!hasFitWidthMode
    <2>5. Preview!Framed'
      BY <2>1 DEF Preview!Framed
    <2> QED
      BY <2>2, <2>3, <2>4, <2>5 DEF PreviewInv
  <1> QED
    BY <1>3, <1>4 DEF Preview!ImageLoads

LEMMA ResizeKeeps ==
  ASSUME PreviewInv, NEW s \in Viewports, Preview!Resize(s)
  PROVE  PreviewInv'
  <1>1. /\ previewStage' = s
        /\ UNCHANGED <<file, asks, url, live, mounts, controller, alive, previewMade>>
    BY DEF Preview!Resize, Preview!sourceVars
  <1>2. s \in [w : Nat \ {0}, h : Nat \ {0}]
    BY PreviewAssumption
  <1>3. CASE view.state = "ready"
    <2> DEFINE reset == view.scale = Preview!Unit
    <2>1. Preview!Sync(view, s, reset) /\ reset \in BOOLEAN
      BY <1>3 DEF Preview!Resize
    <2>2. view \in Views /\ view.kind = "image"
      BY <1>3 DEF PreviewInv, ViewType
    <2> HIDE DEF reset
    <2> QED
      BY <1>1, <1>2, <2>1, <2>2, PreviewSyncKeeps
  <1>4. CASE view.state # "ready"
    <2>1. UNCHANGED <<view, size>>
      BY <1>4 DEF Preview!Resize
    <2>2. PreviewType' /\ CallsKept' /\ ViewType' /\ FitsStage(view')
      BY <1>1, <1>2, <2>1 DEF PreviewInv, PreviewType, CallsKept, Preview!Latest, ViewType
    <2>3. Preview!Framed'
      BY <1>4, <2>1 DEF Preview!Framed
    <2> QED
      BY <2>2, <2>3 DEF PreviewInv
  <1> QED
    BY <1>3, <1>4

LEMMA BlankFits ==
  ASSUME NEW k \in {"image", "none"}, NEW v, v = Preview!Blank(k)
  PROVE  v \in Views /\ FitsStage(v) /\ v.kind = k /\ v.state = "idle"
  <1>1. Preview!NoDrag \in [x : Int, y : Int, on : BOOLEAN]
    BY DEF Preview!NoDrag
  <1>2. /\ v.kind = k /\ v.state = "idle" /\ v.scale = Preview!Unit
        /\ v.fitWidth = Preview!Unit /\ v.max = 4 * Preview!Unit /\ v.mode = "fit-screen"
        /\ v \in Views
    BY <1>1 DEF Preview!Blank, Views, Preview!Unit
  <1>3. Preview!Near(Preview!Unit, Preview!Unit, 4) /\ Preview!Unit <= 4 * Preview!Unit
        /\ Preview!Unit <= Preview!Unit /\ 4 * Preview!Unit <= 4 * Preview!Unit
    BY DEF Preview!Near, Preview!Unit
  <1> QED
    BY <1>2, <1>3 DEF FitsStage

\* Another file: what the last one had is given back.
LEMMA ShowKeeps ==
  ASSUME PreviewInv, NEW f \in DOMAIN Attachments \cup {"none"}, Preview!Show(f)
  PROVE  PreviewInv'
  <1> DEFINE c == [file |-> f, id |-> previewMade + 1]
             a == IF Preview!KindOf(f) = "image" THEN {c} ELSE {}
             b == IF Preview!KindOf(f) = "document" THEN {c} ELSE {}
             k == IF Preview!KindOf(f) = "image" THEN "image" ELSE "none"
  <1>1. /\ file' = f /\ url' = Preview!NoUrl /\ live' = live \ {url}
        /\ controller' = Preview!NoUrl /\ alive' = alive \ {controller}
        /\ asks' = asks \cup a /\ mounts' = mounts \cup b
        /\ previewMade' = (IF f = "none" THEN previewMade ELSE previewMade + 1)
        /\ view' = Preview!Blank(k) /\ size' = Preview!NoSize /\ previewStage' = previewStage
    BY DEF Preview!Show, Preview!Cleaned
  <1>2. /\ PreviewType /\ CallsKept /\ previewMade \in Nat
    BY DEF PreviewInv, PreviewType
  <1>3. previewMade + 1 \in Nat /\ c.id = previewMade + 1 /\ c.file = f
    BY <1>2
  <1>4. f = "none" => a = {} /\ b = {}
    BY DEF Preview!KindOf
  <1>5. f # "none" => c \in Calls
    BY <1>3 DEF Calls
  <1>6. a \subseteq {c} /\ b \subseteq {c} /\ k \in {"image", "none"}
        /\ (k = "image" => f # "none" /\ Attachments[f].kind = "image")
    BY DEF Preview!KindOf
  <1> HIDE DEF a, b, c, k
  <1>7. PreviewType'
    <2>1. Preview!NoSize \in [w : Nat, h : Nat]
      BY DEF Preview!NoSize
    <2> QED
      BY <1>1, <1>2, <1>3, <1>4, <1>5, <1>6, <2>1 DEF PreviewType
  <1>8. CallsKept'
    <2>1. live' = {} /\ alive' = {}
      BY <1>1, <1>2 DEF CallsKept
    <2>2. \A x \in asks \cup mounts : x.id \in Nat /\ x.id <= previewMade
      BY <1>2 DEF CallsKept, PreviewType, Calls
    <2>3. \A x \in asks' \cup mounts' :
            /\ x.id <= previewMade'
            /\ file' # "none" /\ x.id = previewMade' => x.file = file'
      BY <1>1, <1>2, <1>3, <1>4, <1>6, <2>2
    <2> QED
      BY <1>1, <2>1, <2>3 DEF CallsKept, Preview!Latest
  <1>9. view' \in Views /\ FitsStage(view') /\ view'.kind = k /\ view'.state = "idle"
    BY <1>1, <1>6, BlankFits
  <1>10. ViewType'
    BY <1>1, <1>6, <1>9 DEF ViewType
  <1>12. Preview!Framed'
    BY <1>9 DEF Preview!Framed
  <1> QED
    BY <1>7, <1>8, <1>9, <1>10, <1>12 DEF PreviewInv

\* An answer is taken only from the call of the file shown.
LEMMA CallEnds ==
  ASSUME PreviewInv,
         (\E c \in asks : Preview!Resolved(c)) \/ (\E c \in mounts : Preview!Mounted(c))
  PROVE  PreviewInv'
  <1>1. UNCHANGED <<file, previewMade, view, size, previewStage>>
    BY DEF Preview!Resolved, Preview!Mounted
  <1>2. PreviewType /\ CallsKept
    BY DEF PreviewInv
  <1>3. ViewType' /\ FitsStage(view') /\ Preview!Framed'
    BY <1>1 DEF PreviewInv, ViewType, Preview!Framed, Preview!Bounds,
       Preview!hasFitWidthMode
  <1>4. \A x, y \in Calls : x.file = y.file /\ x.id = y.id => x = y
    BY DEF Calls
  <1>5. Preview!NoUrl \notin Calls
    BY PreviewAssumption DEF Preview!NoUrl, Calls
  <1>6. CASE \E c \in asks : Preview!Resolved(c)
    <2>1. PICK c \in asks : Preview!Resolved(c)
      BY <1>6
    <2>2. /\ asks' = asks \ {c} /\ UNCHANGED <<mounts, controller, alive>>
          /\ \/ Preview!Latest(c) /\ url' = c /\ live' = live \cup {c}
             \/ UNCHANGED <<url, live>>
      BY <2>1 DEF Preview!Resolved
    <2>3. c \in Calls
      BY <1>2 DEF PreviewType
    <2>4. PreviewType'
      BY <1>1, <1>2, <2>2, <2>3 DEF PreviewType
    <2>5. CASE UNCHANGED <<url, live>>
      BY <1>1, <1>2, <1>3, <2>2, <2>4, <2>5 DEF PreviewInv, CallsKept, Preview!Latest
    <2>6. CASE Preview!Latest(c) /\ url' = c /\ live' = live \cup {c}
      <3>1. c.file = file /\ url = Preview!NoUrl /\ live = {}
        BY <1>2, <2>6 DEF CallsKept
      <3>2. \A x \in asks' : ~Preview!Latest(x)
        BY <1>2, <1>4, <2>2, <2>3, <2>6, <3>1 DEF CallsKept, PreviewType, Preview!Latest
      <3>3. live' = {url'} \ {Preview!NoUrl}
        BY <1>5, <2>3, <2>6, <3>1
      <3>4. CallsKept'
        BY <1>1, <1>2, <2>2, <2>6, <3>1, <3>2, <3>3 DEF CallsKept, Preview!Latest
      <3> QED
        BY <1>3, <2>4, <3>4 DEF PreviewInv
    <2> QED
      BY <2>2, <2>5, <2>6
  <1>7. CASE \E c \in mounts : Preview!Mounted(c)
    <2>1. PICK c \in mounts : Preview!Mounted(c)
      BY <1>7
    <2>2. /\ mounts' = mounts \ {c} /\ UNCHANGED <<asks, url, live>>
          /\ \/ Preview!Latest(c) /\ controller' = c /\ alive' = alive \cup {c}
             \/ UNCHANGED <<controller, alive>>
      BY <2>1 DEF Preview!Mounted
    <2>3. c \in Calls
      BY <1>2 DEF PreviewType
    <2>4. PreviewType'
      BY <1>1, <1>2, <2>2, <2>3 DEF PreviewType
    <2>5. CASE UNCHANGED <<controller, alive>>
      BY <1>1, <1>2, <1>3, <2>2, <2>4, <2>5 DEF PreviewInv, CallsKept, Preview!Latest
    <2>6. CASE Preview!Latest(c) /\ controller' = c /\ alive' = alive \cup {c}
      <3>1. c.file = file /\ controller = Preview!NoUrl /\ alive = {}
        BY <1>2, <2>6 DEF CallsKept
      <3>2. \A x \in mounts' : ~Preview!Latest(x)
        BY <1>2, <1>4, <2>2, <2>3, <2>6, <3>1 DEF CallsKept, PreviewType, Preview!Latest
      <3>3. alive' = {controller'} \ {Preview!NoUrl}
        BY <1>5, <2>3, <2>6, <3>1
      <3>4. CallsKept'
        BY <1>1, <1>2, <2>2, <2>6, <3>1, <3>2, <3>3 DEF CallsKept, Preview!Latest
      <3> QED
        BY <1>3, <2>4, <3>4 DEF PreviewInv
    <2> QED
      BY <2>2, <2>5, <2>6
  <1> QED
    BY <1>6, <1>7

LEMMA PreviewInit == Preview!PreviewInit => PreviewInv
  <1> SUFFICES ASSUME Preview!PreviewInit PROVE PreviewInv
    OBVIOUS
  <1>1. /\ file = "none" /\ asks = {} /\ url = Preview!NoUrl /\ live = {} /\ mounts = {}
        /\ controller = Preview!NoUrl /\ alive = {} /\ previewMade = 0
        /\ view = Preview!Blank("none") /\ size = Preview!NoSize /\ previewStage \in Viewports
    BY DEF Preview!PreviewInit
  <1>2. view \in Views /\ FitsStage(view) /\ view.kind = "none" /\ view.state = "idle"
    BY <1>1, BlankFits
  <1>3. PreviewType
    BY <1>1, PreviewAssumption DEF PreviewType, Preview!NoSize
  <1>4. CallsKept
    BY <1>1 DEF CallsKept
  <1>5. ViewType /\ Preview!Framed
    BY <1>2 DEF ViewType, Preview!Framed
  <1> QED
    BY <1>2, <1>3, <1>4, <1>5 DEF PreviewInv

LEMMA PreviewNext == PreviewInv /\ [Preview!PreviewNext]_previewVars => PreviewInv'
  <1> SUFFICES ASSUME PreviewInv, [Preview!PreviewNext]_previewVars PROVE PreviewInv'
    OBVIOUS
  <1>a. view.scale \in Int
    BY ViewShape DEF PreviewInv, ViewType
  <1>1. CASE (\E b \in BOOLEAN : Preview!Wheel(b)) \/ Preview!ZoomOut \/ Preview!ZoomIn
    <2>1. view.scale + 18 \in Int /\ view.scale + (-18) \in Int
          /\ view.scale - 25 \in Int /\ view.scale + 25 \in Int
      BY <1>a
    <2>2. \/ Preview!Rescale(view.scale + 18) \/ Preview!Rescale(view.scale + (-18))
          \/ Preview!Rescale(view.scale - 25) \/ Preview!Rescale(view.scale + 25)
      BY <1>1 DEF Preview!Wheel, Preview!ZoomOut, Preview!ZoomIn
    <2> QED
      BY <2>1, <2>2, RescaledKeeps
  <1>2. CASE Preview!DoubleClick
    <2>1. CASE Preview!Rescale(Preview!Unit + 90)
      <3>1. Preview!Unit + 90 \in Int
        BY DEF Preview!Unit
      <3> QED
        BY <2>1, <3>1, RescaledKeeps
    <2> QED
      BY <1>2, <2>1, ToggleKeeps, ResetKeeps DEF Preview!DoubleClick
  <1>3. CASE UNCHANGED previewVars
    <2>1. PreviewType' /\ CallsKept' /\ ViewType' /\ FitsStage(view')
      BY <1>3 DEF PreviewInv, previewVars, PreviewType, CallsKept, Preview!Latest, ViewType
    <2>2. Preview!Framed'
      BY <1>3 DEF PreviewInv, previewVars, Preview!Framed, Preview!Bounds,
         Preview!hasFitWidthMode
    <2> QED
      BY <2>1, <2>2 DEF PreviewInv
  <1>4. CASE \E s \in Viewports : Preview!Resize(s)
    BY <1>4, ResizeKeeps
  <1>5. CASE \E f \in DOMAIN Attachments \cup {"none"} : Preview!Show(f)
    BY <1>5, ShowKeeps
  <1> QED
    BY <1>1, <1>2, <1>3, <1>4, <1>5, CallEnds, LoadsKeeps, ToggleKeeps, ResetKeeps, PointerKeeps
    DEF Preview!PreviewNext

LEMMA PreviewKept == PreviewInv => Preview!PreviewOwned /\ Preview!Framed
  BY DEF PreviewInv, CallsKept, Preview!PreviewOwned

-----------------------------------------------------------------------------
\* Attachments in the browser.

LEMMA Quotient ==
  ASSUME NEW a \in Nat, NEW b \in Nat \ {0}
  PROVE  /\ a \div b \in Nat /\ a % b \in Nat /\ a % b < b
         /\ a = (a \div b) * b + (a % b)
  <1>1. a \div b \in Int /\ a % b \in 0 .. b - 1 /\ a = b * (a \div b) + (a % b)
    BY SMT
  <1>2. a \div b \in Nat
    BY <1>1
  <1> QED
    BY <1>1, <1>2

LEMMA QuotientOf ==
  ASSUME NEW i \in Nat, NEW b \in Nat \ {0}, NEW r \in Nat, r < b
  PROVE  (i * b + r) \div b = i
  <1> DEFINE a == i * b + r
             q == a \div b
             m == a % b
  <1>1. a \in Nat
    BY SMT
  <1>2. q \in Nat /\ m \in Nat /\ m < b /\ i * b + r = q * b + m
    BY <1>1, Quotient
  <1> HIDE DEF a, q, m
  <1>3. ASSUME q < i PROVE FALSE
    <2>1. (i - q) * b = m - r /\ i - q >= 1
      BY <1>2, <1>3
    <2>2. (i - q) * b >= b
      BY <1>2, <2>1
    <2> QED
      BY <1>2, <2>1, <2>2
  <1>4. ASSUME i < q PROVE FALSE
    <2>1. (q - i) * b = r - m /\ q - i >= 1
      BY <1>2, <1>4
    <2>2. (q - i) * b >= b
      BY <1>2, <2>1
    <2> QED
      BY <1>2, <2>1, <2>2
  <1>5. q = i
    BY <1>2, <1>3, <1>4
  <1> QED
    BY <1>5 DEF q, a

\* The chunks cover the file: all but the last are full.
LEMMA Counted ==
  ASSUME NEW l \in Nat
  PROVE  /\ Browser!CountOf(l) \in Nat /\ l <= Browser!CountOf(l) * ChunkSize
         /\ (Browser!CountOf(l) - 1) * ChunkSize < l
  <1> DEFINE a == l + ChunkSize - 1
             n == a \div ChunkSize
             m == a % ChunkSize
  <1>1. a \in Nat /\ ChunkSize \in Nat \ {0}
    BY BrowserAssumption
  <1>2. n \in Nat /\ m \in Nat /\ m < ChunkSize /\ a = n * ChunkSize + m
    BY <1>1, Quotient
  <1> HIDE DEF n, m
  <1>3. (n - 1) * ChunkSize = n * ChunkSize - ChunkSize /\ n * ChunkSize \in Nat
    BY <1>1, <1>2
  <1>4. l <= n * ChunkSize /\ (n - 1) * ChunkSize < l
    BY <1>1, <1>2, <1>3
  <1> QED
    BY <1>2, <1>4 DEF n, Browser!CountOf

\* Where the chunk i is in the file and in the body.
LEMMA ChunkPlace ==
  ASSUME NEW l \in Nat, NEW n \in Nat, l <= n * ChunkSize, (n - 1) * ChunkSize < l,
         NEW i \in 0 .. n - 1
  PROVE  LET c == Browser!chunkPlaintextLengthAt(ChunkSize, l, i)
         IN  /\ c \in Nat \ {0} /\ c <= ChunkSize
             /\ Browser!Least(l, (i + 1) * ChunkSize) = i * ChunkSize + c
             /\ i * (ChunkSize + 1) + c + 1 <= Browser!encryptedBodyLength(l, n)
             /\ Browser!encryptedBodyLength(l, n) \in Nat
             /\ i * ChunkSize + c <= l
  <1> DEFINE z == ChunkSize
             c == Browser!chunkPlaintextLengthAt(z, l, i)
             b == Browser!encryptedBodyLength(l, n)
  <1>1. z \in Nat \ {0} /\ i \in Nat /\ n \in Nat \ {0}
    BY BrowserAssumption
  <1>2. /\ (i + 1) * z = i * z + z /\ i * z \in Nat /\ n * z = (n - 1) * z + z
        /\ (n - 1) * z \in Nat
        /\ i * (z + 1) = i * z + i /\ (n - 1) * (z + 1) = (n - 1) * z + (n - 1)
    BY <1>1
  <1>3. b = (n - 1) * (z + 1) + (l - (n - 1) * z) + 1
    BY <1>1 DEF Browser!encryptedBodyLength, Browser!TagLength
  <1>4. i * z <= (n - 1) * z
    BY <1>1
  <1>5. ~(i * z >= l)
    BY <1>1, <1>2, <1>4
  <1>6. c = IF l - i * z < z THEN l - i * z ELSE z
    BY <1>5 DEF Browser!chunkPlaintextLengthAt, Browser!Least
  <1>7. b = n + l
    BY <1>1, <1>2, <1>3
  <1>8. CASE i = n - 1
    BY <1>1, <1>2, <1>5, <1>6, <1>7, <1>8 DEF Browser!Least
  <1>9. CASE i # n - 1
    <2>1. i + 1 <= n - 1
      BY <1>1, <1>9
    <2>2. (i + 1) * z <= (n - 1) * z
      BY <1>1, <2>1
    <2>3. i * z + z < l
      BY <1>1, <1>2, <2>2
    <2>4. c = z
      BY <1>1, <1>2, <1>6, <2>3
    <2>5. i * (z + 1) + c + 1 <= b
      BY <1>1, <1>2, <1>7, <2>1, <2>3, <2>4
    <2> QED
      BY <1>1, <1>2, <1>7, <2>3, <2>4, <2>5 DEF Browser!Least
  <1> QED
    BY <1>8, <1>9

\* What encryptFile seals, decryptFile opens: for every file, whatever its
\* length, and for every draw of the nonces.
THEOREM SealedOpens ==
  ASSUME NEW S, NEW p \in Seq(S), NEW k
  PROVE  Browser!decryptFile(Browser!encryptFile(k, p)) = p
  <1> DEFINE z == ChunkSize
             l == Len(p)
             n == Browser!CountOf(l)
             b == Browser!encryptedBodyLength(l, n)
             Chunk(i) == SubSeq(p, i * z + 1, Browser!Least(l, (i + 1) * z))
             Box(i) == Browser!Sealed(<<k, i>>, Browser!chunkAad(i, ":"), Chunk(i))
             Byte(y) == Box((y - 1) \div (z + 1))[y - ((y - 1) \div (z + 1)) * (z + 1)]
             body == [q \in 1 .. b |-> Byte(q)]
             c == Browser!encryptFile(k, p)
             Size(i) == Browser!chunkPlaintextLengthAt(z, l, i)
             Slice(i) == SubSeq(body, i * (z + 1) + 1,
                                Browser!Least(Len(body), i * (z + 1) + Size(i) + 1))
             Opens(i) == /\ Slice(i) # << >>
                         /\ \E separator \in {":", "0"} :
                              Slice(i) = Browser!Sealed(<<k, i>>, Browser!chunkAad(i, separator),
                                                        Slice(i)[1].chunk)
             plain == [q \in 1 .. l |-> Slice((q - 1) \div z)[1].chunk[((q - 1) % z) + 1]]
  <1>1. z \in Nat \ {0} /\ l \in Nat /\ z + 1 \in Nat \ {0}
    BY BrowserAssumption
  <1>2. n \in Nat /\ l <= n * z /\ (n - 1) * z < l
    BY <1>1, Counted
  <1>3. c = [chunkSize |-> z, size |-> l, sha256 |-> p, count |-> n, nonces |-> k,
             body |-> body]
    BY DEF Browser!encryptFile, Browser!TagLength
  <1> HIDE DEF body, c, n, Slice, Chunk
  <1>4. Browser!decryptFile(c) = IF /\ z # 0
                                    /\ \A i \in 0 .. n - 1 : Opens(i)
                                    /\ plain = p
                                 THEN plain ELSE Browser!Refused
    BY <1>3 DEF Browser!decryptFile, Browser!TagLength, Browser!Empty, Slice
  <1>5. ASSUME NEW i \in 0 .. n - 1
        PROVE  Chunk(i) \in Seq(S) /\ Len(Chunk(i)) = Size(i) /\ Size(i) \in Nat \ {0}
               /\ \A q \in 1 .. Size(i) : Chunk(i)[q] = p[i * z + q]
    <2>1. /\ Size(i) \in Nat \ {0} /\ Browser!Least(l, (i + 1) * z) = i * z + Size(i)
          /\ i * z + Size(i) <= l
      BY <1>1, <1>2, ChunkPlace
    <2>2. i * z \in Nat
      BY <1>1
    <2> DEFINE s == Size(i)
               w == i * z
    <2>3. s \in Nat \ {0} /\ w \in Nat /\ w + s <= l /\ Chunk(i) = SubSeq(p, w + 1, w + s)
      BY <2>1, <2>2 DEF Chunk
    <2> HIDE DEF s, w, Box
    <2>4. /\ Chunk(i) \in Seq(S) /\ Len(Chunk(i)) = s
          /\ \A q \in 1 .. s : Chunk(i)[q] = p[w + q]
      BY <1>1, <2>3
    <2> QED
      BY <2>3, <2>4 DEF s, w
  <1>6. ASSUME NEW i \in 0 .. n - 1
        PROVE  Slice(i) = Box(i)
    <2> DEFINE s == Size(i)
               w == i * (z + 1)
    <2>1. s \in Nat \ {0} /\ s <= z /\ w + s + 1 <= b /\ b \in Nat
      BY <1>1, <1>2, ChunkPlace
    <2>2. w \in Nat
      BY <1>1
    <2> HIDE DEF b
    <2>3. body \in Seq({Byte(q) : q \in 1 .. b}) /\ Len(body) = b
          /\ \A q \in 1 .. b : body[q] = Byte(q)
      <3> HIDE DEF Byte
      <3>1. body \in [1 .. b -> {Byte(q) : q \in 1 .. b}]
        BY DEF body
      <3> QED
        BY <2>1, <3>1, SeqDef DEF body
    <2> HIDE DEF s, w, Box
    <2>4. Slice(i) = SubSeq(body, w + 1, w + s + 1)
      <3>1. Slice(i) = SubSeq(body, w + 1, Browser!Least(Len(body), w + s + 1))
        BY DEF Slice, s, w
      <3>2. Browser!Least(Len(body), w + s + 1) = w + s + 1
        BY <2>1, <2>2, <2>3 DEF Browser!Least
      <3> QED
        BY <3>1, <3>2
    <2>5. /\ Slice(i) \in Seq({Byte(q) : q \in 1 .. b}) /\ Len(Slice(i)) = s + 1
          /\ \A q \in 1 .. s + 1 : Slice(i)[q] = body[w + q]
      <3> DEFINE X == {Byte(q) : q \in 1 .. b}
      <3>1. body \in Seq(X) /\ Len(body) = b
        BY <2>3
      <3> HIDE DEF X
      <3>2. /\ Slice(i) \in Seq(X) /\ Len(Slice(i)) = s + 1
            /\ \A q \in 1 .. s + 1 : Slice(i)[q] = body[w + q]
        BY <2>1, <2>2, <2>4, <3>1
      <3> QED
        BY <3>2 DEF X
    <2>6. ASSUME NEW q \in 1 .. s + 1 PROVE Slice(i)[q] = Box(i)[q]
      <3>1. Slice(i)[q] = body[w + q] /\ w + q \in 1 .. b
        BY <2>1, <2>2, <2>5
      <3>2. body[w + q] = Byte(w + q)
        BY <2>3, <3>1
      <3>3. ((w + q) - 1) \div (z + 1) = i
        <4>1. q - 1 \in Nat /\ q - 1 < z + 1 /\ i \in Nat
          BY <1>1, <2>1
        <4>2. (i * (z + 1) + (q - 1)) \div (z + 1) = i
          BY <1>1, <4>1, QuotientOf
        <4>3. i * (z + 1) + (q - 1) = (w + q) - 1
          BY <2>2, <4>1 DEF w
        <4> QED
          BY <4>2, <4>3
      <3>4. (w + q) - i * (z + 1) = q
        BY <2>2 DEF w
      <3> QED
        BY <3>1, <3>2, <3>3, <3>4
    <2>7. Box(i) = [q \in 1 .. s + 1 |-> Box(i)[q]]
      BY <1>5 DEF Box, Browser!Sealed, Browser!TagLength, s
    <2>8. Slice(i) = [q \in 1 .. s + 1 |-> Slice(i)[q]]
      BY <2>1, <2>5
    <2> QED
      BY <2>6, <2>7, <2>8
  <1>7. ASSUME NEW i \in 0 .. n - 1
        PROVE  Opens(i) /\ Slice(i)[1].chunk = Chunk(i)
    <2>1. /\ 1 \in 1 .. Len(Chunk(i)) + 1 /\ 1 .. Len(Chunk(i)) + 1 # {}
      BY <1>5
    <2>2. Box(i)[1].chunk = Chunk(i)
      BY <2>1 DEF Browser!Sealed, Browser!TagLength
    <2>3. Box(i) # << >>
      BY <2>1 DEF Browser!Sealed, Browser!TagLength
    <2>4. Slice(i)[1].chunk = Chunk(i) /\ Slice(i) # << >>
      BY <1>6, <2>2, <2>3
    <2>5. Slice(i) = Browser!Sealed(<<k, i>>, Browser!chunkAad(i, ":"), Slice(i)[1].chunk)
      BY <1>6, <2>4
    <2> QED
      BY <2>4, <2>5
  <1>8. ASSUME NEW q \in 1 .. l
        PROVE  plain[q] = p[q]
    <2> DEFINE i == (q - 1) \div z
               r == (q - 1) % z
    <2>1. q - 1 \in Nat
      BY <1>1
    <2>2. i \in Nat /\ r \in Nat /\ r < z /\ q - 1 = i * z + r
      BY <1>1, <2>1, Quotient
    <2> HIDE DEF i, r
    <2>3. i \in 0 .. n - 1
      <3>1. i * z < n * z
        BY <1>1, <1>2, <2>2
      <3>2. i < n
        <4>1. ASSUME n <= i PROVE FALSE
          <5>1. n * z <= i * z
            BY <1>1, <1>2, <2>2, <4>1
          <5>2. n * z \in Int /\ i * z \in Int
            BY <1>1, <1>2, <2>2
          <5> QED
            BY <3>1, <5>1, <5>2
        <4> QED
          BY <1>2, <2>2, <4>1
      <3> QED
        BY <1>2, <2>2, <3>2
    <2>4. plain[q] = Slice(i)[1].chunk[r + 1]
      BY DEF i, r
    <2>5. /\ Browser!Least(l, (i + 1) * z) = i * z + Size(i) /\ Size(i) \in Nat
      BY <1>1, <1>2, <2>3, ChunkPlace
    <2>6. r + 1 \in 1 .. Size(i)
      <3>1. (i + 1) * z = i * z + z /\ i * z \in Nat
        BY <1>1, <2>2
      <3>2. i * z + r + 1 <= l /\ i * z + r + 1 <= (i + 1) * z
        BY <1>1, <2>2, <3>1
      <3>3. i * z + r + 1 <= i * z + Size(i)
        BY <1>1, <2>5, <3>1, <3>2 DEF Browser!Least
      <3> QED
        BY <2>2, <2>5, <3>1, <3>3
    <2>7. Slice(i)[1].chunk[r + 1] = p[i * z + (r + 1)]
      BY <1>5, <1>7, <2>3, <2>6
    <2>8. i * z + (r + 1) = q
      <3>1. i * z \in Nat
        BY <1>1, <2>2
      <3> QED
        BY <2>2, <3>1
    <2> QED
      BY <2>4, <2>7, <2>8
  <1>9. plain = p
    <2>1. p = [q \in 1 .. l |-> p[q]]
      OBVIOUS
    <2> HIDE DEF l
    <2>2. plain = [q \in 1 .. l |-> plain[q]]
      OBVIOUS
    <2> HIDE DEF plain
    <2> QED
      BY <1>8, <2>1, <2>2
  <1> HIDE DEF plain, Opens
  <1>10. Browser!decryptFile(c) = p
    BY <1>1, <1>4, <1>7, <1>9
  <1> QED
    BY <1>10 DEF c

Chosen == Contents \cup {<< >>}
SealedOf(c) == {Browser!encryptFile(k, c) : k \in Nat}
Bodies == Chosen \cup UNION {SealedOf(c) : c \in Chosen}
Uploads == [at : {"idle", "chosen", "registered", "signed", "reading", "putting",
                  "confirming", "marking"},
            file : [seen : Chosen, now : Chosen],
            transfer : [state : {"none", "usable", "expired"}, sealed : BOOLEAN,
                        plaintext : Chosen],
            sum : Bodies]

BrowserType ==
    /\ tab \in [Tabs -> Uploads]
    /\ row \in [status : {"none", "pending", "uploaded"}, content : Chosen,
                sealed : BOOLEAN, sum : Bodies]
    /\ object \in Bodies /\ drawn \in Nat /\ overwritten \in BOOLEAN

\* An upload that was signed works for the row that is registered, what it sends
\* is a sealing of the file registered, and what it confirms is what is stored.
UploadKept(u) ==
    /\ u.at \notin {"idle", "chosen"} => row.status # "none"
    /\ u.at \in {"signed", "reading"} /\ row.sealed =>
         u.transfer.sealed /\ u.transfer.plaintext = row.content
    /\ u.at \in {"putting", "confirming", "marking"} /\ row.sealed =>
         u.sum \in SealedOf(row.content)
    /\ u.at = "marking" /\ row.sealed /\ ~overwritten => object = u.sum

RowKept ==
    /\ row.status = "none" => ~row.sealed
    /\ row.status # "uploaded" => handed = {}
    /\ row.status = "uploaded" /\ row.sealed =>
         /\ row.sum \in SealedOf(row.content)
         /\ ~overwritten => object = row.sum
    /\ Browser!HandedAsRegistered

BrowserInv == BrowserType /\ (\A t \in Tabs : UploadKept(tab[t])) /\ RowKept

LEMMA SealingOpens ==
  ASSUME NEW c \in Chosen, NEW o \in SealedOf(c)
  PROVE  Browser!decryptFile(o) = c
  <1>1. PICK k \in Nat : o = Browser!encryptFile(k, c)
    BY DEF SealedOf
  <1>2. CASE c \in Contents
    <2>1. c \in Seq({c[n] : n \in DOMAIN c})
      BY <1>2, BrowserAssumption
    <2> QED
      BY <1>1, <2>1, SealedOpens
  <1>3. CASE c = << >>
    <2>1. c \in Seq({})
      BY <1>3
    <2> QED
      BY <1>1, <2>1, SealedOpens
  <1> QED
    BY <1>2, <1>3 DEF Chosen

LEMMA TabShape ==
  ASSUME BrowserType, NEW t \in Tabs
  PROVE  /\ tab[t] \in Uploads /\ tab[t].file \in [seen : Chosen, now : Chosen]
         /\ tab[t].file.seen \in Chosen /\ tab[t].file.now \in Chosen
         /\ tab[t].transfer \in [state : {"none", "usable", "expired"}, sealed : BOOLEAN,
                                 plaintext : Chosen]
         /\ tab[t].sum \in Bodies /\ tab[t].transfer.sealed \in BOOLEAN
  <1>1. tab[t] \in Uploads
    BY DEF BrowserType
  <1>2. /\ tab[t].file \in [seen : Chosen, now : Chosen]
        /\ tab[t].transfer \in [state : {"none", "usable", "expired"}, sealed : BOOLEAN,
                                plaintext : Chosen]
        /\ tab[t].sum \in Bodies
    BY <1>1 DEF Uploads
  <1> QED
    BY <1>1, <1>2

LEMMA IdleKept ==
  /\ Browser!Idle \in Uploads /\ Browser!Idle.at = "idle" /\ UploadKept(Browser!Idle)
  /\ UploadKept(Browser!Idle)'
  <1>1. << >> \in Chosen /\ << >> \in Bodies
    BY DEF Chosen, Bodies
  <1>2. /\ [seen |-> << >>, now |-> << >>] \in [seen : Chosen, now : Chosen]
        /\ [state |-> "none", sealed |-> FALSE, plaintext |-> << >>] \in
             [state : {"none", "usable", "expired"}, sealed : BOOLEAN, plaintext : Chosen]
    BY <1>1
  <1>3. Browser!Idle = [at |-> "idle", file |-> [seen |-> << >>, now |-> << >>],
                        transfer |-> [state |-> "none", sealed |-> FALSE, plaintext |-> << >>],
                        sum |-> << >>]
    BY DEF Browser!Idle, Browser!NoFile, Browser!NoTransfer, Browser!Empty
  <1>4. Browser!Idle.at = "idle"
    BY <1>3
  <1> QED
    BY <1>1, <1>2, <1>3, <1>4 DEF Uploads, UploadKept

\* A step of one tab that leaves the row, the object and the user's files alone.
LEMMA TabSteps ==
  ASSUME BrowserInv, NEW t \in Tabs, NEW u \in Uploads, tab' = [tab EXCEPT ![t] = u],
         UploadKept(u), UNCHANGED <<row, object, handed, overwritten>>, drawn' \in Nat
  PROVE  BrowserInv'
  <1>1. /\ tab \in [Tabs -> Uploads]
    BY DEF BrowserInv, BrowserType
  <1>2. tab' \in [Tabs -> Uploads] /\ tab'[t] = u /\ \A x \in Tabs : x # t => tab'[x] = tab[x]
    BY <1>1
  <1>3. BrowserType'
    BY <1>2 DEF BrowserInv, BrowserType
  <1>4. \A x \in Tabs : UploadKept(tab[x])'
    <2> SUFFICES ASSUME NEW x \in Tabs PROVE UploadKept(tab[x])'
      OBVIOUS
    <2>1. tab'[x] = u \/ tab'[x] = tab[x]
      BY <1>2
    <2> QED
      BY <2>1 DEF BrowserInv, UploadKept
  <1>5. RowKept'
    BY DEF BrowserInv, RowKept, Browser!HandedAsRegistered
  <1> QED
    BY <1>3, <1>4, <1>5 DEF BrowserInv

LEMMA StopsKeeps ==
  ASSUME BrowserInv, NEW t \in Tabs, Browser!Stops(t),
         UNCHANGED <<row, object, handed, overwritten>>, drawn' \in Nat
  PROVE  BrowserInv'
  BY TabSteps, IdleKept DEF Browser!Stops

\* Steps that only change where a tab is.
LEMMA AtChanges ==
  ASSUME BrowserType, NEW t \in Tabs,
         NEW a \in {"idle", "chosen", "registered", "signed", "reading", "putting",
                    "confirming", "marking"}, Browser!Goes(t, a)
  PROVE  \E u \in Uploads :
           /\ tab' = [tab EXCEPT ![t] = u] /\ u.at = a /\ u.transfer = tab[t].transfer
           /\ u.sum = tab[t].sum
  <1> DEFINE u == [tab[t] EXCEPT !.at = a]
  <1>1. tab' = [tab EXCEPT ![t] = u]
    BY DEF Browser!Goes
  <1>2. u \in Uploads /\ u.at = a /\ u.transfer = tab[t].transfer /\ u.sum = tab[t].sum
    BY TabShape DEF Uploads
  <1> HIDE DEF u
  <1> QED
    BY <1>1, <1>2

\* Choosing a file, its being changed, and what ends without a word.
LEMMA ChooseKeeps ==
  ASSUME BrowserInv, NEW t \in Tabs,
         Browser!Choose(t) \/ Browser!FileChanges(t) \/ Browser!Expire(t) \/ Browser!Leave(t)
  PROVE  BrowserInv'
  <1>1. /\ UNCHANGED <<row, object, handed, overwritten, drawn>> /\ BrowserType
        /\ UploadKept(tab[t]) /\ drawn \in Nat
    BY DEF Browser!Choose, Browser!FileChanges, Browser!Expire, Browser!Leave, BrowserInv,
       BrowserType
  <1>2. CASE Browser!Choose(t)
    <2> DEFINE a == IF row.status = "none" THEN "chosen" ELSE "registered"
    <2>1. PICK c \in Contents :
            tab' = [tab EXCEPT ![t] =
                      [Browser!Idle EXCEPT !.at = a, !.file = [seen |-> c, now |-> c]]]
      BY <1>2 DEF Browser!Choose
    <2> DEFINE f == [seen |-> c, now |-> c]
               u == [Browser!Idle EXCEPT !.at = a, !.file = f]
    <2>2. f \in [seen : Chosen, now : Chosen]
      BY DEF Chosen
    <2>3. a \in {"chosen", "registered"} /\ (a = "registered" => row.status # "none")
      OBVIOUS
    <2> HIDE DEF a, f
    <2>4. u \in Uploads /\ u.at = a
      BY <2>2, <2>3, IdleKept DEF Uploads
    <2>5. tab' = [tab EXCEPT ![t] = u]
      BY <2>1 DEF f
    <2> HIDE DEF u
    <2>6. UploadKept(u)
      BY <2>3, <2>4 DEF UploadKept
    <2> QED
      BY <1>1, <2>4, <2>5, <2>6, TabSteps
  <1>3. CASE Browser!FileChanges(t)
    <2>1. PICK c \in Contents : tab' = [tab EXCEPT ![t].file.now = c]
      BY <1>3 DEF Browser!FileChanges
    <2> DEFINE f == [tab[t].file EXCEPT !.now = c]
               u == [tab[t] EXCEPT !.file = f]
    <2>2. f \in [seen : Chosen, now : Chosen]
      BY <1>1, TabShape DEF Chosen
    <2>3. tab' = [tab EXCEPT ![t] = u]
      BY <2>1
    <2> HIDE DEF f
    <2>4. u \in Uploads /\ u.at = tab[t].at /\ u.transfer = tab[t].transfer /\ u.sum = tab[t].sum
      BY <1>1, <2>2, TabShape DEF Uploads
    <2> HIDE DEF u
    <2>5. UploadKept(u)
      BY <1>1, <2>4 DEF UploadKept
    <2> QED
      BY <1>1, <2>3, <2>4, <2>5, TabSteps
  <1>4. CASE Browser!Expire(t)
    <2>1. tab' = [tab EXCEPT ![t].transfer.state = "expired"]
      BY <1>4 DEF Browser!Expire
    <2> DEFINE f == [tab[t].transfer EXCEPT !.state = "expired"]
               u == [tab[t] EXCEPT !.transfer = f]
    <2>2. /\ f \in [state : {"none", "usable", "expired"}, sealed : BOOLEAN, plaintext : Chosen]
          /\ f.sealed = tab[t].transfer.sealed /\ f.plaintext = tab[t].transfer.plaintext
      BY <1>1, TabShape
    <2>3. tab' = [tab EXCEPT ![t] = u]
      BY <2>1
    <2> HIDE DEF f
    <2>4. u \in Uploads /\ u.at = tab[t].at /\ u.transfer = f /\ u.sum = tab[t].sum
      BY <1>1, <2>2, TabShape DEF Uploads
    <2> HIDE DEF u
    <2>5. UploadKept(u)
      BY <1>1, <2>2, <2>4 DEF UploadKept
    <2> QED
      BY <1>1, <2>3, <2>4, <2>5, TabSteps
  <1>5. CASE Browser!Leave(t)
    BY <1>1, <1>5, StopsKeeps DEF Browser!Leave
  <1> QED
    BY <1>2, <1>3, <1>4, <1>5

\* The row is registered: no other tab has anything to do with it yet.
LEMMA RegisterKeeps ==
  ASSUME BrowserInv, NEW t \in Tabs, Browser!Register(t)
  PROVE  BrowserInv'
  <1>1. /\ UNCHANGED <<object, drawn, handed, overwritten>> /\ BrowserType /\ RowKept
        /\ drawn \in Nat /\ tab \in [Tabs -> Uploads] /\ tab[t].at = "chosen"
    BY DEF Browser!Register, BrowserInv, BrowserType
  <1>2. CASE row.status # "none"
    <2>1. Browser!Stops(t) /\ row' = row
      BY <1>2 DEF Browser!Register
    <2> QED
      BY <1>1, <2>1, StopsKeeps
  <1>3. CASE row.status = "none"
    <2>1. PICK sealed \in Sealings :
            /\ row' = [status |-> "pending", content |-> tab[t].file.seen, sealed |-> sealed,
                       sum |-> << >>]
            /\ Browser!Goes(t, "registered") \/ Browser!Stops(t)
      BY <1>3 DEF Browser!Register, Browser!Empty
    <2>2. PICK u \in Uploads : tab' = [tab EXCEPT ![t] = u] /\ u.at \in {"idle", "registered"}
      <3>1. CASE Browser!Goes(t, "registered")
        BY <1>1, <3>1, AtChanges
      <3>2. CASE Browser!Stops(t)
        BY <3>2, IdleKept DEF Browser!Stops
      <3> QED
        BY <2>1, <3>1, <3>2
    <2>3. tab' \in [Tabs -> Uploads] /\ tab'[t] = u /\ \A x \in Tabs : x # t => tab'[x] = tab[x]
      BY <1>1, <2>2
    <2>4. /\ row' \in [status : {"none", "pending", "uploaded"}, content : Chosen,
                       sealed : BOOLEAN, sum : Bodies]
          /\ row'.status = "pending"
      <3>1. sealed \in BOOLEAN /\ << >> \in Bodies /\ tab[t].file.seen \in Chosen
        BY <1>1, TabShape, BrowserAssumption DEF Bodies, Chosen
      <3> QED
        BY <2>1, <3>1
    <2>5. BrowserType'
      BY <1>1, <2>3, <2>4 DEF BrowserType
    <2>6. \A x \in Tabs : UploadKept(tab[x])'
      <3> SUFFICES ASSUME NEW x \in Tabs PROVE UploadKept(tab[x])'
        OBVIOUS
      <3>1. tab'[x].at \in {"idle", "chosen", "registered"}
        <4>1. x # t => tab[x].at \in {"idle", "chosen"}
          BY <1>3 DEF BrowserInv, UploadKept
        <4> QED
          BY <2>2, <2>3, <4>1
      <3> QED
        BY <2>4, <3>1 DEF UploadKept
    <2>7. RowKept'
      BY <1>1, <1>3, <2>4 DEF RowKept, Browser!HandedAsRegistered
    <2> QED
      BY <2>5, <2>6, <2>7 DEF BrowserInv
  <1> QED
    BY <1>2, <1>3

\* The signature is for the file registered; it is consumed once.
LEMMA SignKeeps ==
  ASSUME BrowserInv, NEW t \in Tabs,
         Browser!Sign(t) \/ Browser!consumeTransferCapability(t)
  PROVE  BrowserInv'
  <1>1. /\ UNCHANGED <<row, object, drawn, handed, overwritten>> /\ BrowserType /\ RowKept
        /\ drawn \in Nat /\ UploadKept(tab[t])
        /\ row \in [status : {"none", "pending", "uploaded"}, content : Chosen,
                    sealed : BOOLEAN, sum : Bodies]
    BY DEF Browser!Sign, Browser!consumeTransferCapability, BrowserInv, BrowserType
  <1>2. CASE Browser!Stops(t)
    BY <1>1, <1>2, StopsKeeps
  <1>3. CASE Browser!Goes(t, "reading") /\ tab[t].at = "signed"
    <2>1. PICK u \in Uploads :
            /\ tab' = [tab EXCEPT ![t] = u] /\ u.at = "reading"
            /\ u.transfer = tab[t].transfer /\ u.sum = tab[t].sum
      BY <1>1, <1>3, AtChanges
    <2>2. UploadKept(u)
      BY <1>1, <1>3, <2>1 DEF UploadKept
    <2> QED
      BY <1>1, <2>1, <2>2, TabSteps
  <1>4. CASE /\ row.status = "pending"
             /\ tab' = [tab EXCEPT ![t].at = "signed",
                                   ![t].transfer = Browser!normalizeTransferAuthorization]
    <2> DEFINE f == Browser!normalizeTransferAuthorization
               u == [tab[t] EXCEPT !.at = "signed", !.transfer = f]
    <2>1. /\ f \in [state : {"none", "usable", "expired"}, sealed : BOOLEAN, plaintext : Chosen]
          /\ f.sealed = row.sealed /\ (row.sealed => f.plaintext = row.content)
      <3>1. Browser!normalizeEncryption \in Chosen
            /\ (row.sealed => Browser!normalizeEncryption = row.content)
        BY <1>1 DEF Browser!normalizeEncryption, Browser!Empty, Chosen
      <3> QED
        BY <1>1, <3>1 DEF Browser!normalizeTransferAuthorization
    <2> HIDE DEF f
    <2>2. tab' = [tab EXCEPT ![t] = u]
      BY <1>1, <1>4 DEF f, BrowserType
    <2>3. u \in Uploads /\ u.at = "signed" /\ u.transfer = f
      BY <1>1, <2>1, TabShape DEF Uploads
    <2> HIDE DEF u
    <2>4. UploadKept(u)
      BY <1>1, <1>4, <2>1, <2>3 DEF UploadKept
    <2> QED
      BY <1>1, <2>2, <2>3, <2>4, TabSteps
  <1> QED
    BY <1>2, <1>3, <1>4 DEF Browser!Sign, Browser!consumeTransferCapability

\* What is sealed is the file that was registered.
LEMMA BrowserReadKeeps ==
  ASSUME BrowserInv, NEW t \in Tabs, Browser!Read(t)
  PROVE  BrowserInv'
  <1>1. /\ UNCHANGED <<row, object, handed, overwritten>> /\ BrowserType /\ RowKept
        /\ drawn \in Nat /\ UploadKept(tab[t]) /\ tab[t].at = "reading"
        /\ row \in [status : {"none", "pending", "uploaded"}, content : Chosen,
                    sealed : BOOLEAN, sum : Bodies]
    BY DEF Browser!Read, BrowserInv, BrowserType
  <1>2. row.status # "none"
    BY <1>1 DEF UploadKept
  <1>3. CASE Browser!Stops(t) /\ UNCHANGED drawn
    BY <1>1, <1>3, StopsKeeps
  <1>4. ASSUME NEW s \in Bodies, drawn' \in Nat, row.sealed => s \in SealedOf(row.content),
               tab' = [tab EXCEPT ![t].at = "putting", ![t].sum = s]
        PROVE  BrowserInv'
    <2> DEFINE u == [tab[t] EXCEPT !.at = "putting", !.sum = s]
    <2>1. tab' = [tab EXCEPT ![t] = u]
      BY <1>1, <1>4 DEF BrowserType
    <2>2. u \in Uploads /\ u.at = "putting" /\ u.sum = s
      BY <1>1, TabShape DEF Uploads
    <2> HIDE DEF u
    <2>3. UploadKept(u)
      BY <1>2, <1>4, <2>2 DEF UploadKept
    <2> QED
      BY <1>1, <1>4, <2>1, <2>2, <2>3, TabSteps
  <1>5. CASE /\ ~tab[t].transfer.sealed /\ UNCHANGED drawn
             /\ tab' = [tab EXCEPT ![t].at = "putting", ![t].sum = tab[t].file.now]
    <2>1. ~row.sealed /\ tab[t].file.now \in Bodies
      BY <1>1, <1>5, TabShape DEF UploadKept, Bodies
    <2> QED
      BY <1>1, <1>4, <1>5, <2>1
  <1>6. CASE /\ Browser!AsRegistered(t) /\ drawn' = drawn + 1
             /\ tab' = [tab EXCEPT ![t].at = "putting",
                                   ![t].sum = Browser!encryptFile(drawn + 1, tab[t].file.now)]
    <2> DEFINE s == Browser!encryptFile(drawn + 1, tab[t].file.now)
    <2>1. drawn' \in Nat /\ drawn + 1 \in Nat
      BY <1>1, <1>6
    <2>2. s \in SealedOf(tab[t].file.now)
      BY <2>1 DEF SealedOf
    <2>3. tab[t].file.now = tab[t].transfer.plaintext
      BY <1>6 DEF Browser!AsRegistered
    <2>4. row.sealed => s \in SealedOf(row.content)
      BY <1>1, <2>2, <2>3 DEF UploadKept
    <2>5. s \in Bodies
      BY <1>1, <2>2, TabShape DEF Bodies
    <2>6. tab' = [tab EXCEPT ![t].at = "putting", ![t].sum = s]
      BY <1>6
    <2> HIDE DEF s
    <2> QED
      BY <1>4, <2>1, <2>4, <2>5, <2>6
  <1> QED
    BY <1>3, <1>5, <1>6 DEF Browser!Read

\* An object stored over one that was verified is noted.
LEMMA PutKeeps ==
  ASSUME BrowserInv, NEW t \in Tabs, Browser!Put(t)
  PROVE  BrowserInv'
  <1>1. /\ UNCHANGED <<row, handed, drawn>> /\ BrowserType /\ RowKept
        /\ drawn \in Nat /\ UploadKept(tab[t]) /\ tab[t].at = "putting"
        /\ tab \in [Tabs -> Uploads]
    BY DEF Browser!Put, BrowserInv, BrowserType
  <1>2. CASE tab[t].transfer.state # "usable"
    BY <1>1, <1>2, StopsKeeps DEF Browser!Put
  <1>3. CASE tab[t].transfer.state = "usable"
    <2>1. /\ object' = tab[t].sum /\ overwritten' = (overwritten \/ Browser!Verified)
          /\ Browser!Goes(t, "confirming") \/ Browser!Stops(t)
      BY <1>3 DEF Browser!Put
    <2>2. PICK u \in Uploads :
            /\ tab' = [tab EXCEPT ![t] = u]
            /\ u.at = "idle" \/ (u.at = "confirming" /\ u.sum = tab[t].sum)
      <3>1. CASE Browser!Goes(t, "confirming")
        BY <1>1, <3>1, AtChanges
      <3>2. CASE Browser!Stops(t)
        BY <3>2, IdleKept DEF Browser!Stops
      <3> QED
        BY <2>1, <3>1, <3>2
    <2>3. tab' \in [Tabs -> Uploads] /\ tab'[t] = u /\ \A x \in Tabs : x # t => tab'[x] = tab[x]
      BY <1>1, <2>2
    <2>4. BrowserType'
      <3>1. overwritten' \in BOOLEAN /\ object' \in Bodies
        BY <1>1, <2>1, TabShape DEF Browser!Verified
      <3> QED
        BY <1>1, <2>3, <3>1 DEF BrowserType
    <2>5. \A x \in Tabs : UploadKept(tab[x])'
      <3> SUFFICES ASSUME NEW x \in Tabs PROVE UploadKept(tab[x])'
        OBVIOUS
      <3>1. CASE x = t
        BY <1>1, <2>2, <2>3, <3>1 DEF UploadKept
      <3>2. CASE x # t
        <4>1. tab'[x] = tab[x] /\ UploadKept(tab[x])
          BY <2>3, <3>2 DEF BrowserInv
        <4>2. tab[x].at = "marking" => overwritten'
          BY <2>1 DEF Browser!Verified
        <4> QED
          BY <1>1, <4>1, <4>2 DEF UploadKept
      <3> QED
        BY <3>1, <3>2
    <2>6. RowKept'
      <3>1. row.status = "uploaded" => overwritten'
        BY <2>1 DEF Browser!Verified
      <3> QED
        BY <1>1, <3>1 DEF RowKept, Browser!HandedAsRegistered
    <2> QED
      BY <2>4, <2>5, <2>6 DEF BrowserInv
  <1> QED
    BY <1>2, <1>3

\* The server reads the object, and then writes what it read into the row.
LEMMA VerifyKeeps ==
  ASSUME BrowserInv, NEW t \in Tabs, Browser!Verify(t)
  PROVE  BrowserInv'
  <1>1. /\ UNCHANGED <<row, object, handed, drawn, overwritten>> /\ BrowserType /\ RowKept
        /\ drawn \in Nat /\ UploadKept(tab[t]) /\ tab[t].at = "confirming" /\ object \in Bodies
    BY DEF Browser!Verify, BrowserInv, BrowserType
  <1>2. CASE Browser!Stops(t)
    BY <1>1, <1>2, StopsKeeps
  <1>3. CASE row.sealed /\ object = tab[t].sum /\ Browser!Goes(t, "marking")
    <2>1. PICK u \in Uploads :
            /\ tab' = [tab EXCEPT ![t] = u] /\ u.at = "marking" /\ u.sum = tab[t].sum
      BY <1>1, <1>3, AtChanges
    <2>2. UploadKept(u)
      BY <1>1, <1>3, <2>1 DEF UploadKept
    <2> QED
      BY <1>1, <2>1, <2>2, TabSteps
  <1>4. CASE ~row.sealed /\ tab' = [tab EXCEPT ![t].at = "marking", ![t].sum = object]
    <2> DEFINE u == [tab[t] EXCEPT !.at = "marking", !.sum = object]
    <2>1. tab' = [tab EXCEPT ![t] = u]
      BY <1>1, <1>4 DEF BrowserType
    <2>2. u \in Uploads /\ u.at = "marking"
      BY <1>1, TabShape DEF Uploads
    <2> HIDE DEF u
    <2>3. UploadKept(u)
      BY <1>1, <1>4, <2>2 DEF UploadKept
    <2> QED
      BY <1>1, <2>1, <2>2, <2>3, TabSteps
  <1> QED
    BY <1>2, <1>3, <1>4 DEF Browser!Verify

LEMMA BrowserMarkKeeps ==
  ASSUME BrowserInv, NEW t \in Tabs, Browser!Mark(t)
  PROVE  BrowserInv'
  <1>1. /\ UNCHANGED <<object, handed, drawn, overwritten>> /\ BrowserType /\ RowKept
        /\ Browser!Stops(t) /\ drawn \in Nat /\ UploadKept(tab[t]) /\ tab[t].at = "marking"
        /\ tab \in [Tabs -> Uploads]
        /\ row \in [status : {"none", "pending", "uploaded"}, content : Chosen,
                    sealed : BOOLEAN, sum : Bodies]
    BY DEF Browser!Mark, BrowserInv, BrowserType
  <1>2. CASE row' = row
    BY <1>1, <1>2, StopsKeeps
  <1>3. CASE row' # row
    <2>1. row.status = "pending" /\ row' = [row EXCEPT !.status = "uploaded", !.sum = tab[t].sum]
      BY <1>3 DEF Browser!Mark
    <2>2. /\ row' \in [status : {"none", "pending", "uploaded"}, content : Chosen,
                       sealed : BOOLEAN, sum : Bodies]
          /\ row'.status = "uploaded" /\ row'.sum = tab[t].sum /\ row'.content = row.content
          /\ row'.sealed = row.sealed
      BY <1>1, <2>1, TabShape
    <2>3. tab' \in [Tabs -> Uploads] /\ tab'[t] = Browser!Idle
          /\ \A x \in Tabs : x # t => tab'[x] = tab[x]
      BY <1>1, IdleKept DEF Browser!Stops
    <2>4. BrowserType'
      BY <1>1, <2>2, <2>3 DEF BrowserType
    <2>5. \A x \in Tabs : UploadKept(tab[x])'
      <3> SUFFICES ASSUME NEW x \in Tabs PROVE UploadKept(tab[x])'
        OBVIOUS
      <3>1. CASE x = t
        <4>1. tab'[x].at = "idle"
          BY <2>3, <3>1, IdleKept
        <4> QED
          BY <4>1 DEF UploadKept
      <3>2. CASE x # t
        <4>1. tab'[x] = tab[x] /\ UploadKept(tab[x])
          BY <2>3, <3>2 DEF BrowserInv
        <4> QED
          BY <1>1, <2>2, <4>1 DEF UploadKept
      <3> QED
        BY <3>1, <3>2
    <2>6. RowKept'
      BY <1>1, <2>1, <2>2 DEF RowKept, UploadKept, Browser!HandedAsRegistered
    <2> QED
      BY <2>4, <2>5, <2>6 DEF BrowserInv
  <1> QED
    BY <1>2, <1>3

\* What is handed to the user.
LEMMA HandsKeeps ==
  ASSUME BrowserInv, Browser!downloadSignedRequest \/ Browser!fetchPreviewBytes
  PROVE  BrowserInv'
  <1>1. PICK bytes :
          /\ handed' = handed \cup {bytes} /\ row.status = "uploaded"
          /\ UNCHANGED <<tab, row, object, drawn, overwritten>>
          /\ row.sealed => \E o : bytes = Browser!decryptEncryptedPreviewPayload(o)
    BY DEF Browser!downloadSignedRequest, Browser!fetchPreviewBytes, Browser!Hands
  <1>2. BrowserType /\ RowKept /\ row.content \in Chosen
    BY DEF BrowserInv, BrowserType
  <1>3. row.sealed => bytes \in {Browser!Refused, row.content}
    <2> SUFFICES ASSUME row.sealed PROVE bytes \in {Browser!Refused, row.content}
      OBVIOUS
    <2>1. bytes = Browser!Refused \/ bytes = Browser!decryptFile(row.sum)
      BY <1>1 DEF Browser!decryptEncryptedPreviewPayload
    <2>2. Browser!decryptFile(row.sum) = row.content
      BY <1>1, <1>2, SealingOpens DEF RowKept
    <2> QED
      BY <2>1, <2>2
  <1>4. BrowserType'
    BY <1>1, <1>2 DEF BrowserType
  <1>5. \A x \in Tabs : UploadKept(tab[x])'
    BY <1>1 DEF BrowserInv, UploadKept
  <1>6. RowKept'
    BY <1>1, <1>2, <1>3 DEF RowKept, Browser!HandedAsRegistered
  <1> QED
    BY <1>4, <1>5, <1>6 DEF BrowserInv

LEMMA BrowserInit == Browser!Init => BrowserInv
  <1> SUFFICES ASSUME Browser!Init PROVE BrowserInv
    OBVIOUS
  <1>1. /\ tab = [t \in Tabs |-> Browser!Idle] /\ row = Browser!NoRow /\ object = << >>
        /\ drawn = 0 /\ handed = {} /\ overwritten = FALSE
    BY DEF Browser!Init, Browser!Empty
  <1>2. /\ row \in [status : {"none", "pending", "uploaded"}, content : Chosen,
                    sealed : BOOLEAN, sum : Bodies]
        /\ row.status = "none" /\ ~row.sealed
    BY <1>1 DEF Browser!NoRow, Browser!Empty, Chosen, Bodies
  <1>3. BrowserType
    <2>1. object \in Bodies
      BY <1>1 DEF Bodies, Chosen
    <2> QED
      BY <1>1, <1>2, <2>1, IdleKept DEF BrowserType
  <1>4. RowKept
    BY <1>1, <1>2 DEF RowKept, Browser!HandedAsRegistered
  <1> QED
    BY <1>1, <1>3, <1>4, IdleKept DEF BrowserInv

LEMMA BrowserNext == BrowserInv /\ [Browser!Next]_browserVars => BrowserInv'
  <1> SUFFICES ASSUME BrowserInv, [Browser!Next]_browserVars PROVE BrowserInv'
    OBVIOUS
  <1>1. CASE UNCHANGED browserVars
    BY <1>1 DEF browserVars, BrowserInv, BrowserType, UploadKept, RowKept,
       Browser!HandedAsRegistered
  <1> QED
    BY <1>1, ChooseKeeps, RegisterKeeps, SignKeeps, BrowserReadKeeps, PutKeeps, VerifyKeeps,
       BrowserMarkKeeps, HandsKeeps DEF Browser!Next

LEMMA BrowserKept == BrowserInv => Browser!HandedAsRegistered /\ Browser!ConfirmedOpens
  <1> SUFFICES ASSUME BrowserInv, row.status = "uploaded", row.sealed, ~overwritten
               PROVE  object = row.sum /\ Browser!decryptFile(object) = row.content
    BY DEF BrowserInv, RowKept, Browser!ConfirmedOpens
  <1>1. object = row.sum /\ row.sum \in SealedOf(row.content) /\ row.content \in Chosen
    BY DEF BrowserInv, RowKept, BrowserType
  <1> QED
    BY <1>1, SealingOpens

-----------------------------------------------------------------------------
\* Windows, starting and quitting.

Sessions == {"starting", "fatal"} \cup UNION {t.outcomes : t \in Troubles}
Presentations == [stage : {"none", "bootstrap", "authorization", "recovery", "workspace"},
                  presentable : BOOLEAN, auth : Sessions, net : Lifecycle!NetworkStates]
PageWindows == [life : {"new", "open", "closed"},
                page : {"none", "navigating", "loading", "dom", "loaded", "stayed", "gone"},
                auth : Sessions, net : Lifecycle!NetworkStates, shows : Presentations,
                sent : BOOLEAN, mail : BOOLEAN, painted : BOOLEAN, visible : BOOLEAN,
                presented : BOOLEAN, crowded : BOOLEAN]

WindowType ==
    /\ window \in [Windows -> PageWindows] /\ mainWindow \in Windows \cup {0}
    /\ tracker \in [ready : BOOLEAN, committed : BOOLEAN, consumed : BOOLEAN]
    /\ flags \in [chromium : BOOLEAN, presentation : BOOLEAN, shown : BOOLEAN,
                  pending : BOOLEAN]
    /\ hostState \in Sessions /\ networkState \in Lifecycle!NetworkStates
    /\ lifecycleTrouble.outcomes \subseteq Sessions

RuntimeType ==
    /\ generation \in Nat
    /\ init \in [at : {"none", "enroll", "restore", "spool", "preview", "over"},
                 generation : Nat]
    /\ init.generation <= generation
    /\ lifecycleMade \in [runtime : {"none", "live", "disposed"},
                 coordinator : {"none", "stopped", "running"}]
    /\ global \in [runtime : BOOLEAN, network : BOOLEAN, business : BOOLEAN,
                   notifications : BOOLEAN, files : BOOLEAN, commands : BOOLEAN,
                   power : BOOLEAN]
    /\ quit \in {"no", "started", "complete", "exited"}

\* Quitting is for good: the start that is under way is stale, and a program that
\* quits before it is up has ended.
QuitKept ==
    /\ boot \in {"theme", "protocol"} =>
          /\ \A w \in Windows : window[w].life = "new"
          /\ ~global.files /\ quit \in {"no", "exited"} /\ activating = 0
          /\ init.at = "none"
    /\ quit # "no" =>
          /\ global = Lifecycle!Off /\ init.generation < generation
          /\ lifecycleMade.runtime # "live" /\ lifecycleMade.coordinator # "running"

\* The program's own window is open, and alone unless it was opened beside another.
WindowsApart ==
    mainWindow # 0 =>
        /\ window[mainWindow].life = "open"
        /\ ~window[mainWindow].crowded =>
              \A v \in Windows : window[v].life = "open" => v = mainWindow

PagesKept ==
    \A w \in Windows :
        /\ window[w].visible => window[w].presented
        /\ window[w].mail => window[w].presented
        /\ window[w].page \in {"none", "loading"} =>
              window[w].shows = Lifecycle!Unmounted /\ ~window[w].sent

FlagsKept ==
    /\ tracker.consumed => flags.presentation
    /\ mainWindow # 0 =>
        /\ flags.presentation => window[mainWindow].presented
        /\ flags.chromium /\ flags.presentation => window[mainWindow].visible
        /\ ~window[mainWindow].crowded =>
            /\ window[mainWindow].painted => flags.chromium
            /\ window[mainWindow].page \in {"dom", "loaded"} =>
                  /\ tracker.committed
                  /\ window[mainWindow].sent /\ ~window[mainWindow].mail => tracker.consumed
            /\ window[mainWindow].page = "loaded" => tracker.ready

InformedKept ==
    mainWindow # 0 /\ window[mainWindow].page = "loaded" =>
        /\ window[mainWindow].auth = hostState /\ window[mainWindow].net = networkState
        /\ window[mainWindow].shows # Lifecycle!Unmounted =>
              /\ Lifecycle!Status(window[mainWindow].shows.auth)
                     = Lifecycle!Status(hostState)
              /\ window[mainWindow].shows.net = networkState

WindowsInv ==
    /\ WindowType /\ RuntimeType /\ QuitKept /\ WindowsApart /\ PagesKept
    /\ FlagsKept /\ InformedKept

\* What a page is told keeps everything but what it knows and shows.
SameWindow(x, y) ==
    /\ y.life = x.life /\ y.page = x.page /\ y.sent = x.sent /\ y.mail = x.mail
    /\ y.painted = x.painted /\ y.visible = x.visible /\ y.presented = x.presented
    /\ y.crowded = x.crowded
    /\ x.shows = Lifecycle!Unmounted => y.shows = Lifecycle!Unmounted

LEMMA Resolved ==
  ASSUME NEW p \in Presentations
  PROVE  /\ Lifecycle!resolveDesktopPresentationState(p) \in Presentations
         /\ Lifecycle!resolveDesktopPresentationState(p).auth = p.auth
         /\ Lifecycle!resolveDesktopPresentationState(p).net = p.net
  <1> DEFINE in(s, b) == [p EXCEPT !.stage = s, !.presentable = b]
  <1>1. \A s \in {"bootstrap", "authorization", "recovery", "workspace"}, b \in BOOLEAN :
           in(s, b) \in Presentations /\ in(s, b).auth = p.auth /\ in(s, b).net = p.net
    BY DEF Presentations
  <1>2. \E s \in {"bootstrap", "authorization", "recovery", "workspace"}, b \in BOOLEAN :
           Lifecycle!resolveDesktopPresentationState(p) = in(s, b)
    BY DEF Lifecycle!resolveDesktopPresentationState
  <1> HIDE DEF in
  <1> QED
    BY <1>1, <1>2

LEMMA Follows ==
  ASSUME NEW p \in Presentations, NEW q \in Presentations
  PROVE  /\ Lifecycle!Follows(p, q) \in Presentations
         /\ p = Lifecycle!Unmounted => Lifecycle!Follows(p, q) = Lifecycle!Unmounted
         /\ p # Lifecycle!Unmounted =>
              /\ Lifecycle!Status(Lifecycle!Follows(p, q).auth) = Lifecycle!Status(q.auth)
              /\ Lifecycle!Follows(p, q).net = q.net
  BY Resolved DEF Lifecycle!Follows, Lifecycle!reduceDesktopPresentationState

LEMMA HostTold ==
  ASSUME NEW x \in PageWindows, NEW a \in Sessions
  PROVE  /\ Lifecycle!HostReceived(x, a) \in PageWindows
         /\ SameWindow(x, Lifecycle!HostReceived(x, a))
         /\ Lifecycle!HostReceived(x, a).net = x.net
         /\ Lifecycle!Listens(x) =>
              /\ Lifecycle!HostReceived(x, a).auth = a
              /\ x.shows # Lifecycle!Unmounted =>
                   /\ Lifecycle!Status(Lifecycle!HostReceived(x, a).shows.auth)
                          = Lifecycle!Status(a)
                   /\ Lifecycle!HostReceived(x, a).shows.net = x.shows.net
  <1> DEFINE q == [x.shows EXCEPT !.auth = a]
             s == Lifecycle!Follows(x.shows, q)
             y == [x EXCEPT !.auth = a, !.shows = s]
  <1>1. x.shows \in Presentations
    BY DEF PageWindows
  <1>2. q \in Presentations /\ q.auth = a /\ q.net = x.shows.net
    BY <1>1 DEF Presentations
  <1> HIDE DEF q
  <1>3. /\ s \in Presentations
        /\ x.shows = Lifecycle!Unmounted => s = Lifecycle!Unmounted
        /\ x.shows # Lifecycle!Unmounted =>
             Lifecycle!Status(s.auth) = Lifecycle!Status(a) /\ s.net = x.shows.net
    BY <1>1, <1>2, Follows
  <1>4. Lifecycle!HostReceived(x, a) = IF Lifecycle!Listens(x) THEN y ELSE x
    BY DEF Lifecycle!HostReceived, q
  <1> HIDE DEF s
  <1>5. /\ y \in PageWindows /\ y.auth = a /\ y.net = x.net /\ y.shows = s
        /\ SameWindow(x, y)
    BY <1>3 DEF PageWindows, SameWindow
  <1>6. SameWindow(x, x)
    BY DEF SameWindow
  <1> HIDE DEF y
  <1> QED
    BY <1>3, <1>4, <1>5, <1>6

LEMMA NetworkTold ==
  ASSUME NEW x \in PageWindows, NEW n \in Lifecycle!NetworkStates
  PROVE  /\ Lifecycle!NetworkReceived(x, n) \in PageWindows
         /\ SameWindow(x, Lifecycle!NetworkReceived(x, n))
         /\ Lifecycle!NetworkReceived(x, n).auth = x.auth
         /\ Lifecycle!Listens(x) =>
              /\ Lifecycle!NetworkReceived(x, n).net = n
              /\ x.shows # Lifecycle!Unmounted =>
                   /\ Lifecycle!Status(Lifecycle!NetworkReceived(x, n).shows.auth)
                          = Lifecycle!Status(x.shows.auth)
                   /\ Lifecycle!NetworkReceived(x, n).shows.net = n
  <1> DEFINE q == [x.shows EXCEPT !.net = n]
             s == Lifecycle!Follows(x.shows, q)
             y == [x EXCEPT !.net = n, !.shows = s]
  <1>1. x.shows \in Presentations
    BY DEF PageWindows
  <1>2. q \in Presentations /\ q.auth = x.shows.auth /\ q.net = n
    BY <1>1 DEF Presentations
  <1> HIDE DEF q
  <1>3. /\ s \in Presentations
        /\ x.shows = Lifecycle!Unmounted => s = Lifecycle!Unmounted
        /\ x.shows # Lifecycle!Unmounted =>
             Lifecycle!Status(s.auth) = Lifecycle!Status(x.shows.auth) /\ s.net = n
    BY <1>1, <1>2, Follows
  <1>4. Lifecycle!NetworkReceived(x, n) = IF Lifecycle!Listens(x) THEN y ELSE x
    BY DEF Lifecycle!NetworkReceived, q
  <1> HIDE DEF s
  <1>5. /\ y \in PageWindows /\ y.auth = x.auth /\ y.net = n /\ y.shows = s
        /\ SameWindow(x, y)
    BY <1>3 DEF PageWindows, SameWindow
  <1>6. SameWindow(x, x)
    BY DEF SameWindow
  <1> HIDE DEF y
  <1> QED
    BY <1>3, <1>4, <1>5, <1>6

\* Pages are told, and nothing else happens to the windows.
LEMMA ToldKeeps ==
  ASSUME WindowsInv, NEW ws \in [Windows -> PageWindows], window' = ws,
         \A w \in Windows : SameWindow(window[w], ws[w]),
         UNCHANGED <<mainWindow, tracker, flags>>
  PROVE  /\ WindowsApart' /\ PagesKept' /\ FlagsKept'
         /\ \A w \in Windows : window'[w].life = window[w].life
  <1>1. mainWindow # 0 => mainWindow \in Windows
    BY DEF WindowsInv, WindowType
  <1>2. WindowsApart'
    BY <1>1 DEF WindowsInv, WindowsApart, SameWindow
  <1>3. PagesKept'
    BY DEF WindowsInv, PagesKept, SameWindow
  <1>4. FlagsKept'
    BY <1>1 DEF WindowsInv, FlagsKept, SameWindow
  <1> QED
    BY <1>2, <1>3, <1>4 DEF SameWindow

\* publishTo(mainWindow), of a new state of the network and of the session.
LEMMA TellingKeeps ==
  ASSUME WindowsInv, NEW n \in Lifecycle!NetworkStates, NEW a \in Sessions,
         hostState' = a, networkState' = n,
         \/ window' = Lifecycle!HostPublished(Lifecycle!NetworkPublished(window, n), a)
         \/ a = hostState /\ window' = Lifecycle!NetworkPublished(window, n)
         \/ a = hostState /\ n = networkState /\ window' = window,
         UNCHANGED <<mainWindow, tracker, flags>>,
         lifecycleTrouble'.outcomes = lifecycleTrouble.outcomes
  PROVE  /\ WindowType' /\ WindowsApart' /\ PagesKept' /\ FlagsKept' /\ InformedKept'
         /\ \A w \in Windows : window'[w].life = window[w].life
  <1> DEFINE told(w) == Lifecycle!NetworkReceived(window[w], n)
             ws == Lifecycle!NetworkPublished(window, n)
             vs == Lifecycle!HostPublished(ws, a)
  <1>1. window \in [Windows -> PageWindows] /\ mainWindow \in Windows \cup {0}
    BY DEF WindowsInv, WindowType
  <1>2. \A w \in Windows :
           /\ told(w) \in PageWindows /\ SameWindow(window[w], told(w))
           /\ told(w).auth = window[w].auth
           /\ Lifecycle!Listens(window[w]) =>
                /\ told(w).net = n /\ Lifecycle!Listens(told(w))
                /\ window[w].shows # Lifecycle!Unmounted =>
                     /\ Lifecycle!Status(told(w).shows.auth)
                            = Lifecycle!Status(window[w].shows.auth)
                     /\ told(w).shows.net = n
    <2> TAKE w \in Windows
    <2>1. window[w] \in PageWindows
      BY <1>1
    <2>2. SameWindow(window[w], told(w)) /\ Lifecycle!Listens(window[w]) =>
             Lifecycle!Listens(told(w))
      BY DEF SameWindow, Lifecycle!Listens
    <2> QED
      BY <2>1, <2>2, NetworkTold
  <1>3. ws = [w \in Windows |-> IF w = mainWindow THEN told(w) ELSE window[w]]
    BY DEF Lifecycle!NetworkPublished
  <1>4. \A w \in Windows : SameWindow(window[w], window[w])
    BY DEF SameWindow
  <1> HIDE DEF told
  <1>5. /\ ws \in [Windows -> PageWindows]
        /\ \A w \in Windows : SameWindow(window[w], ws[w])
        /\ mainWindow # 0 => ws[mainWindow] = told(mainWindow)
    BY <1>1, <1>2, <1>3, <1>4
  <1> HIDE DEF ws
  <1> DEFINE heard(w) == Lifecycle!HostReceived(ws[w], a)
  <1>6. \A w \in Windows :
           /\ heard(w) \in PageWindows /\ SameWindow(ws[w], heard(w))
           /\ heard(w).net = ws[w].net
           /\ Lifecycle!Listens(ws[w]) =>
                /\ heard(w).auth = a
                /\ ws[w].shows # Lifecycle!Unmounted =>
                     /\ Lifecycle!Status(heard(w).shows.auth) = Lifecycle!Status(a)
                     /\ heard(w).shows.net = ws[w].shows.net
    BY <1>5, HostTold
  <1>7. vs = [w \in Windows |-> IF w = mainWindow THEN heard(w) ELSE ws[w]]
    BY DEF Lifecycle!HostPublished
  <1>8. \A w \in Windows : SameWindow(ws[w], ws[w])
    BY DEF SameWindow
  <1> HIDE DEF heard
  <1>9. /\ vs \in [Windows -> PageWindows]
        /\ \A w \in Windows : SameWindow(ws[w], vs[w])
        /\ mainWindow # 0 => vs[mainWindow] = heard(mainWindow)
    BY <1>1, <1>5, <1>6, <1>7, <1>8
  <1> HIDE DEF vs
  <1>10. \A w \in Windows : SameWindow(window[w], vs[w])
    BY <1>5, <1>9 DEF SameWindow
  <1>11. /\ window' \in [Windows -> PageWindows]
         /\ \A w \in Windows : SameWindow(window[w], window'[w])
    BY <1>1, <1>4, <1>5, <1>9, <1>10 DEF ws, vs
  <1>12. WindowsApart' /\ PagesKept' /\ FlagsKept'
         /\ \A w \in Windows : window'[w].life = window[w].life
    BY <1>11, ToldKeeps
  <1>13. WindowType'
    BY <1>11 DEF WindowsInv, WindowType
  <1>14. InformedKept'
    <2> SUFFICES ASSUME mainWindow # 0, window'[mainWindow].page = "loaded"
                 PROVE  /\ window'[mainWindow].auth = a /\ window'[mainWindow].net = n
                        /\ window'[mainWindow].shows # Lifecycle!Unmounted =>
                             /\ Lifecycle!Status(window'[mainWindow].shows.auth)
                                    = Lifecycle!Status(a)
                             /\ window'[mainWindow].shows.net = n
      BY DEF InformedKept
    <2> DEFINE m == mainWindow
    <2>1. m \in Windows /\ window[m].life = "open" /\ window[m].page = "loaded"
      BY <1>1, <1>11 DEF WindowsInv, WindowsApart, SameWindow
    <2>2. Lifecycle!Listens(window[m])
      BY <2>1 DEF Lifecycle!Listens, Lifecycle!Documents
    <2>3. /\ window[m].auth = hostState /\ window[m].net = networkState
          /\ window[m].shows # Lifecycle!Unmounted =>
                /\ Lifecycle!Status(window[m].shows.auth) = Lifecycle!Status(hostState)
                /\ window[m].shows.net = networkState
      BY <2>1 DEF WindowsInv, InformedKept
    <2>4. /\ Lifecycle!Listens(ws[m]) /\ ws[m].auth = window[m].auth /\ ws[m].net = n
          /\ window[m].shows # Lifecycle!Unmounted =>
               /\ Lifecycle!Status(ws[m].shows.auth) = Lifecycle!Status(window[m].shows.auth)
               /\ ws[m].shows.net = n
          /\ ws[m].shows # Lifecycle!Unmounted => window[m].shows # Lifecycle!Unmounted
      BY <1>2, <1>5, <2>1, <2>2 DEF SameWindow
    <2>5. CASE window' = window /\ a = hostState /\ n = networkState
      BY <2>3, <2>5
    <2>6. CASE window' = ws /\ a = hostState
      BY <2>3, <2>4, <2>6
    <2>7. CASE window' = vs
      <3>1. /\ vs[m].auth = a /\ vs[m].net = n
            /\ ws[m].shows # Lifecycle!Unmounted =>
                 Lifecycle!Status(vs[m].shows.auth) = Lifecycle!Status(a)
                 /\ vs[m].shows.net = ws[m].shows.net
        BY <1>6, <1>9, <2>1, <2>4
      <3>2. vs[m].shows # Lifecycle!Unmounted => ws[m].shows # Lifecycle!Unmounted
        BY <1>9, <2>1 DEF SameWindow
      <3> QED
        BY <2>4, <2>7, <3>1, <3>2
    <2> QED
      BY <2>5, <2>6, <2>7 DEF ws, vs
  <1> QED
    BY <1>12, <1>13, <1>14

LEMMA LeastNumber ==
  ASSUME NEW S, S \subseteq Nat, S # {}
  PROVE  (CHOOSE v \in S : \A x \in S : v <= x) \in S
  <1>1. PICK v \in S : \A y \in S : ~(<<y, v>> \in OpToRel(<, Nat))
    BY NatLessThanWellFounded, WFMin
  <1>2. \A y \in S : ~(y < v)
    BY <1>1 DEF OpToRel
  <1>3. \A y \in S : v <= y
    BY <1>2
  <1> QED
    BY <1>3

\* A new window has nothing to do with what was shown before.
LEMMA CreatedKeeps ==
  ASSUME WindowsInv, Lifecycle!createMainWindow,
         UNCHANGED hostState, networkState' \in Lifecycle!NetworkStates,
         lifecycleTrouble'.outcomes = lifecycleTrouble.outcomes
  PROVE  /\ WindowType' /\ WindowsApart' /\ PagesKept' /\ FlagsKept' /\ InformedKept'
  <1> DEFINE F == Lifecycle!Fresh
             w == CHOOSE v \in F : \A x \in F : v <= x
             b == Lifecycle!Open # {}
             x == [Lifecycle!NoWindow EXCEPT !.life = "open", !.crowded = b]
  <1>1. /\ F # {} /\ tracker' = Lifecycle!NotReady
        /\ flags' = [Lifecycle!Hidden EXCEPT !.pending = TRUE]
        /\ window' = [window EXCEPT ![w] = x] /\ mainWindow' = w
    BY DEF Lifecycle!createMainWindow
  <1>2. F \subseteq Windows /\ F \subseteq Nat
    BY LifecycleAssumption DEF Lifecycle!Fresh
  <1>3. w \in Windows /\ w # 0
    <2>1. w \in F
      BY <1>1, <1>2, LeastNumber
    <2> QED
      BY <1>2, <2>1, LifecycleAssumption
  <1>4. b \in BOOLEAN /\ (~b => \A v \in Windows : window[v].life # "open")
    BY DEF Lifecycle!Open
  <1> HIDE DEF w, b
  <1>5. "starting" \in Sessions /\ "idle" \in Lifecycle!NetworkStates
    BY DEF Sessions, Lifecycle!NetworkStates, Lifecycle!WorkspaceNetworkStates
  <1>6. /\ x \in PageWindows /\ x.life = "open" /\ x.page = "none" /\ x.crowded = b
        /\ x.shows = Lifecycle!Unmounted /\ ~x.sent /\ ~x.mail /\ ~x.painted
        /\ ~x.visible
    BY <1>4, <1>5 DEF Lifecycle!NoWindow, Lifecycle!Unmounted, PageWindows, Presentations
  <1> HIDE DEF x
  <1>7. window \in [Windows -> PageWindows]
    BY DEF WindowsInv, WindowType
  <1>8. /\ window' \in [Windows -> PageWindows] /\ window'[w] = x
        /\ \A v \in Windows \ {w} : window'[v] = window[v]
    BY <1>1, <1>3, <1>6, <1>7
  <1>9. /\ tracker' \in [ready : BOOLEAN, committed : BOOLEAN, consumed : BOOLEAN]
        /\ flags' \in [chromium : BOOLEAN, presentation : BOOLEAN, shown : BOOLEAN,
                       pending : BOOLEAN]
        /\ ~tracker'.consumed /\ ~flags'.chromium /\ ~flags'.presentation
    BY <1>1 DEF Lifecycle!NotReady, Lifecycle!Hidden
  <1>10. WindowType'
    BY <1>1, <1>3, <1>8, <1>9 DEF WindowsInv, WindowType
  <1>11. WindowsApart'
    BY <1>1, <1>4, <1>6, <1>8 DEF WindowsApart
  <1>12. PagesKept'
    BY <1>6, <1>8 DEF WindowsInv, PagesKept
  <1>13. FlagsKept'
    BY <1>1, <1>6, <1>8, <1>9 DEF FlagsKept
  <1>14. InformedKept'
    BY <1>1, <1>6, <1>8 DEF InformedKept
  <1> QED
    BY <1>10, <1>11, <1>12, <1>13, <1>14

\* A window is gone: ws are the windows without it, told or not.
LEMMA ClosedKeeps ==
  ASSUME WindowsInv, NEW w \in Windows, window[w].life = "open",
         window' \in [Windows -> PageWindows],
         window'[w] = [Lifecycle!NoWindow EXCEPT !.life = "closed"],
         \A v \in Windows \ {w} : SameWindow(window[v], window'[v]),
         flags' = Lifecycle!Hidden, tracker' = Lifecycle!NotReady,
         mainWindow' = (IF mainWindow = w THEN 0 ELSE mainWindow),
         UNCHANGED hostState, networkState' \in Lifecycle!NetworkStates,
         lifecycleTrouble'.outcomes = lifecycleTrouble.outcomes
  PROVE  WindowType' /\ WindowsApart' /\ PagesKept' /\ FlagsKept'
  <1>1. /\ window'[w].life = "closed" /\ window'[w].shows = Lifecycle!Unmounted
        /\ ~window'[w].sent /\ ~window'[w].mail /\ ~window'[w].visible
    BY DEF Lifecycle!NoWindow
  <1>2. /\ tracker' \in [ready : BOOLEAN, committed : BOOLEAN, consumed : BOOLEAN]
        /\ flags' \in [chromium : BOOLEAN, presentation : BOOLEAN, shown : BOOLEAN,
                       pending : BOOLEAN]
        /\ ~tracker'.consumed /\ ~flags'.chromium /\ ~flags'.presentation
    BY DEF Lifecycle!NotReady, Lifecycle!Hidden
  <1>3. 0 \notin Windows /\ mainWindow \in Windows \cup {0}
    BY LifecycleAssumption DEF WindowsInv, WindowType
  <1>4. WindowType'
    BY <1>2, <1>3 DEF WindowsInv, WindowType
  <1>5. mainWindow' # 0 =>
           /\ mainWindow' = mainWindow /\ mainWindow \in Windows \ {w}
           /\ window'[mainWindow].crowded
    BY <1>3 DEF WindowsInv, WindowsApart, SameWindow
  <1>6. WindowsApart'
    BY <1>5 DEF WindowsInv, WindowsApart, SameWindow
  <1>7. PagesKept'
    BY <1>1 DEF WindowsInv, PagesKept, SameWindow
  <1>8. FlagsKept'
    BY <1>2, <1>5 DEF FlagsKept
  <1> QED
    BY <1>4, <1>6, <1>7, <1>8

Trackers == [ready : BOOLEAN, committed : BOOLEAN, consumed : BOOLEAN]
RevealFlags == [chromium : BOOLEAN, presentation : BOOLEAN, shown : BOOLEAN,
                pending : BOOLEAN]

\* A step of one open window and its page, y being what becomes of it.
OneWindow(w, y) ==
    /\ window[w].life = "open" /\ window' = [window EXCEPT ![w] = y]
    /\ y \in PageWindows /\ y.life = "open" /\ y.crowded = window[w].crowded
    /\ y.visible => y.presented
    /\ y.mail => y.presented
    /\ y.page \in {"none", "loading"} => y.shows = Lifecycle!Unmounted /\ ~y.sent
    /\ UNCHANGED <<mainWindow, hostState, networkState>>
    /\ lifecycleTrouble'.outcomes = lifecycleTrouble.outcomes
    /\ tracker' \in Trackers /\ flags' \in RevealFlags

LEMMA OneKeeps ==
  ASSUME WindowsInv, NEW w \in Windows, NEW y, OneWindow(w, y)
  PROVE  /\ WindowType' /\ WindowsApart' /\ PagesKept'
         /\ \A v \in Windows : window'[v].life = window[v].life
         /\ window'[w] = y
         /\ mainWindow # 0 /\ mainWindow # w =>
              window'[mainWindow] = window[mainWindow] /\ window[mainWindow].crowded
  <1>1. window \in [Windows -> PageWindows] /\ mainWindow \in Windows \cup {0}
    BY DEF WindowsInv, WindowType
  <1>2. /\ window' \in [Windows -> PageWindows] /\ window'[w] = y
        /\ \A v \in Windows \ {w} : window'[v] = window[v]
    BY <1>1 DEF OneWindow
  <1>3. WindowType'
    BY <1>2 DEF WindowsInv, WindowType, OneWindow, Trackers, RevealFlags
  <1>4. \A v \in Windows : window'[v].life = window[v].life
    BY <1>2 DEF OneWindow
  <1>5. WindowsApart'
    BY <1>1, <1>2, <1>4 DEF WindowsInv, WindowsApart, OneWindow
  <1>6. PagesKept'
    BY <1>2 DEF WindowsInv, PagesKept, OneWindow
  <1>7. mainWindow # 0 /\ mainWindow # w =>
           window'[mainWindow] = window[mainWindow] /\ window[mainWindow].crowded
    BY <1>1, <1>2 DEF WindowsInv, WindowsApart, OneWindow
  <1> QED
    BY <1>2, <1>3, <1>4, <1>5, <1>6, <1>7

\* Steps of a page that leave the flags alone.
LEMMA QuietKeeps ==
  ASSUME WindowsInv, NEW w \in Windows, NEW y, OneWindow(w, y), UNCHANGED flags,
         window[w].presented => y.presented, window[w].visible => y.visible,
         y.painted => window[w].painted,
         tracker'.consumed => tracker.consumed,
         w = mainWindow /\ ~y.crowded =>
            /\ y.page \in {"dom", "loaded"} =>
                  tracker'.committed /\ (y.sent /\ ~y.mail => tracker'.consumed)
            /\ y.page = "loaded" => tracker'.ready,
         w = mainWindow /\ y.page = "loaded" =>
            /\ y.auth = hostState /\ y.net = networkState
            /\ y.shows # Lifecycle!Unmounted =>
                  Lifecycle!Status(y.shows.auth) = Lifecycle!Status(hostState)
                  /\ y.shows.net = networkState
  PROVE  /\ WindowType' /\ WindowsApart' /\ PagesKept' /\ FlagsKept' /\ InformedKept'
         /\ \A v \in Windows : window'[v].life = window[v].life
  <1>1. /\ WindowType' /\ WindowsApart' /\ PagesKept'
        /\ \A v \in Windows : window'[v].life = window[v].life
        /\ window'[w] = y
        /\ mainWindow # 0 /\ mainWindow # w =>
             window'[mainWindow] = window[mainWindow] /\ window[mainWindow].crowded
    BY OneKeeps
  <1>2. UNCHANGED <<mainWindow, hostState, networkState>> /\ y.crowded = window[w].crowded
    BY DEF OneWindow
  <1>3. FlagsKept'
    <2>1. CASE mainWindow # 0 /\ mainWindow # w
      BY <1>1, <1>2, <2>1 DEF WindowsInv, FlagsKept
    <2>2. CASE mainWindow = w
      BY <1>1, <1>2, <2>2 DEF WindowsInv, FlagsKept
    <2>3. CASE mainWindow = 0
      BY <1>2, <2>3 DEF WindowsInv, FlagsKept
    <2> QED
      BY <2>1, <2>2, <2>3
  <1>4. InformedKept'
    BY <1>1, <1>2 DEF WindowsInv, InformedKept
  <1> QED
    BY <1>1, <1>3, <1>4

\* The rest of the invariant concerns neither pages nor flags.
LEMMA RestKeeps ==
  ASSUME WindowsInv, UNCHANGED <<boot, activating, init, generation, lifecycleMade,
                                 global, quit>>,
         \A w \in Windows : window'[w].life = window[w].life
  PROVE  RuntimeType' /\ QuitKept'
  BY DEF WindowsInv, RuntimeType, QuitKept

\* Trouble that happens is used up; what sessions there are stays.
LEMMA TroubleHappens ==
  ASSUME NEW kind, kind # "outcomes", Lifecycle!Happens(kind)
  PROVE  lifecycleTrouble'.outcomes = lifecycleTrouble.outcomes
  BY DEF Lifecycle!Happens

LEMMA WindowTypes ==
  ASSUME WindowsInv
  PROVE  /\ window \in [Windows -> PageWindows] /\ mainWindow \in Windows \cup {0}
         /\ tracker \in Trackers /\ flags \in RevealFlags
         /\ hostState \in Sessions /\ networkState \in Lifecycle!NetworkStates
         /\ Lifecycle!NotReady \in Trackers /\ Lifecycle!Unmounted \in Presentations
         /\ "starting" \in Sessions /\ "idle" \in Lifecycle!NetworkStates
  <1>1. "starting" \in Sessions /\ "idle" \in Lifecycle!NetworkStates
    BY DEF Sessions, Lifecycle!NetworkStates, Lifecycle!WorkspaceNetworkStates
  <1> QED
    BY <1>1 DEF WindowsInv, WindowType, Trackers, RevealFlags, Lifecycle!NotReady,
       Lifecycle!Unmounted, Presentations

LEMMA DocumentKeeps ==
  ASSUME WindowsInv, NEW w \in Windows, Lifecycle!Commit(w)
  PROVE  WindowsInv'
  <1> DEFINE x == window[w]
             y == [x EXCEPT !.page = "loading", !.auth = "starting", !.net = "idle",
                            !.shows = Lifecycle!Unmounted, !.sent = FALSE, !.mail = FALSE]
  <1>1. x \in PageWindows /\ (x.visible => x.presented)
    BY WindowTypes DEF WindowsInv, PagesKept
  <1>2. /\ y \in PageWindows /\ y.life = x.life /\ y.crowded = x.crowded /\ ~y.mail
        /\ y.page = "loading" /\ y.shows = Lifecycle!Unmounted /\ ~y.sent
        /\ y.visible = x.visible /\ y.presented = x.presented /\ y.painted = x.painted
    BY <1>1, WindowTypes DEF PageWindows
  <1>3. /\ window' = [window EXCEPT ![w] = y] /\ x.life = "open"
        /\ UNCHANGED <<mainWindow, tracker, flags, lifecycleTrouble, Lifecycle!rest>>
    BY WindowTypes DEF Lifecycle!Commit
  <1> HIDE DEF y
  <1>4. OneWindow(w, y)
    BY <1>1, <1>2, <1>3, WindowTypes DEF OneWindow, Lifecycle!rest
  <1>5. /\ WindowType' /\ WindowsApart' /\ PagesKept' /\ FlagsKept' /\ InformedKept'
        /\ \A v \in Windows : window'[v].life = window[v].life
    BY <1>2, <1>3, <1>4, QuietKeeps
  <1>6. RuntimeType' /\ QuitKept'
    BY <1>3, <1>5, RestKeeps DEF Lifecycle!rest
  <1> QED
    BY <1>5, <1>6 DEF WindowsInv

LEMMA DomReadyKeeps ==
  ASSUME WindowsInv, NEW w \in Windows, Lifecycle!DomReady(w)
  PROVE  WindowsInv'
  <1> DEFINE x == window[w]
             y == [x EXCEPT !.page = "dom"]
  <1>1. /\ x \in PageWindows /\ (x.visible => x.presented) /\ (x.mail => x.presented)
        /\ x.page = "loading" /\ ~x.sent
    BY WindowTypes DEF WindowsInv, PagesKept, Lifecycle!DomReady
  <1>2. /\ y \in PageWindows /\ y.life = x.life /\ y.crowded = x.crowded /\ y.page = "dom"
        /\ y.sent = x.sent /\ y.mail = x.mail
        /\ y.visible = x.visible /\ y.presented = x.presented /\ y.painted = x.painted
    BY <1>1 DEF PageWindows
  <1>3. /\ window' = [window EXCEPT ![w] = y] /\ x.life = "open"
        /\ UNCHANGED <<mainWindow, flags, lifecycleTrouble, Lifecycle!rest>>
    BY WindowTypes DEF Lifecycle!DomReady
  <1>4. tracker' \in Trackers /\ tracker'.consumed = tracker.consumed /\ tracker'.committed
    BY WindowTypes DEF Lifecycle!DomReady, Trackers
  <1> HIDE DEF y
  <1>5. OneWindow(w, y)
    BY <1>1, <1>2, <1>3, <1>4, WindowTypes DEF OneWindow, Lifecycle!rest
  <1>6. /\ WindowType' /\ WindowsApart' /\ PagesKept' /\ FlagsKept' /\ InformedKept'
        /\ \A v \in Windows : window'[v].life = window[v].life
    BY <1>1, <1>2, <1>3, <1>4, <1>5, QuietKeeps
  <1>7. RuntimeType' /\ QuitKept'
    BY <1>3, <1>6, RestKeeps DEF Lifecycle!rest
  <1> QED
    BY <1>6, <1>7 DEF WindowsInv

LEMMA FinishLoadKeeps ==
  ASSUME WindowsInv, NEW w \in Windows, Lifecycle!FinishLoad(w)
  PROVE  WindowsInv'
  <1> DEFINE x == window[w]
             z == [x EXCEPT !.page = "loaded"]
             h == Lifecycle!HostReceived(z, hostState)
             y == Lifecycle!NetworkReceived(h, networkState)
  <1>1. /\ x \in PageWindows /\ (x.visible => x.presented) /\ (x.mail => x.presented)
        /\ x.page = "dom" /\ x.life = "open"
    BY WindowTypes DEF WindowsInv, PagesKept, Lifecycle!FinishLoad
  <1>2. /\ z \in PageWindows /\ z.life = "open" /\ z.crowded = x.crowded /\ z.page = "loaded"
        /\ z.sent = x.sent /\ z.mail = x.mail /\ z.shows = x.shows
        /\ z.visible = x.visible /\ z.presented = x.presented /\ z.painted = x.painted
    BY <1>1 DEF PageWindows
  <1>3. /\ window' = [window EXCEPT ![w] = y]
        /\ UNCHANGED <<mainWindow, flags, lifecycleTrouble, Lifecycle!rest>>
    BY WindowTypes DEF Lifecycle!FinishLoad
  <1>4. /\ tracker' \in Trackers /\ tracker'.ready
        /\ tracker'.consumed = tracker.consumed /\ tracker'.committed = tracker.committed
    BY WindowTypes DEF Lifecycle!FinishLoad, Trackers
  <1> HIDE DEF z
  <1>5. Lifecycle!Listens(z)
    BY <1>2 DEF Lifecycle!Listens, Lifecycle!Documents
  <1>6. /\ h \in PageWindows /\ SameWindow(z, h) /\ h.auth = hostState
        /\ z.shows # Lifecycle!Unmounted =>
             Lifecycle!Status(h.shows.auth) = Lifecycle!Status(hostState)
    BY <1>2, <1>5, WindowTypes, HostTold
  <1> HIDE DEF h
  <1>7. Lifecycle!Listens(h)
    BY <1>5, <1>6 DEF SameWindow, Lifecycle!Listens
  <1>8. /\ y \in PageWindows /\ SameWindow(h, y) /\ y.auth = h.auth /\ y.net = networkState
        /\ h.shows # Lifecycle!Unmounted =>
             /\ Lifecycle!Status(y.shows.auth) = Lifecycle!Status(h.shows.auth)
             /\ y.shows.net = networkState
    BY <1>6, <1>7, WindowTypes, NetworkTold
  <1> HIDE DEF y
  <1>9. SameWindow(z, y) /\ (y.shows # Lifecycle!Unmounted => h.shows # Lifecycle!Unmounted
                                                 /\ z.shows # Lifecycle!Unmounted)
    BY <1>6, <1>8 DEF SameWindow
  <1>10. /\ y.life = "open" /\ y.crowded = x.crowded /\ y.page = "loaded"
         /\ y.sent = x.sent /\ y.mail = x.mail
         /\ y.visible = x.visible /\ y.presented = x.presented /\ y.painted = x.painted
    BY <1>2, <1>9 DEF SameWindow
  <1>11. OneWindow(w, y)
    BY <1>1, <1>3, <1>4, <1>8, <1>10, WindowTypes DEF OneWindow, Lifecycle!rest
  <1>12. w = mainWindow /\ ~y.crowded =>
            tracker'.committed /\ (y.sent /\ ~y.mail => tracker'.consumed)
    <2>1. w # 0
      BY LifecycleAssumption
    <2> QED
      BY <1>1, <1>4, <1>10, <2>1 DEF WindowsInv, FlagsKept
  <1>13. /\ WindowType' /\ WindowsApart' /\ PagesKept' /\ FlagsKept' /\ InformedKept'
         /\ \A v \in Windows : window'[v].life = window[v].life
    BY <1>1, <1>3, <1>4, <1>6, <1>8, <1>9, <1>10, <1>11, <1>12, QuietKeeps
  <1>14. RuntimeType' /\ QuitKept'
    BY <1>3, <1>13, RestKeeps DEF Lifecycle!rest
  <1> QED
    BY <1>13, <1>14 DEF WindowsInv

LEMMA MountKeeps ==
  ASSUME WindowsInv, NEW w \in Windows, Lifecycle!Mount(w)
  PROVE  WindowsInv'
  <1> DEFINE x == window[w]
             p == [stage |-> "bootstrap", presentable |-> FALSE, auth |-> x.auth,
                   net |-> x.net]
             s == Lifecycle!resolveDesktopPresentationState(p)
             y == [x EXCEPT !.shows = s]
  <1>1. /\ x \in PageWindows /\ (x.visible => x.presented) /\ (x.mail => x.presented)
        /\ x.page \in {"dom", "loaded"} /\ x.life = "open"
    BY WindowTypes DEF WindowsInv, PagesKept, Lifecycle!Mount
  <1>2. s \in Presentations /\ s.auth = x.auth /\ s.net = x.net
    <2>1. p \in Presentations /\ p.auth = x.auth /\ p.net = x.net
      BY <1>1 DEF Presentations, PageWindows
    <2> HIDE DEF p
    <2> QED
      BY <2>1, Resolved
  <1>3. /\ window' = [window EXCEPT ![w] = y]
        /\ UNCHANGED <<mainWindow, tracker, flags, lifecycleTrouble, Lifecycle!rest>>
    BY WindowTypes DEF Lifecycle!Mount, Lifecycle!createDesktopPresentationState
  <1> HIDE DEF s
  <1>4. /\ y \in PageWindows /\ y.life = "open" /\ y.crowded = x.crowded /\ y.page = x.page
        /\ y.sent = x.sent /\ y.mail = x.mail /\ y.shows = s
        /\ y.auth = x.auth /\ y.net = x.net
        /\ y.visible = x.visible /\ y.presented = x.presented /\ y.painted = x.painted
    BY <1>1, <1>2 DEF PageWindows
  <1> HIDE DEF y
  <1>5. OneWindow(w, y)
    BY <1>1, <1>3, <1>4, WindowTypes DEF OneWindow, Lifecycle!rest
  <1>6. w # 0
    BY LifecycleAssumption
  <1>7. w = mainWindow /\ ~y.crowded =>
            /\ tracker'.committed /\ (y.sent /\ ~y.mail => tracker'.consumed)
            /\ y.page = "loaded" => tracker'.ready
    BY <1>1, <1>3, <1>4, <1>6 DEF WindowsInv, FlagsKept
  <1>8. w = mainWindow /\ y.page = "loaded" => x.auth = hostState /\ x.net = networkState
    BY <1>4, <1>6 DEF WindowsInv, InformedKept
  <1>9. /\ WindowType' /\ WindowsApart' /\ PagesKept' /\ FlagsKept' /\ InformedKept'
        /\ \A v \in Windows : window'[v].life = window[v].life
    BY <1>1, <1>2, <1>3, <1>4, <1>5, <1>7, <1>8, QuietKeeps
  <1>10. RuntimeType' /\ QuitKept'
    BY <1>3, <1>9, RestKeeps DEF Lifecycle!rest
  <1> QED
    BY <1>9, <1>10 DEF WindowsInv

LEMMA PresentKeeps ==
  ASSUME WindowsInv, NEW w \in Windows, Lifecycle!Present(w)
  PROVE  WindowsInv'
  <1> DEFINE x == window[w]
             y == [x EXCEPT !.sent = TRUE, !.mail = TRUE, !.presented = TRUE]
  <1>1. /\ x \in PageWindows /\ x.life = "open" /\ x.shows.presentable
        /\ x.page \notin {"none", "loading"}
    <2>1. x.shows # Lifecycle!Unmounted
      BY DEF Lifecycle!Present, Lifecycle!Unmounted
    <2> QED
      BY <2>1, WindowTypes DEF WindowsInv, PagesKept, Lifecycle!Present, Lifecycle!Listens
  <1>2. /\ y \in PageWindows /\ y.life = "open" /\ y.crowded = x.crowded /\ y.page = x.page
        /\ y.sent /\ y.mail /\ y.shows = x.shows /\ y.auth = x.auth /\ y.net = x.net
        /\ y.visible = x.visible /\ y.presented /\ y.painted = x.painted
    BY <1>1 DEF PageWindows
  <1>3. /\ window' = [window EXCEPT ![w] = y]
        /\ UNCHANGED <<mainWindow, tracker, flags, lifecycleTrouble, Lifecycle!rest>>
    BY WindowTypes DEF Lifecycle!Present
  <1> HIDE DEF y
  <1>4. OneWindow(w, y)
    BY <1>1, <1>2, <1>3, WindowTypes DEF OneWindow, Lifecycle!rest
  <1>5. w # 0
    BY LifecycleAssumption
  <1>6. w = mainWindow /\ ~y.crowded =>
            /\ y.page \in {"dom", "loaded"} => tracker'.committed
            /\ y.page = "loaded" => tracker'.ready
    BY <1>1, <1>2, <1>3, <1>5 DEF WindowsInv, FlagsKept
  <1>7. w = mainWindow /\ y.page = "loaded" =>
            /\ y.auth = hostState /\ y.net = networkState
            /\ y.shows # Lifecycle!Unmounted =>
                  Lifecycle!Status(y.shows.auth) = Lifecycle!Status(hostState)
                  /\ y.shows.net = networkState
    BY <1>2, <1>5 DEF WindowsInv, InformedKept
  <1>8. /\ WindowType' /\ WindowsApart' /\ PagesKept' /\ FlagsKept' /\ InformedKept'
        /\ \A v \in Windows : window'[v].life = window[v].life
    BY <1>1, <1>2, <1>3, <1>4, <1>6, <1>7, QuietKeeps
  <1>9. RuntimeType' /\ QuitKept'
    BY <1>3, <1>8, RestKeeps DEF Lifecycle!rest
  <1> QED
    BY <1>8, <1>9 DEF WindowsInv

LEMMA NavigateInPageKeeps ==
  ASSUME WindowsInv, NEW w \in Windows, Lifecycle!NavigateInPage(w)
  PROVE  WindowsInv'
  <1>1. /\ UNCHANGED <<mainWindow, window, flags, lifecycleTrouble, Lifecycle!rest>>
        /\ tracker' \in Trackers /\ tracker'.ready
        /\ tracker'.consumed = tracker.consumed /\ tracker'.committed = tracker.committed
    BY WindowTypes DEF Lifecycle!NavigateInPage, Trackers
  <1>2. RuntimeType' /\ QuitKept'
    BY <1>1, RestKeeps DEF Lifecycle!rest
  <1>3. WindowType' /\ WindowsApart' /\ PagesKept' /\ InformedKept'
    BY <1>1 DEF Lifecycle!rest, WindowsInv, WindowType, WindowsApart, PagesKept, InformedKept,
       Trackers
  <1>4. FlagsKept'
    BY <1>1 DEF WindowsInv, FlagsKept
  <1> QED
    BY <1>2, <1>3, <1>4 DEF WindowsInv

\* Pages that leave: nothing is reported on their behalf.
LEMMA LeavesKeeps ==
  ASSUME WindowsInv, NEW w \in Windows,
         Lifecycle!Reload(w) \/ Lifecycle!NavigationFails(w) \/ Lifecycle!RenderProcessGone(w)
  PROVE  WindowsInv'
  <1> DEFINE x == window[w]
  <1>1. x \in PageWindows /\ (x.visible => x.presented) /\ (x.mail => x.presented)
    BY WindowTypes DEF WindowsInv, PagesKept
  <1>2. PICK y \in PageWindows :
          /\ window' = [window EXCEPT ![w] = y] /\ x.life = "open" /\ y.life = x.life
          /\ y.page \in {"navigating", "stayed", "gone"} /\ y.crowded = x.crowded
          /\ y.mail => x.mail
          /\ y.visible = x.visible /\ y.presented = x.presented /\ y.painted = x.painted
    <2>1. CASE Lifecycle!Reload(w)
      <3> DEFINE y == [x EXCEPT !.page = "navigating"]
      <3>1. window' = [window EXCEPT ![w] = y] /\ x.life = "open"
        BY <2>1, WindowTypes DEF Lifecycle!Reload
      <3>2. /\ y \in PageWindows /\ y.life = x.life /\ y.page = "navigating"
            /\ y.crowded = x.crowded /\ y.mail = x.mail
            /\ y.visible = x.visible /\ y.presented = x.presented /\ y.painted = x.painted
        BY <1>1 DEF PageWindows
      <3> HIDE DEF y
      <3> QED
        BY <3>1, <3>2
    <2>2. CASE Lifecycle!NavigationFails(w)
      <3> DEFINE y == [x EXCEPT !.page = "stayed"]
      <3>1. window' = [window EXCEPT ![w] = y] /\ x.life = "open"
        BY <2>2, WindowTypes DEF Lifecycle!NavigationFails
      <3>2. /\ y \in PageWindows /\ y.life = x.life /\ y.page = "stayed"
            /\ y.crowded = x.crowded /\ y.mail = x.mail
            /\ y.visible = x.visible /\ y.presented = x.presented /\ y.painted = x.painted
        BY <1>1 DEF PageWindows
      <3> HIDE DEF y
      <3> QED
        BY <3>1, <3>2
    <2>3. CASE Lifecycle!RenderProcessGone(w)
      <3> DEFINE y == [x EXCEPT !.page = "gone", !.mail = FALSE,
                                !.shows = Lifecycle!Unmounted]
      <3>1. window' = [window EXCEPT ![w] = y] /\ x.life = "open"
        BY <2>3, WindowTypes DEF Lifecycle!RenderProcessGone
      <3>2. /\ y \in PageWindows /\ y.life = x.life /\ y.page = "gone"
            /\ y.crowded = x.crowded /\ ~y.mail
            /\ y.visible = x.visible /\ y.presented = x.presented /\ y.painted = x.painted
        BY <1>1, WindowTypes DEF PageWindows
      <3> HIDE DEF y
      <3> QED
        BY <3>1, <3>2
    <2> QED
      BY <2>1, <2>2, <2>3
  <1>3. UNCHANGED <<mainWindow, flags, Lifecycle!rest>> /\ tracker' \in Trackers
        /\ (tracker'.consumed => tracker.consumed)
    <2>1. ~Lifecycle!NotReady.consumed
      BY DEF Lifecycle!NotReady
    <2>2. /\ UNCHANGED <<mainWindow, flags, Lifecycle!rest>>
          /\ tracker' \in {tracker, Lifecycle!NotReady}
      BY DEF Lifecycle!Reload, Lifecycle!NavigationFails, Lifecycle!RenderProcessGone
    <2> QED
      BY <2>1, <2>2, WindowTypes
  <1>4. lifecycleTrouble'.outcomes = lifecycleTrouble.outcomes
    BY TroubleHappens DEF Lifecycle!Reload, Lifecycle!NavigationFails,
       Lifecycle!RenderProcessGone
  <1>5. OneWindow(w, y)
    BY <1>1, <1>2, <1>3, <1>4, WindowTypes DEF OneWindow, Lifecycle!rest
  <1>6. /\ WindowType' /\ WindowsApart' /\ PagesKept' /\ FlagsKept' /\ InformedKept'
        /\ \A v \in Windows : window'[v].life = window[v].life
    BY <1>1, <1>2, <1>3, <1>5, QuietKeeps
  <1>7. RuntimeType' /\ QuitKept'
    BY <1>3, <1>6, RestKeeps DEF Lifecycle!rest
  <1> QED
    BY <1>6, <1>7 DEF WindowsInv

\* showMainWindowIfReady, after something of window w has become y and the flags f.
LEMMA ShownKeeps ==
  ASSUME WindowsInv, NEW w \in Windows, NEW y \in PageWindows, NEW f \in RevealFlags,
         window[w].life = "open", SameWindow(window[w], [y EXCEPT !.mail = window[w].mail,
                                                    !.painted = window[w].painted]),
         y.shows = window[w].shows, y.auth = window[w].auth, y.net = window[w].net,
         y.mail => window[w].mail,
         Lifecycle!showMainWindowIfReady([window EXCEPT ![w] = y], f),
         UNCHANGED <<mainWindow, hostState, networkState>>,
         lifecycleTrouble'.outcomes = lifecycleTrouble.outcomes,
         tracker' \in Trackers, tracker'.consumed => f.presentation,
         f.presentation /\ mainWindow # 0 => window[mainWindow].presented,
         w = mainWindow /\ ~y.crowded =>
            /\ y.painted => f.chromium
            /\ y.page \in {"dom", "loaded"} =>
                  tracker'.committed /\ (y.sent /\ ~y.mail => tracker'.consumed)
            /\ y.page = "loaded" => tracker'.ready
  PROVE  /\ WindowType' /\ WindowsApart' /\ PagesKept' /\ FlagsKept' /\ InformedKept'
         /\ \A v \in Windows : window'[v].life = window[v].life
  <1> DEFINE x == window[w]
             ws == [window EXCEPT ![w] = y]
             revealed(v) == [ws[v] EXCEPT !.visible = TRUE]
             b == Lifecycle!Showable(f)
  <1>1. /\ window \in [Windows -> PageWindows] /\ mainWindow \in Windows \cup {0}
        /\ x \in PageWindows
    BY WindowTypes
  <1>2. /\ y.life = x.life /\ y.page = x.page /\ y.sent = x.sent /\ y.visible = x.visible
        /\ y.presented = x.presented /\ y.crowded = x.crowded
    BY <1>1 DEF SameWindow, PageWindows
  <1>3. /\ ws \in [Windows -> PageWindows] /\ ws[w] = y
        /\ \A v \in Windows \ {w} : ws[v] = window[v]
    BY <1>1
  <1>4. /\ window' = [v \in Windows |-> IF b /\ v = mainWindow THEN revealed(v) ELSE ws[v]]
        /\ flags' = IF b THEN [f EXCEPT !.shown = TRUE, !.pending = FALSE] ELSE f
    BY DEF Lifecycle!showMainWindowIfReady
  <1> HIDE DEF ws
  <1>5. \A v \in Windows :
           /\ revealed(v) \in PageWindows /\ revealed(v).visible
           /\ revealed(v).life = ws[v].life /\ revealed(v).page = ws[v].page
           /\ revealed(v).sent = ws[v].sent /\ revealed(v).mail = ws[v].mail
           /\ revealed(v).painted = ws[v].painted /\ revealed(v).presented = ws[v].presented
           /\ revealed(v).crowded = ws[v].crowded /\ revealed(v).shows = ws[v].shows
           /\ revealed(v).auth = ws[v].auth /\ revealed(v).net = ws[v].net
    BY <1>3 DEF PageWindows
  <1> HIDE DEF revealed
  <1>6. /\ flags' \in RevealFlags /\ flags'.chromium = f.chromium
        /\ flags'.presentation = f.presentation
    BY <1>4 DEF RevealFlags
  <1>7. b <=> mainWindow # 0 /\ f.chromium /\ f.presentation
    BY DEF Lifecycle!Showable
  <1> HIDE DEF b
  <1>8. /\ window' \in [Windows -> PageWindows]
        /\ \A v \in Windows :
           /\ window'[v].life = ws[v].life /\ window'[v].page = ws[v].page
           /\ window'[v].sent = ws[v].sent /\ window'[v].mail = ws[v].mail
           /\ window'[v].painted = ws[v].painted /\ window'[v].presented = ws[v].presented
           /\ window'[v].crowded = ws[v].crowded /\ window'[v].shows = ws[v].shows
           /\ window'[v].auth = ws[v].auth /\ window'[v].net = ws[v].net
           /\ window'[v].visible => ws[v].visible \/ (b /\ v = mainWindow)
           /\ (ws[v].visible \/ (b /\ v = mainWindow)) => window'[v].visible
    BY <1>3, <1>4, <1>5
  <1>9. \A v \in Windows : ws[v].life = window[v].life
    BY <1>2, <1>3
  <1>10. WindowType'
    BY <1>6, <1>8 DEF WindowsInv, WindowType, Trackers, RevealFlags
  <1>11. WindowsApart'
    <2>1. \A v \in Windows : ws[v].crowded = window[v].crowded
      BY <1>2, <1>3
    <2> QED
      BY <1>1, <1>8, <1>9, <2>1 DEF WindowsInv, WindowsApart
  <1>12. \A v \in Windows : ws[v].presented = window[v].presented
                         /\ ws[v].visible = window[v].visible
    BY <1>2, <1>3
  <1>13. PagesKept'
    <2> SUFFICES ASSUME NEW v \in Windows
                 PROVE  /\ window'[v].visible => window'[v].presented
                        /\ window'[v].mail => window'[v].presented
                        /\ window'[v].page \in {"none", "loading"} =>
                              window'[v].shows = Lifecycle!Unmounted /\ ~window'[v].sent
      BY DEF PagesKept
    <2>1. /\ window[v].visible => window[v].presented
          /\ window[v].mail => window[v].presented
          /\ window[v].page \in {"none", "loading"} =>
                window[v].shows = Lifecycle!Unmounted /\ ~window[v].sent
      BY DEF WindowsInv, PagesKept
    <2>2. /\ ws[v].mail => window[v].mail
          /\ ws[v].page = window[v].page /\ ws[v].shows = window[v].shows
          /\ ws[v].sent = window[v].sent
      BY <1>2, <1>3
    <2> QED
      BY <1>7, <1>8, <1>12, <2>1, <2>2
  <1>14. 0 \notin Windows
    BY LifecycleAssumption
  <1>15. FlagsKept'
    <2>1. CASE mainWindow = 0
      BY <1>6, <2>1 DEF FlagsKept
    <2>2. CASE mainWindow # 0 /\ mainWindow # w
      <3>1. mainWindow \in Windows /\ window[mainWindow].crowded
        BY <1>1, <2>2 DEF WindowsInv, WindowsApart
      <3>2. window'[mainWindow].crowded
        BY <1>3, <1>8, <2>2, <3>1
      <3>3. /\ flags'.presentation => window'[mainWindow].presented
            /\ flags'.chromium /\ flags'.presentation => window'[mainWindow].visible
        BY <1>6, <1>7, <1>8, <1>12, <2>2, <3>1
      <3> QED
        BY <1>6, <3>2, <3>3 DEF FlagsKept
    <2>3. CASE mainWindow = w
      <3>1. /\ flags'.presentation => window'[mainWindow].presented
            /\ flags'.chromium /\ flags'.presentation => window'[mainWindow].visible
        BY <1>6, <1>7, <1>8, <1>12, <1>14, <2>3
      <3>2. /\ window'[w].crowded = y.crowded /\ window'[w].painted = y.painted
            /\ window'[w].page = y.page /\ window'[w].sent = y.sent
            /\ window'[w].mail = y.mail
        BY <1>3, <1>8
      <3> QED
        BY <1>6, <2>3, <3>1, <3>2 DEF FlagsKept
    <2> QED
      BY <2>1, <2>2, <2>3
  <1>16. InformedKept'
    <2>1. \A v \in Windows :
             /\ ws[v].page = window[v].page /\ ws[v].shows = window[v].shows
             /\ ws[v].auth = window[v].auth /\ ws[v].net = window[v].net
      BY <1>2, <1>3
    <2>2. mainWindow # 0 => mainWindow \in Windows
      BY <1>1
    <2> QED
      BY <1>8, <2>1, <2>2 DEF WindowsInv, InformedKept
  <1> QED
    BY <1>8, <1>9, <1>10, <1>11, <1>13, <1>15, <1>16

LEMMA ReadyToShowKeeps ==
  ASSUME WindowsInv, NEW w \in Windows, Lifecycle!ReadyToShow(w)
  PROVE  WindowsInv'
  <1> DEFINE x == window[w]
             y == [x EXCEPT !.painted = TRUE]
             f == [flags EXCEPT !.chromium = TRUE]
  <1>1. x \in PageWindows /\ x.life = "open" /\ w # 0
    BY WindowTypes, LifecycleAssumption DEF Lifecycle!ReadyToShow
  <1>2. /\ Lifecycle!showMainWindowIfReady([window EXCEPT ![w] = y], f)
        /\ UNCHANGED <<mainWindow, tracker, lifecycleTrouble, Lifecycle!rest>>
    BY WindowTypes DEF Lifecycle!ReadyToShow
  <1>3. /\ y \in PageWindows /\ y.mail = x.mail /\ y.shows = x.shows /\ y.auth = x.auth
        /\ y.net = x.net /\ y.page = x.page /\ y.sent = x.sent /\ y.crowded = x.crowded
        /\ SameWindow(x, [y EXCEPT !.mail = x.mail, !.painted = x.painted])
    BY <1>1 DEF PageWindows, SameWindow
  <1>4. f \in RevealFlags /\ f.chromium /\ f.presentation = flags.presentation
    BY WindowTypes DEF RevealFlags
  <1> HIDE DEF y, f
  <1>5. /\ tracker.consumed => f.presentation
        /\ f.presentation /\ mainWindow # 0 => window[mainWindow].presented
        /\ w = mainWindow /\ ~y.crowded =>
              /\ y.painted => f.chromium
              /\ y.page \in {"dom", "loaded"} =>
                    tracker.committed /\ (y.sent /\ ~y.mail => tracker.consumed)
              /\ y.page = "loaded" => tracker.ready
    BY <1>1, <1>3, <1>4 DEF WindowsInv, FlagsKept
  <1>6. /\ WindowType' /\ WindowsApart' /\ PagesKept' /\ FlagsKept' /\ InformedKept'
        /\ \A v \in Windows : window'[v].life = window[v].life
    <2>1. UNCHANGED <<mainWindow, hostState, networkState>> /\ UNCHANGED tracker
          /\ tracker' \in Trackers /\ lifecycleTrouble'.outcomes = lifecycleTrouble.outcomes
      BY <1>2, WindowTypes DEF Lifecycle!rest
    <2> QED
      BY <1>1, <1>2, <1>3, <1>4, <1>5, <2>1, ShownKeeps
  <1>7. RuntimeType' /\ QuitKept'
    BY <1>2, <1>6, RestKeeps DEF Lifecycle!rest
  <1> QED
    BY <1>6, <1>7 DEF WindowsInv

LEMMA AcceptKeeps ==
  ASSUME WindowsInv, NEW w \in Windows, Lifecycle!accept(w)
  PROVE  WindowsInv'
  <1> DEFINE x == window[w]
             y == [x EXCEPT !.mail = FALSE]
             f == [flags EXCEPT !.presentation = TRUE]
             taken == tracker.committed /\ ~tracker.consumed /\ w = mainWindow
  <1>1. /\ x \in PageWindows /\ x.life = "open" /\ w # 0 /\ x.presented
        /\ x.visible => x.presented
        /\ x.page \in {"none", "loading"} => x.shows = Lifecycle!Unmounted /\ ~x.sent
    BY WindowTypes, LifecycleAssumption DEF Lifecycle!accept, WindowsInv, PagesKept
  <1>2. /\ UNCHANGED <<mainWindow, lifecycleTrouble, Lifecycle!rest>>
        /\ taken => /\ tracker' = [tracker EXCEPT !.consumed = TRUE]
                    /\ Lifecycle!showMainWindowIfReady([window EXCEPT ![w] = y], f)
        /\ ~taken => window' = [window EXCEPT ![w] = y] /\ UNCHANGED <<tracker, flags>>
    BY WindowTypes DEF Lifecycle!accept
  <1>3. /\ y \in PageWindows /\ ~y.mail /\ y.shows = x.shows /\ y.auth = x.auth
        /\ y.net = x.net /\ y.page = x.page /\ y.sent = x.sent /\ y.crowded = x.crowded
        /\ y.painted = x.painted /\ y.life = x.life /\ y.visible = x.visible
        /\ y.presented = x.presented
        /\ SameWindow(x, [y EXCEPT !.mail = x.mail, !.painted = x.painted])
    BY <1>1 DEF PageWindows, SameWindow
  <1>4. f \in RevealFlags /\ f.presentation /\ f.chromium = flags.chromium
    BY WindowTypes DEF RevealFlags
  <1> HIDE DEF y, f
  <1>5. w = mainWindow /\ ~y.crowded =>
              /\ y.painted => flags.chromium
              /\ y.page \in {"dom", "loaded"} => tracker.committed
              /\ y.page = "loaded" => tracker.ready
    BY <1>1, <1>3 DEF WindowsInv, FlagsKept
  <1>6. /\ WindowType' /\ WindowsApart' /\ PagesKept' /\ FlagsKept' /\ InformedKept'
        /\ \A v \in Windows : window'[v].life = window[v].life
    <2>1. UNCHANGED <<mainWindow, hostState, networkState>>
          /\ lifecycleTrouble'.outcomes = lifecycleTrouble.outcomes
      BY <1>2 DEF Lifecycle!rest
    <2>2. CASE taken
      <3>1. /\ tracker' \in Trackers /\ tracker'.consumed
            /\ tracker'.committed = tracker.committed /\ tracker'.ready = tracker.ready
        BY <1>2, <2>2, WindowTypes DEF Trackers
      <3>2. f.presentation /\ mainWindow # 0 => window[mainWindow].presented
        BY <1>1, <2>2
      <3> QED
        BY <1>1, <1>2, <1>3, <1>4, <1>5, <2>1, <2>2, <3>1, <3>2, ShownKeeps
    <2>3. CASE ~taken
      <3>1. OneWindow(w, y)
        BY <1>1, <1>2, <1>3, <2>1, <2>3, WindowTypes DEF OneWindow
      <3>2. w = mainWindow /\ ~y.crowded =>
               /\ y.page \in {"dom", "loaded"} =>
                     tracker'.committed /\ (y.sent /\ ~y.mail => tracker'.consumed)
               /\ y.page = "loaded" => tracker'.ready
        BY <1>2, <1>5, <2>3
      <3>3. w = mainWindow /\ y.page = "loaded" =>
               /\ y.auth = hostState /\ y.net = networkState
               /\ y.shows # Lifecycle!Unmounted =>
                     Lifecycle!Status(y.shows.auth) = Lifecycle!Status(hostState)
                     /\ y.shows.net = networkState
        BY <1>1, <1>3 DEF WindowsInv, InformedKept
      <3> QED
        BY <1>2, <1>3, <2>3, <3>1, <3>2, <3>3, QuietKeeps
    <2> QED
      BY <2>2, <2>3
  <1>7. RuntimeType' /\ QuitKept'
    BY <1>2, <1>6, RestKeeps DEF Lifecycle!rest
  <1> QED
    BY <1>6, <1>7 DEF WindowsInv

\* A window that may be shown is shown already.
LEMMA RevealKeeps ==
  ASSUME WindowsInv, Lifecycle!revealWindow
  PROVE  WindowsInv'
  <1>1. /\ UNCHANGED <<mainWindow, tracker, lifecycleTrouble, Lifecycle!rest>>
        /\ mainWindow # 0 /\ mainWindow \in Windows
    BY WindowTypes DEF Lifecycle!revealWindow
  <1>2. window' = window
    <2>1. CASE flags.chromium /\ flags.presentation
      <3>1. window[mainWindow] \in PageWindows /\ window[mainWindow].visible = TRUE
        BY <1>1, <2>1, WindowTypes DEF WindowsInv, FlagsKept, PageWindows
      <3>2. window' = [window EXCEPT ![mainWindow].visible = TRUE]
        BY <2>1 DEF Lifecycle!revealWindow
      <3>3. [window[mainWindow] EXCEPT !.visible = TRUE] = window[mainWindow]
        BY <3>1 DEF PageWindows
      <3> QED
        BY <1>1, <3>2, <3>3, WindowTypes
    <2> QED
      BY <2>1 DEF Lifecycle!revealWindow
  <1>3. /\ flags' \in RevealFlags /\ flags'.chromium = flags.chromium
        /\ flags'.presentation = flags.presentation
    BY WindowTypes DEF Lifecycle!revealWindow, RevealFlags
  <1>4. RuntimeType' /\ QuitKept'
    BY <1>1, <1>2, RestKeeps DEF Lifecycle!rest
  <1>5. WindowType' /\ WindowsApart' /\ PagesKept' /\ InformedKept'
    BY <1>1, <1>2, <1>3 DEF Lifecycle!rest, WindowsInv, WindowType, WindowsApart, PagesKept,
       InformedKept, RevealFlags
  <1>6. FlagsKept'
    BY <1>1, <1>2, <1>3 DEF WindowsInv, FlagsKept
  <1> QED
    BY <1>4, <1>5, <1>6 DEF WindowsInv

Mades == [runtime : {"none", "live", "disposed"}, coordinator : {"none", "stopped", "running"}]

LEMMA MadeStates ==
  ASSUME NEW m \in Mades
  PROVE  /\ Lifecycle!Stopped(m) \in Mades /\ Lifecycle!Stopped(m).runtime = m.runtime
         /\ Lifecycle!Stopped(m).coordinator # "running"
         /\ Lifecycle!Disposed(m) \in Mades /\ Lifecycle!Disposed(m).runtime # "live"
         /\ Lifecycle!Disposed(m).coordinator # "running"
         /\ Lifecycle!Started(m) \in Mades /\ Lifecycle!Started(m).runtime = m.runtime
  <1>1. /\ Lifecycle!Stopped(m) \in Mades /\ Lifecycle!Stopped(m).runtime = m.runtime
        /\ Lifecycle!Stopped(m).coordinator # "running"
    BY DEF Lifecycle!Stopped, Mades
  <1>2. /\ Lifecycle!Disposed(m) \in Mades /\ Lifecycle!Disposed(m).runtime # "live"
        /\ Lifecycle!Disposed(m).coordinator # "running"
    BY <1>1 DEF Lifecycle!Disposed, Mades
  <1>3. Lifecycle!Started(m) \in Mades /\ Lifecycle!Started(m).runtime = m.runtime
    BY DEF Lifecycle!Started, Mades
  <1> QED
    BY <1>1, <1>2, <1>3

Globals == [runtime : BOOLEAN, network : BOOLEAN, business : BOOLEAN,
            notifications : BOOLEAN, files : BOOLEAN, commands : BOOLEAN, power : BOOLEAN]
Inits == [at : {"none", "enroll", "restore", "spool", "preview", "over"}, generation : Nat]

LEMMA RuntimeTypes ==
  ASSUME WindowsInv
  PROVE  /\ lifecycleMade \in Mades /\ global \in Globals /\ init \in Inits
         /\ generation \in Nat /\ init.generation \in Nat /\ init.generation <= generation
         /\ Lifecycle!Off \in Globals /\ ~Lifecycle!Off.network /\ ~Lifecycle!Off.files
  BY DEF WindowsInv, RuntimeType, Mades, Globals, Inits, Lifecycle!Off

\* Nothing is published and no window changes.
LEMMA StillKeeps ==
  ASSUME WindowsInv, UNCHANGED <<window, mainWindow, tracker, flags, hostState, networkState>>,
         lifecycleTrouble'.outcomes = lifecycleTrouble.outcomes
  PROVE  WindowType' /\ WindowsApart' /\ PagesKept' /\ FlagsKept' /\ InformedKept'
  BY WindowTypes, TellingKeeps

LEMMA ThemeReadKeeps == WindowsInv /\ Lifecycle!ThemeRead => WindowsInv'
  <1> SUFFICES ASSUME WindowsInv, Lifecycle!ThemeRead PROVE WindowsInv'
    OBVIOUS
  <1>1. /\ boot = "theme" /\ boot' = "protocol"
        /\ UNCHANGED <<activating, window, mainWindow, tracker, flags, hostState, networkState,
                       init, generation, lifecycleMade, global, quit, lifecycleTrouble>>
    BY DEF Lifecycle!ThemeRead
  <1>2. RuntimeType' /\ QuitKept'
    BY <1>1 DEF WindowsInv, RuntimeType, QuitKept
  <1> QED
    BY <1>1, <1>2, StillKeeps DEF WindowsInv

LEMMA LaunchKeeps == WindowsInv /\ Lifecycle!Launch => WindowsInv'
  <1> SUFFICES ASSUME WindowsInv, Lifecycle!Launch PROVE WindowsInv'
    OBVIOUS
  <1>1. /\ quit # "exited" /\ boot = "protocol" /\ boot' = "up"
        /\ Lifecycle!createMainWindow
        /\ global' = [global EXCEPT !.power = TRUE]
        /\ generation' = generation + 1
        /\ init' = [at |-> "enroll", generation |-> generation + 1]
        /\ UNCHANGED <<hostState, networkState, lifecycleMade, quit, lifecycleTrouble>>
    BY DEF Lifecycle!Launch, Lifecycle!Running, Lifecycle!initializeDesktopCredentialRuntime
  <1>2. quit' = "no"
    BY <1>1 DEF WindowsInv, QuitKept
  <1>3. global' \in Globals
    BY <1>1, RuntimeTypes DEF Globals
  <1>4. init' \in Inits /\ init'.generation = generation' /\ generation' \in Nat
    BY <1>1, RuntimeTypes DEF Inits
  <1>5. RuntimeType' /\ QuitKept'
    BY <1>1, <1>2, <1>3, <1>4 DEF WindowsInv, RuntimeType, QuitKept, Globals, Inits
  <1> QED
    BY <1>1, <1>5, WindowTypes, CreatedKeeps DEF WindowsInv

LEMMA ActivatedKeeps == WindowsInv /\ Lifecycle!Activated => WindowsInv'
  <1> SUFFICES ASSUME WindowsInv, Lifecycle!Activated PROVE WindowsInv'
    OBVIOUS
  <1>1. /\ activating > 0 /\ Lifecycle!createMainWindow
        /\ lifecycleMade' = IF global.network THEN Lifecycle!Started(lifecycleMade)
                            ELSE lifecycleMade
        /\ networkState' = IF global.network THEN Lifecycle!StartedState ELSE networkState
        /\ UNCHANGED <<boot, hostState, init, generation, global, quit, lifecycleTrouble>>
    BY DEF Lifecycle!Activated
  <1>2. networkState' \in Lifecycle!NetworkStates
    BY <1>1, WindowTypes DEF Lifecycle!StartedState, Lifecycle!NetworkStates,
       Lifecycle!WorkspaceNetworkStates
  <1>3. boot \notin {"theme", "protocol"}
    BY <1>1 DEF WindowsInv, QuitKept
  <1>4. quit # "no" => lifecycleMade' = lifecycleMade
    BY <1>1, RuntimeTypes DEF WindowsInv, QuitKept
  <1>5. lifecycleMade' \in Mades
    BY <1>1, RuntimeTypes, MadeStates
  <1>6. RuntimeType' /\ QuitKept'
    BY <1>1, <1>3, <1>4, <1>5 DEF WindowsInv, RuntimeType, QuitKept, Mades
  <1> QED
    BY <1>1, <1>2, <1>6, CreatedKeeps DEF WindowsInv

LEMMA ActivateKeeps == WindowsInv /\ Lifecycle!Activate => WindowsInv'
  <1> SUFFICES ASSUME WindowsInv, Lifecycle!Activate PROVE WindowsInv'
    OBVIOUS
  <1>1. /\ boot = "up"
        /\ UNCHANGED <<boot, window, mainWindow, tracker, flags, hostState, networkState,
                       init, generation, lifecycleMade, global, quit>>
        /\ lifecycleTrouble'.outcomes = lifecycleTrouble.outcomes
    BY TroubleHappens DEF Lifecycle!Activate
  <1>2. RuntimeType' /\ QuitKept'
    BY <1>1 DEF WindowsInv, RuntimeType, QuitKept
  <1> QED
    BY <1>1, <1>2, StillKeeps DEF WindowsInv

LEMMA EnrolledKeeps == WindowsInv /\ Lifecycle!Enrolled => WindowsInv'
  <1> SUFFICES ASSUME WindowsInv, Lifecycle!Enrolled PROVE WindowsInv'
    OBVIOUS
  <1>1. /\ init.at = "enroll"
        /\ UNCHANGED <<boot, activating, window, mainWindow, tracker, flags, hostState,
                       networkState, generation, quit, lifecycleTrouble>>
    BY DEF Lifecycle!Enrolled
  <1>2. boot \notin {"theme", "protocol"}
    BY <1>1 DEF WindowsInv, QuitKept
  <1>3. RuntimeType' /\ QuitKept'
    <2>1. CASE Lifecycle!Stale
      <3>1. init' = [init EXCEPT !.at = "over"] /\ UNCHANGED <<lifecycleMade, global>>
        BY <2>1 DEF Lifecycle!Enrolled, Lifecycle!InitOver
      <3>2. init' \in Inits /\ init'.generation = init.generation
        BY <3>1, RuntimeTypes DEF Inits
      <3> QED
        BY <1>1, <1>2, <3>1, <3>2 DEF WindowsInv, RuntimeType, QuitKept, Inits
    <2>2. CASE ~Lifecycle!Stale
      <3>1. /\ lifecycleMade' = [runtime |-> "live", coordinator |-> "stopped"]
            /\ global' = [global EXCEPT !.runtime = TRUE, !.network = TRUE]
            /\ init' = [init EXCEPT !.at = "restore"]
        BY <2>2 DEF Lifecycle!Enrolled
      <3>2. quit = "no"
        BY <2>2, RuntimeTypes DEF Lifecycle!Stale, WindowsInv, QuitKept
      <3>3. init' \in Inits /\ init'.generation = init.generation
        BY <3>1, RuntimeTypes DEF Inits
      <3>4. global' \in Globals
        BY <3>1, RuntimeTypes DEF Globals
      <3>5. lifecycleMade' \in Mades
        BY <3>1 DEF Mades
      <3> QED
        BY <1>1, <1>2, <3>2, <3>3, <3>4, <3>5
           DEF WindowsInv, RuntimeType, QuitKept, Inits, Globals, Mades
    <2> QED
      BY <2>1, <2>2
  <1> QED
    BY <1>1, <1>3, StillKeeps DEF WindowsInv

LEMMA ClearedKeeps == WindowsInv /\ Lifecycle!Cleared => WindowsInv'
  <1> SUFFICES ASSUME WindowsInv, Lifecycle!Cleared PROVE WindowsInv'
    OBVIOUS
  <1>1. /\ init.at \in {"spool", "preview"}
        /\ UNCHANGED <<boot, activating, window, mainWindow, tracker, flags, hostState,
                       networkState, generation, lifecycleMade, quit, lifecycleTrouble>>
    BY DEF Lifecycle!Cleared
  <1>2. boot \notin {"theme", "protocol"}
    BY <1>1 DEF WindowsInv, QuitKept
  <1>3. /\ init' = [init EXCEPT !.at = "over"] \/ init' = [init EXCEPT !.at = "preview"]
        /\ global' = global \/
             (~Lifecycle!Stale /\ global' = [global EXCEPT !.files = TRUE, !.commands = TRUE])
    BY DEF Lifecycle!Cleared, Lifecycle!InitOver
  <1>4. init' \in Inits /\ init'.generation = init.generation
    BY <1>3, RuntimeTypes DEF Inits
  <1>5. global' \in Globals
    BY <1>3, RuntimeTypes DEF Globals
  <1>6. quit # "no" => global' = global
    BY <1>3, RuntimeTypes DEF Lifecycle!Stale, WindowsInv, QuitKept
  <1>7. RuntimeType' /\ QuitKept'
    BY <1>1, <1>2, <1>4, <1>5, <1>6 DEF WindowsInv, RuntimeType, QuitKept, Inits, Globals
  <1> QED
    BY <1>1, <1>7, StillKeeps DEF WindowsInv

\* The start failed: its caller publishes that.
LEMMA StartFailsKeeps ==
  ASSUME WindowsInv, Lifecycle!EnrollFails \/ Lifecycle!RestoreFails \/ Lifecycle!ClearFails
  PROVE  WindowsInv'
  <1>1. PICK n \in Lifecycle!NetworkStates :
          /\ Lifecycle!PublishesFatal(n) /\ init' = [init EXCEPT !.at = "over"]
          /\ init.at # "none"
          /\ UNCHANGED <<boot, activating, mainWindow, tracker, flags, generation, quit>>
    BY WindowTypes DEF Lifecycle!EnrollFails, Lifecycle!RestoreFails, Lifecycle!ClearFails,
       Lifecycle!InitOver
  <1>2. lifecycleTrouble'.outcomes = lifecycleTrouble.outcomes
    BY TroubleHappens DEF Lifecycle!EnrollFails, Lifecycle!RestoreFails, Lifecycle!ClearFails
  <1>3. /\ lifecycleMade' = lifecycleMade \/ lifecycleMade' = Lifecycle!Disposed(lifecycleMade)
        /\ \/ global' = global
           \/ global' = [global EXCEPT !.runtime = FALSE, !.network = FALSE]
    BY DEF Lifecycle!EnrollFails, Lifecycle!RestoreFails, Lifecycle!ClearFails
  <1>4. /\ WindowType' /\ WindowsApart' /\ PagesKept' /\ FlagsKept' /\ InformedKept'
        /\ \A w \in Windows : window'[w].life = window[w].life
    <2>1. "fatal" \in Sessions
      BY DEF Sessions
    <2> QED
      BY <1>1, <1>2, <2>1, TellingKeeps DEF Lifecycle!PublishesFatal
  <1>5. boot \notin {"theme", "protocol"}
    BY <1>1 DEF WindowsInv, QuitKept
  <1>6. init' \in Inits /\ init'.generation = init.generation
    BY <1>1, RuntimeTypes DEF Inits
  <1>7. global' \in Globals /\ (global = Lifecycle!Off => global' = Lifecycle!Off)
    BY <1>3, RuntimeTypes DEF Globals, Lifecycle!Off
  <1>8. /\ lifecycleMade' \in Mades
        /\ lifecycleMade.runtime # "live" /\ lifecycleMade.coordinator # "running" =>
             lifecycleMade'.runtime # "live" /\ lifecycleMade'.coordinator # "running"
    BY <1>3, RuntimeTypes, MadeStates
  <1>9. RuntimeType' /\ QuitKept'
    BY <1>1, <1>5, <1>6, <1>7, <1>8
       DEF WindowsInv, RuntimeType, QuitKept, Inits, Globals, Mades
  <1> QED
    BY <1>4, <1>9 DEF WindowsInv

\* The session is published: the stream starts or stops with it.
LEMMA SessionKeeps ==
  ASSUME WindowsInv, NEW a \in lifecycleTrouble.outcomes,
         Lifecycle!Restored(a) \/ Lifecycle!SessionChanges(a)
  PROVE  WindowsInv'
  <1>1. /\ Lifecycle!Publishes(a) /\ lifecycleMade.runtime = "live"
        /\ init.at \in {"restore", "spool", "preview", "over"}
        /\ UNCHANGED <<boot, activating, mainWindow, tracker, flags, generation, quit>>
        /\ init' = init \/ init' = [init EXCEPT !.at = "spool"]
        /\ \/ global' = global
           \/ global' = [global EXCEPT !.notifications = TRUE, !.business = TRUE]
    BY DEF Lifecycle!Restored, Lifecycle!SessionChanges
  <1>2. lifecycleTrouble'.outcomes = lifecycleTrouble.outcomes
    BY TroubleHappens DEF Lifecycle!Restored, Lifecycle!SessionChanges
  <1>3. a \in Sessions
    BY DEF WindowsInv, WindowType
  <1> DEFINE n == IF a = "authenticated" THEN Lifecycle!StartedState ELSE "idle"
  <1>4. n \in Lifecycle!NetworkStates
    BY WindowTypes DEF Lifecycle!StartedState, Lifecycle!NetworkStates,
       Lifecycle!WorkspaceNetworkStates
  <1>5. /\ hostState' = a /\ networkState' = n
        /\ window' = Lifecycle!HostPublished(Lifecycle!NetworkPublished(window, n), a)
        /\ \/ lifecycleMade' = Lifecycle!Started(lifecycleMade)
           \/ lifecycleMade' = Lifecycle!Stopped(lifecycleMade)
    BY <1>1 DEF Lifecycle!Publishes
  <1> HIDE DEF n
  <1>6. /\ WindowType' /\ WindowsApart' /\ PagesKept' /\ FlagsKept' /\ InformedKept'
        /\ \A w \in Windows : window'[w].life = window[w].life
    BY <1>1, <1>2, <1>3, <1>4, <1>5, TellingKeeps
  <1>7. boot \notin {"theme", "protocol"} /\ quit = "no"
    BY <1>1 DEF WindowsInv, QuitKept
  <1>8. init' \in Inits /\ init'.generation = init.generation
    BY <1>1, RuntimeTypes DEF Inits
  <1>9. global' \in Globals
    BY <1>1, RuntimeTypes DEF Globals
  <1>10. lifecycleMade' \in Mades
    BY <1>5, RuntimeTypes, MadeStates
  <1>11. RuntimeType' /\ QuitKept'
    BY <1>1, <1>7, <1>8, <1>9, <1>10
       DEF WindowsInv, RuntimeType, QuitKept, Inits, Globals, Mades
  <1> QED
    BY <1>6, <1>11 DEF WindowsInv

LEMMA NetworkChangesKeeps ==
  ASSUME WindowsInv, NEW n \in Lifecycle!NetworkStates, Lifecycle!NetworkChanges(n)
  PROVE  WindowsInv'
  <1>1. /\ networkState' = n /\ window' = Lifecycle!NetworkPublished(window, n)
        /\ UNCHANGED <<boot, activating, mainWindow, tracker, flags, hostState, init,
                       generation, lifecycleMade, global, quit>>
        /\ lifecycleTrouble'.outcomes = lifecycleTrouble.outcomes
    BY TroubleHappens DEF Lifecycle!NetworkChanges
  <1>2. /\ WindowType' /\ WindowsApart' /\ PagesKept' /\ FlagsKept' /\ InformedKept'
        /\ \A w \in Windows : window'[w].life = window[w].life
    BY <1>1, WindowTypes, TellingKeeps
  <1>3. RuntimeType' /\ QuitKept'
    BY <1>1, <1>2, RestKeeps
  <1> QED
    BY <1>2, <1>3 DEF WindowsInv

\* Everything is given up; a window that is left is told.
LEMMA QuitKeeps ==
  ASSUME WindowsInv, NEW after \in {boot, "failed"}, Lifecycle!BeforeQuit(after),
         lifecycleTrouble'.outcomes = lifecycleTrouble.outcomes
  PROVE  WindowsInv'
  <1>1. /\ quit' = Lifecycle!CleanUp(Lifecycle!Open) /\ generation' = generation + 1
        /\ global' = Lifecycle!Off /\ lifecycleMade' = Lifecycle!Disposed(lifecycleMade)
        /\ networkState' = Lifecycle!IdleIfMade
        /\ window' = IF lifecycleMade.coordinator = "none" THEN window
                     ELSE Lifecycle!NetworkPublished(window, "idle")
        /\ boot' = after
        /\ UNCHANGED <<activating, mainWindow, tracker, flags, hostState, init>>
    BY DEF Lifecycle!BeforeQuit
  <1>2. /\ WindowType' /\ WindowsApart' /\ PagesKept' /\ FlagsKept' /\ InformedKept'
        /\ \A w \in Windows : window'[w].life = window[w].life
    BY <1>1, WindowTypes, TellingKeeps DEF Lifecycle!IdleIfMade
  <1>3. quit' \in {"started", "complete", "exited"}
        /\ (~global.files /\ (\A w \in Windows : window[w].life = "new") => quit' = "exited")
    BY <1>1 DEF Lifecycle!CleanUp, Lifecycle!Open
  <1>4. /\ lifecycleMade' \in Mades /\ lifecycleMade'.runtime # "live"
        /\ lifecycleMade'.coordinator # "running"
    BY <1>1, RuntimeTypes, MadeStates
  <1>5. generation' \in Nat /\ init.generation < generation'
    BY <1>1, RuntimeTypes
  <1>6. RuntimeType'
    BY <1>1, <1>3, <1>4, <1>5, RuntimeTypes DEF WindowsInv, RuntimeType, Mades, Globals
  <1>7. QuitKept'
    BY <1>1, <1>2, <1>3, <1>4, <1>5, RuntimeTypes DEF WindowsInv, QuitKept
  <1> QED
    BY <1>2, <1>6, <1>7 DEF WindowsInv

LEMMA QuitsKeeps ==
  ASSUME WindowsInv, Lifecycle!Quit \/ Lifecycle!LaunchFails \/ Lifecycle!WindowAllClosed
  PROVE  WindowsInv'
  <1>1. CASE Lifecycle!Quit \/ Lifecycle!WindowAllClosed
    BY <1>1, QuitKeeps DEF Lifecycle!Quit, Lifecycle!WindowAllClosed
  <1>2. CASE Lifecycle!LaunchFails
    BY <1>2, TroubleHappens, QuitKeeps DEF Lifecycle!LaunchFails
  <1> QED
    BY <1>1, <1>2

LEMMA FilesInvalidatedKeeps == WindowsInv /\ Lifecycle!FilesInvalidated => WindowsInv'
  <1> SUFFICES ASSUME WindowsInv, Lifecycle!FilesInvalidated PROVE WindowsInv'
    OBVIOUS
  <1>1. /\ quit = "started" /\ quit' \in {"exited", "complete"}
        /\ UNCHANGED <<boot, activating, window, mainWindow, tracker, flags, hostState,
                       networkState, init, generation, lifecycleMade, global,
                       lifecycleTrouble>>
    BY DEF Lifecycle!FilesInvalidated
  <1>2. RuntimeType' /\ QuitKept'
    BY <1>1 DEF WindowsInv, RuntimeType, QuitKept
  <1> QED
    BY <1>1, <1>2, StillKeeps DEF WindowsInv

LEMMA CloseKeeps ==
  ASSUME WindowsInv, NEW w \in Windows, Lifecycle!Close(w)
  PROVE  WindowsInv'
  <1> DEFINE gone == [Lifecycle!NoWindow EXCEPT !.life = "closed"]
  <1>1. /\ window[w].life = "open" /\ window' = [window EXCEPT ![w] = gone]
        /\ flags' = Lifecycle!Hidden /\ tracker' = Lifecycle!NotReady
        /\ mainWindow' = IF mainWindow = w THEN 0 ELSE mainWindow
        /\ lifecycleMade' \in {lifecycleMade, Lifecycle!Stopped(lifecycleMade)}
        /\ networkState' \in {networkState, "idle"}
        /\ mainWindow # w => UNCHANGED networkState
        /\ quit' \in {quit, "exited"} /\ (quit = "no" => quit' = "no")
        /\ UNCHANGED <<boot, activating, hostState, init, generation, global,
                       lifecycleTrouble>>
    BY DEF Lifecycle!Close, Lifecycle!Closed
  <1>2. gone \in PageWindows
    BY WindowTypes DEF PageWindows, Lifecycle!NoWindow
  <1> HIDE DEF gone
  <1>3. /\ window' \in [Windows -> PageWindows] /\ window'[w] = gone
        /\ \A v \in Windows \ {w} : window'[v] = window[v]
    BY <1>1, <1>2, WindowTypes
  <1>4. \A v \in Windows \ {w} : SameWindow(window[v], window'[v])
    BY <1>3 DEF SameWindow
  <1>5. networkState' \in Lifecycle!NetworkStates
    BY <1>1, WindowTypes
  <1>6. WindowType' /\ WindowsApart' /\ PagesKept' /\ FlagsKept'
    BY <1>1, <1>3, <1>4, <1>5, ClosedKeeps DEF gone
  <1>7. mainWindow' # 0 => mainWindow' = mainWindow /\ mainWindow \in Windows \ {w}
    BY <1>1, WindowTypes, LifecycleAssumption
  <1>8. InformedKept'
    BY <1>1, <1>3, <1>7 DEF WindowsInv, InformedKept
  <1>9. boot \notin {"theme", "protocol"}
    BY <1>1 DEF WindowsInv, QuitKept
  <1>10. /\ lifecycleMade' \in Mades
         /\ lifecycleMade.runtime # "live" => lifecycleMade'.runtime # "live"
         /\ lifecycleMade.coordinator # "running" => lifecycleMade'.coordinator # "running"
    BY <1>1, RuntimeTypes, MadeStates
  <1>11. RuntimeType' /\ QuitKept'
    BY <1>1, <1>9, <1>10 DEF WindowsInv, RuntimeType, QuitKept, Mades
  <1> QED
    BY <1>6, <1>8, <1>11 DEF WindowsInv

LEMMA LoadFailsKeeps ==
  ASSUME WindowsInv, NEW w \in Windows, Lifecycle!LoadFails(w)
  PROVE  WindowsInv'
  <1> DEFINE gone == [Lifecycle!NoWindow EXCEPT !.life = "closed"]
             left == [window EXCEPT ![w] = gone]
  <1>1. /\ window[w].life = "open"
        /\ window' = IF lifecycleMade.coordinator = "none" THEN left
                     ELSE Lifecycle!NetworkPublished(left, "idle")
        /\ flags' = Lifecycle!Hidden /\ tracker' = Lifecycle!NotReady
        /\ mainWindow' = IF mainWindow = w THEN 0 ELSE mainWindow
        /\ generation' = generation + 1 /\ global' = Lifecycle!Off
        /\ lifecycleMade' = Lifecycle!Disposed(lifecycleMade)
        /\ networkState' = Lifecycle!IdleIfMade
        /\ quit' \in {"started", "exited", "complete"}
        /\ UNCHANGED <<boot, activating, hostState, init>>
        /\ lifecycleTrouble'.outcomes = lifecycleTrouble.outcomes
    BY TroubleHappens DEF Lifecycle!LoadFails, Lifecycle!CleanUp
  <1>2. gone \in PageWindows /\ ~Lifecycle!Listens(gone)
    BY WindowTypes DEF PageWindows, Lifecycle!NoWindow, Lifecycle!Listens
  <1> HIDE DEF gone
  <1>3. /\ left \in [Windows -> PageWindows] /\ left[w] = gone
        /\ \A v \in Windows \ {w} : left[v] = window[v]
    BY <1>2, WindowTypes
  <1> HIDE DEF left
  <1> DEFINE told(v) == Lifecycle!NetworkReceived(left[v], "idle")
             ws == Lifecycle!NetworkPublished(left, "idle")
  <1>4. \A v \in Windows :
           /\ told(v) \in PageWindows /\ SameWindow(left[v], told(v))
           /\ told(v).auth = left[v].auth
           /\ Lifecycle!Listens(left[v]) =>
                /\ told(v).net = "idle"
                /\ left[v].shows # Lifecycle!Unmounted =>
                     /\ Lifecycle!Status(told(v).shows.auth)
                            = Lifecycle!Status(left[v].shows.auth)
                     /\ told(v).shows.net = "idle"
    BY <1>3, WindowTypes, NetworkTold
  <1>5. told(w) = gone
    BY <1>2, <1>3 DEF Lifecycle!NetworkReceived
  <1>6. ws = [v \in Windows |-> IF v = mainWindow THEN told(v) ELSE left[v]]
    BY DEF Lifecycle!NetworkPublished
  <1>7. \A v \in Windows : SameWindow(left[v], left[v])
    BY DEF SameWindow
  <1> HIDE DEF told
  <1>8. /\ ws \in [Windows -> PageWindows] /\ ws[w] = gone
        /\ \A v \in Windows \ {w} : SameWindow(window[v], ws[v])
        /\ mainWindow \in Windows => ws[mainWindow] = told(mainWindow)
    BY <1>3, <1>4, <1>5, <1>6, <1>7
  <1> HIDE DEF ws
  <1>9. /\ window' \in [Windows -> PageWindows] /\ window'[w] = gone
        /\ \A v \in Windows \ {w} : SameWindow(window[v], window'[v])
    BY <1>1, <1>3, <1>7, <1>8 DEF ws
  <1>10. networkState' \in Lifecycle!NetworkStates
    BY <1>1, WindowTypes DEF Lifecycle!IdleIfMade
  <1>11. WindowType' /\ WindowsApart' /\ PagesKept' /\ FlagsKept'
    BY <1>1, <1>9, <1>10, ClosedKeeps DEF gone
  <1>12. InformedKept'
    <2> SUFFICES ASSUME mainWindow' # 0, window'[mainWindow'].page = "loaded"
                 PROVE  /\ window'[mainWindow'].auth = hostState
                        /\ window'[mainWindow'].net = networkState'
                        /\ window'[mainWindow'].shows # Lifecycle!Unmounted =>
                             /\ Lifecycle!Status(window'[mainWindow'].shows.auth)
                                    = Lifecycle!Status(hostState)
                             /\ window'[mainWindow'].shows.net = networkState'
      BY <1>1 DEF InformedKept
    <2> DEFINE m == mainWindow
    <2>1. mainWindow' = m /\ m \in Windows \ {w} /\ m # 0
      BY <1>1, WindowTypes, LifecycleAssumption
    <2>2. window[m].page = "loaded" /\ window[m].life = "open" /\ left[m] = window[m]
      BY <1>3, <1>9, <2>1 DEF SameWindow, WindowsInv, WindowsApart
    <2>3. /\ window[m].auth = hostState /\ window[m].net = networkState
          /\ window[m].shows # Lifecycle!Unmounted =>
                /\ Lifecycle!Status(window[m].shows.auth) = Lifecycle!Status(hostState)
                /\ window[m].shows.net = networkState
      BY <2>1, <2>2 DEF WindowsInv, InformedKept
    <2>4. CASE lifecycleMade.coordinator = "none"
      BY <1>1, <2>1, <2>2, <2>3, <2>4 DEF Lifecycle!IdleIfMade
    <2>5. CASE lifecycleMade.coordinator # "none"
      <3>1. Lifecycle!Listens(left[m])
        BY <2>2 DEF Lifecycle!Listens, Lifecycle!Documents
      <3>2. window'[m] = told(m) /\ networkState' = "idle"
        BY <1>1, <1>8, <2>1, <2>5 DEF ws, Lifecycle!IdleIfMade
      <3>3. told(m).shows # Lifecycle!Unmounted => left[m].shows # Lifecycle!Unmounted
        BY <1>4, <2>1 DEF SameWindow
      <3> QED
        BY <1>4, <2>1, <2>2, <2>3, <3>1, <3>2, <3>3
    <2> QED
      BY <2>4, <2>5
  <1>13. boot \notin {"theme", "protocol"}
    BY <1>1 DEF WindowsInv, QuitKept
  <1>14. /\ lifecycleMade' \in Mades /\ lifecycleMade'.runtime # "live"
         /\ lifecycleMade'.coordinator # "running"
    BY <1>1, RuntimeTypes, MadeStates
  <1>15. generation' \in Nat /\ init.generation < generation'
    BY <1>1, RuntimeTypes
  <1>16. RuntimeType' /\ QuitKept'
    BY <1>1, <1>13, <1>14, <1>15, RuntimeTypes
       DEF WindowsInv, RuntimeType, QuitKept, Mades, Globals
  <1> QED
    BY <1>11, <1>12, <1>16 DEF WindowsInv

LEMMA WindowsInit == Lifecycle!LifecycleInit => WindowsInv
  <1> SUFFICES ASSUME Lifecycle!LifecycleInit PROVE WindowsInv
    OBVIOUS
  <1> USE DEF Lifecycle!LifecycleInit
  <1>1. /\ "starting" \in Sessions /\ "idle" \in Lifecycle!NetworkStates
        /\ lifecycleTrouble.outcomes \subseteq Sessions
    BY DEF Sessions, Lifecycle!NetworkStates, Lifecycle!WorkspaceNetworkStates
  <1>2. /\ Lifecycle!NoWindow \in PageWindows /\ Lifecycle!NoWindow.life = "new"
        /\ ~Lifecycle!NoWindow.visible /\ ~Lifecycle!NoWindow.mail
        /\ Lifecycle!NoWindow.shows = Lifecycle!Unmounted /\ ~Lifecycle!NoWindow.sent
    BY <1>1 DEF Lifecycle!NoWindow, Lifecycle!Unmounted, PageWindows, Presentations
  <1>3. WindowType
    BY <1>1, <1>2 DEF WindowType, Lifecycle!NotReady, Lifecycle!Hidden
  <1>4. RuntimeType
    BY DEF RuntimeType, Lifecycle!NotMade, Lifecycle!Off
  <1>5. QuitKept
    BY <1>2 DEF QuitKept, Lifecycle!Off
  <1>6. PagesKept
    BY <1>2 DEF PagesKept
  <1>7. WindowsApart /\ FlagsKept /\ InformedKept
    BY DEF WindowsApart, FlagsKept, InformedKept, Lifecycle!NotReady
  <1> QED
    BY <1>3, <1>4, <1>5, <1>6, <1>7 DEF WindowsInv

LEMMA WindowsNext == WindowsInv /\ [Lifecycle!LifecycleNext]_lifecycleVars => WindowsInv'
  <1> SUFFICES ASSUME WindowsInv, [Lifecycle!LifecycleNext]_lifecycleVars PROVE WindowsInv'
    OBVIOUS
  <1>1. CASE Lifecycle!ThemeRead \/ Lifecycle!Launch \/ Lifecycle!LaunchFails
    BY <1>1, ThemeReadKeeps, LaunchKeeps, QuitsKeeps
  <1>2. ASSUME NEW w \in Windows,
               \/ Lifecycle!Commit(w) \/ Lifecycle!DomReady(w) \/ Lifecycle!FinishLoad(w)
               \/ Lifecycle!ReadyToShow(w) \/ Lifecycle!Mount(w) \/ Lifecycle!Present(w)
               \/ Lifecycle!accept(w) \/ Lifecycle!NavigateInPage(w)
               \/ Lifecycle!Reload(w) \/ Lifecycle!NavigationFails(w)
               \/ Lifecycle!RenderProcessGone(w)
               \/ Lifecycle!Close(w) \/ Lifecycle!LoadFails(w)
        PROVE  WindowsInv'
    BY <1>2, DocumentKeeps, DomReadyKeeps, FinishLoadKeeps, ReadyToShowKeeps, MountKeeps,
       PresentKeeps, AcceptKeeps, NavigateInPageKeeps, LeavesKeeps, CloseKeeps, LoadFailsKeeps
  <1>3. CASE Lifecycle!revealWindow \/ Lifecycle!Enrolled \/ Lifecycle!EnrollFails
             \/ Lifecycle!RestoreFails \/ Lifecycle!Cleared \/ Lifecycle!ClearFails
    BY <1>3, RevealKeeps, EnrolledKeeps, StartFailsKeeps, ClearedKeeps
  <1>4. ASSUME NEW a \in lifecycleTrouble.outcomes,
               Lifecycle!Restored(a) \/ Lifecycle!SessionChanges(a)
        PROVE  WindowsInv'
    BY <1>4, SessionKeeps
  <1>5. ASSUME NEW n \in Lifecycle!NetworkStates \ {"idle"}, Lifecycle!NetworkChanges(n)
        PROVE  WindowsInv'
    BY <1>5, NetworkChangesKeeps
  <1>6. CASE Lifecycle!Activate \/ Lifecycle!Activated \/ Lifecycle!Quit
             \/ Lifecycle!WindowAllClosed \/ Lifecycle!FilesInvalidated
    BY <1>6, ActivateKeeps, ActivatedKeeps, QuitsKeeps, FilesInvalidatedKeeps
  <1>7. CASE UNCHANGED lifecycleVars
    <2>1. /\ UNCHANGED <<window, mainWindow, tracker, flags, hostState, networkState>>
          /\ UNCHANGED <<boot, activating, init, generation, lifecycleMade, global, quit>>
          /\ UNCHANGED lifecycleTrouble
      BY <1>7 DEF lifecycleVars
    <2> QED
      BY <2>1, StillKeeps, RestKeeps DEF WindowsInv
  <1> QED
    BY <1>1, <1>2, <1>3, <1>4, <1>5, <1>6, <1>7 DEF Lifecycle!LifecycleNext

LEMMA WindowsSafe ==
  ASSUME WindowsInv
  PROVE  /\ Lifecycle!QuitTakesAll /\ Lifecycle!ShownInTime /\ Lifecycle!PageInformed
  <1>1. Lifecycle!QuitTakesAll
    BY DEF WindowsInv, QuitKept, Lifecycle!QuitTakesAll
  <1>2. Lifecycle!ShownInTime
    <2>1. \A w \in Windows : window[w].visible => window[w].presented
      BY DEF WindowsInv, PagesKept
    <2>2. ASSUME mainWindow # 0, ~window[mainWindow].crowded,
                 window[mainWindow].page \in {"dom", "loaded"}, window[mainWindow].painted,
                 window[mainWindow].sent, ~window[mainWindow].mail
          PROVE  window[mainWindow].visible
      BY <2>2 DEF WindowsInv, FlagsKept
    <2> QED
      BY <2>1, <2>2 DEF Lifecycle!ShownInTime
  <1>3. Lifecycle!PageInformed
    BY DEF WindowsInv, InformedKept, FlagsKept, Lifecycle!PageInformed
  <1> QED
    BY <1>1, <1>2, <1>3

=============================================================================
