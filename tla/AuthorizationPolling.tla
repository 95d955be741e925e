------------------------ MODULE AuthorizationPolling ------------------------
(***************************************************************************)
(* The pace of polling for an authorization: the loop of pollAuthorization *)
(* (desktop/src/auth/device-auth-client.mjs) against the gate of           *)
(* enforce_poll_gate (api/src/domains/device_sessions.rs), which pushes a  *)
(* client that comes early further back each time.                         *)
(*                                                                         *)
(* Time is in half seconds, because the server stores whole seconds only:  *)
(* what it stores is cut down.  Requests and answers take any time, the    *)
(* program may be stopped and started, and the authorization is pending    *)
(* throughout.                                                             *)
(***************************************************************************)
EXTENDS Integers

CONSTANTS
    Interval,    \* poll_interval_seconds
    Lifetime,    \* the authorization's, in seconds
    Horizon,     \* bound: the last instant, in half seconds
    MaxRestarts  \* bound

VARIABLES
    clock,
    gate,        \* next_poll_at, in half seconds
    poll,        \* the client's loop: [at, until, delay, answer]
    expires,     \* when the client takes the authorization to end
    stray,       \* requests of stopped clients that are still on their way
    slowed,      \* history: slow_down answers in a row
    restarts

pollVars == <<clock, gate, poll, expires, stray, slowed, restarts>>

\* timestamp(): whole seconds
Cut(t) == (t \div 2) * 2
Larger(a, b) == IF a > b THEN a ELSE b
Smaller(a, b) == IF a < b THEN a ELSE b

TypeOK ==
    /\ clock \in 0 .. Horizon
    /\ gate \in Nat
    /\ poll \in [at : {"sleep", "sent", "answered", "off", "over"},
                 until : Nat, delay : Nat, answer : Nat]
    /\ expires \in Nat /\ slowed \in Nat
    /\ restarts \in 0 .. MaxRestarts /\ stray \in 0 .. restarts

\* Asleep for d seconds, but not beyond the end.
Asleep(t, d) ==
    [at |-> "sleep", delay |-> d, answer |-> 0,
     until |-> t + Smaller(2 * d, Larger(0, expires - t))]

\* The authorization was opened at instant 0 or 1, and the client was told so
\* at some later instant.
PollInit ==
    /\ clock \in 0 .. 2
    /\ gate = 0
    /\ expires = clock + 2 * Lifetime
    /\ poll = Asleep(clock, Interval)
    /\ stray = 0 /\ slowed = 0 /\ restarts = 0

Tick ==
    /\ clock < Horizon
    /\ clock' = clock + 1
    /\ UNCHANGED <<gate, poll, expires, stray, slowed, restarts>>

\* The sleep is over: another exchange, or the end.
Wake ==
    /\ poll.at = "sleep" /\ poll.until <= clock
    /\ poll' = [poll EXCEPT !.at = IF clock >= expires THEN "over" ELSE "sent"]
    /\ UNCHANGED <<clock, gate, expires, stray, slowed, restarts>>

Early == gate > clock
\* The next poll is due an interval on, and another one later when this one
\* was early.
NextGate == IF Early THEN gate + 2 * Interval ELSE Cut(clock + 2 * Interval)
RetryAfter ==
    IF Early THEN Larger(1, (gate - clock) \div 2) + Interval ELSE Interval

\* enforce_poll_gate: authorization_pending, or slow_down.
Serve ==
    /\ poll.at = "sent"
    /\ poll' = [poll EXCEPT !.at = "answered", !.answer = RetryAfter]
    /\ gate' = NextGate
    /\ slowed' = IF Early THEN slowed + 1 ELSE 0
    /\ UNCHANGED <<clock, expires, stray, restarts>>

ServeStray ==
    /\ stray > 0
    /\ stray' = stray - 1
    /\ gate' = NextGate
    /\ UNCHANGED <<clock, poll, expires, slowed, restarts>>

\* mutant: the time the request took counts as waiting
AnsweredBehind ==
    /\ poll.at = "answered"
    /\ poll' = [Asleep(clock, Larger(poll.delay, poll.answer)) EXCEPT
                  !.until = poll.until + 2 * Larger(poll.delay, poll.answer)]
    /\ UNCHANGED <<clock, gate, expires, stray, slowed, restarts>>

\* authorization_pending or slow_down: never sooner than told.
Answered ==
    /\ poll.at = "answered"
    /\ poll' = Asleep(clock, Larger(poll.delay, poll.answer))
    /\ UNCHANGED <<clock, gate, expires, stray, slowed, restarts>>

\* Stopped, and started again with what was written down: the interval the
\* authorization began with, and its end.
StopPolling ==
    /\ poll.at \in {"sleep", "sent", "answered"} /\ restarts < MaxRestarts
    /\ poll' = [poll EXCEPT !.at = "off", !.answer = 0, !.until = 0]
    /\ restarts' = restarts + 1
    /\ stray' = IF poll.at = "sent" THEN stray + 1 ELSE stray
    /\ slowed' = 0
    /\ UNCHANGED <<clock, gate, expires>>

ResumePolling ==
    /\ poll.at = "off"
    /\ poll' = IF clock < expires THEN Asleep(clock, Interval)
               ELSE [poll EXCEPT !.at = "over"]
    /\ UNCHANGED <<clock, gate, expires, stray, slowed, restarts>>

PollNext == Tick \/ Wake \/ Serve \/ ServeStray \/ Answered \/ StopPolling
            \/ ResumePolling

PollSpec == PollInit /\ [][PollNext]_pollVars

-----------------------------------------------------------------------------
\* A desktop that was not started again is never told to slow down.  Started
\* again it may be, because a request from before arrived late; it keeps to
\* what it is told and is served again: each start costs it two answers of that
\* kind in a row at most, although each early poll pushes the next one back and
\* the server's whole seconds cut what it tells.
SoonServed == slowed <= 2 * restarts
=============================================================================
