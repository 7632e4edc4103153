----------------------------- MODULE AgentLoop -----------------------------
(***************************************************************************)
(* The host agent's loop (Agent::run and Agent::register of crates/ra-host)*)
(* against the clock by which the rendezvous server decides whether the    *)
(* host is online.  The loop is one task: while it handles a request it    *)
(* neither polls nor sends heartbeats.                                     *)
(*                                                                         *)
(* Time passes in ticks, and only in an await: "left" is what the current  *)
(* one may still take.  A sleep takes all of it, a call any part of it.    *)
(***************************************************************************)
EXTENDS Naturals

CONSTANTS
    TickSecs,           \* seconds in a tick
    OfflineAfter,       \* OFFLINE_AFTER_SECS of the server, in ticks, as below
    HeartbeatEvery, PollWait, HttpTimeout, PairMax, ErrorPause, RetryPause,
    MaxBatch,           \* bound: requests in the reply to one poll
    MaxLost             \* bound: calls lost in a row

ASSUME LoopAssumption ==
    /\ TickSecs \in Nat \ {0} /\ OfflineAfter \in Nat \ {0}
    /\ PollWait \in Nat /\ HttpTimeout \in Nat /\ PollWait <= HttpTimeout
    /\ HeartbeatEvery \in Nat /\ PairMax \in Nat
    /\ ErrorPause \in Nat /\ RetryPause \in Nat /\ RetryPause <= ErrorPause
    /\ MaxBatch \in Nat /\ MaxLost \in Nat

VARIABLES
    pc, left,           \* where the loop is, and what its await may still take
    sinceBeat,          \* last_heartbeat.elapsed(), up to HeartbeatEvery
    batch,              \* requests of the last poll still to be handled
    failures,           \* Agent.failures, up to 6: more makes no difference
    known,              \* the server has a record of the host
    age,                \* ticks since the server's last_seen, up to OfflineAfter
    lost,               \* calls lost since the server last heard of the host
    excuse              \* history: why it may not have heard for long

vars == <<pc, left, sinceBeat, batch, failures, known, age, lost, excuse>>

Smaller(a, b) == IF a < b THEN a ELSE b

\* The agent has registered; its loop begins.
Init ==
    /\ pc = "poll" /\ left = 0
    /\ sinceBeat = 0 /\ batch = 0 /\ failures = 0
    /\ known = TRUE /\ age = 0 /\ lost = 0
    /\ excuse = "none"

\* The server hears of the host.
Heard == age' = 0 /\ lost' = 0 /\ excuse' = "none"
\* The same, from an agent that has yet to get back to its poll.
HeardInRecovery == age' = 0 /\ lost' = 0 /\ UNCHANGED excuse
\* The same, but the reply is lost, which is as bad as a lost call.
HeardUnanswered == MaxLost > 0 /\ age' = 0 /\ lost' = 1 /\ excuse' = "none"
NotHeard == UNCHANGED <<age, lost, excuse>>
Missed == lost < MaxLost /\ lost' = lost + 1 /\ UNCHANGED <<age, excuse>>

Goto(next, wait) == pc' = next /\ left' = wait

BugNoTimeout == 3 * HttpTimeout
\* How long the HTTP client waits for a reply.
CallTimeout == HttpTimeout

-----------------------------------------------------------------------------
(* The long poll.                                                          *)

PollSent ==
    /\ pc = "poll"
    /\ \/ known /\ Goto("polling", PollWait) /\ Heard
       \/ ~known /\ Goto("refused", CallTimeout) /\ NotHeard
       \/ Goto("lost", CallTimeout) /\ Missed
    /\ UNCHANGED <<sinceBeat, batch, failures, known>>

\* The server answers, at the end of the wait or with requests.
PollReplied ==
    /\ pc = "polling" /\ known
    /\ \E n \in 0..MaxBatch :
          /\ n = 0 => left = 0
          /\ batch' = n
          /\ age' = 0 /\ lost' = 0
          /\ excuse' = IF n = 0 THEN "none" ELSE "busy"
    /\ Goto("deal", 0)
    /\ UNCHANGED <<sinceBeat, failures, known>>

\* The connection breaks, or the reply never comes and the call times out.
PollReplyLost ==
    /\ pc = "polling"
    /\ Goto("lost", CallTimeout - (PollWait - left))
    /\ Missed
    /\ UNCHANGED <<sinceBeat, batch, failures, known>>

\* No reply, or one of an unexpected status.
CallFailed ==
    /\ pc = "lost"
    /\ Goto("pause", ErrorPause) \/ Goto("pause", RetryPause)
    /\ UNCHANGED <<sinceBeat, batch, failures, known, age, lost, excuse>>

-----------------------------------------------------------------------------
(* The requests of a batch, one after the other.                           *)

BugUncapped(n) == (2 ^ Smaller(n, 6) + TickSecs - 1) \div TickSecs
\* 2^failures seconds, at most 60, in whole ticks.
Delay(n) == (Smaller(2 ^ Smaller(n, 6), 60) + TickSecs - 1) \div TickSecs

DealWrongPassword ==
    /\ pc = "deal" /\ batch > 0
    /\ failures' = Smaller(failures + 1, 6)
    /\ Goto("backoff", Delay(failures + 1))
    /\ NotHeard
    /\ UNCHANGED <<sinceBeat, batch, known>>

DealRightPassword ==
    /\ pc = "deal" /\ batch > 0
    /\ failures' = 0
    /\ Goto("pairing", PairMax)
    /\ NotHeard
    /\ UNCHANGED <<sinceBeat, batch, known>>

Dealt ==
    /\ \/ pc = "backoff" /\ left = 0
       \/ pc = "pairing"
    /\ Goto("posting", CallTimeout)
    /\ NotHeard
    /\ UNCHANGED <<sinceBeat, batch, failures, known>>

\* The result is posted, or not: the agent does not look.  The server does
\* not take it for a sign of life.
Posted ==
    /\ pc = "posting"
    /\ Goto("deal", 0)
    /\ batch' = batch - 1
    /\ NotHeard
    /\ UNCHANGED <<sinceBeat, failures, known>>

-----------------------------------------------------------------------------
(* 404, and the rest of the loop's body.                                   *)

BugOnlyPauses == "pause"
\* 404 and 403: register again.
AfterRefusal == "register"

Refused ==
    /\ pc = "refused"
    /\ Goto(AfterRefusal, 0)
    /\ NotHeard
    /\ UNCHANGED <<sinceBeat, batch, failures, known>>

\* The first pass of register.
RegisterSent ==
    /\ pc = "register"
    /\ Goto("registering", CallTimeout)
    /\ UNCHANGED <<sinceBeat, batch, failures>>

RegisterHeard == RegisterSent /\ known' = TRUE /\ HeardInRecovery
RegisterMissed == RegisterSent /\ UNCHANGED known /\ Missed

\* With a reply, the second pass, which tells the observed address as a
\* heartbeat does.
Advertise(wait) ==
    /\ pc = "registering"
    /\ Goto("advertising", wait)
    /\ UNCHANGED <<sinceBeat, batch, failures, known>>

AdvertiseHeard == Advertise(CallTimeout) /\ known /\ HeardInRecovery
AdvertiseRefused == Advertise(0) /\ ~known /\ NotHeard
AdvertiseMissed == Advertise(CallTimeout) /\ Missed

\* Registered or not, the loop pauses: register failed, there was no address
\* to tell, or it is told, whatever came of it.
Reregistered ==
    /\ pc \in {"registering", "advertising"}
    /\ Goto("pause", RetryPause)
    /\ NotHeard
    /\ UNCHANGED <<sinceBeat, batch, failures, known>>

BugNeverDue == FALSE
BeatDue == sinceBeat >= HeartbeatEvery

Check ==
    /\ \/ pc = "deal" /\ batch = 0
       \/ pc = "pause" /\ left = 0
    /\ Goto(IF BeatDue THEN "beat" ELSE "poll", 0)
    /\ NotHeard
    /\ UNCHANGED <<sinceBeat, batch, failures, known>>

BeatSent(wait) ==
    /\ pc = "beat"
    /\ Goto("beating", wait)
    /\ UNCHANGED <<sinceBeat, batch, failures, known>>

BeatHeard == BeatSent(0) /\ known /\ Heard
BeatRefused == BeatSent(0) /\ ~known /\ NotHeard
BeatUnanswered == BeatSent(CallTimeout) /\ known /\ HeardUnanswered
BeatMissed == BeatSent(CallTimeout) /\ Missed

\* The heartbeat has an answer or an error; both count as sent.
Beaten ==
    /\ pc = "beating"
    /\ sinceBeat' = 0
    /\ Goto("poll", 0)
    /\ NotHeard
    /\ UNCHANGED <<batch, failures, known>>

-----------------------------------------------------------------------------
Tick ==
    /\ left > 0
    /\ left' = left - 1
    /\ sinceBeat' = Smaller(sinceBeat + 1, HeartbeatEvery)
    /\ age' = Smaller(age + 1, OfflineAfter)
    /\ UNCHANGED <<pc, batch, failures, known, lost, excuse>>

\* The server restarts: with the host in its file, but never seen, or without.
\* A poll in flight breaks.
ServerRestarts ==
    /\ known' \in {FALSE, known}
    /\ age' = OfflineAfter
    /\ excuse' = "restart"
    /\ IF pc = "polling" THEN Goto("lost", CallTimeout - (PollWait - left))
       ELSE UNCHANGED <<pc, left>>
    /\ UNCHANGED <<sinceBeat, batch, failures, lost>>

\* Steps that say nothing of the host's addresses.
PlainStep ==
    \/ PollSent \/ PollReplied \/ PollReplyLost \/ CallFailed
    \/ DealWrongPassword \/ DealRightPassword \/ Dealt \/ Posted
    \/ Refused \/ Check

AgentStep ==
    \/ PlainStep
    \/ RegisterHeard \/ RegisterMissed
    \/ AdvertiseHeard \/ AdvertiseRefused \/ AdvertiseMissed \/ Reregistered
    \/ BeatHeard \/ BeatRefused \/ BeatUnanswered \/ BeatMissed \/ Beaten

Next == AgentStep \/ Tick \/ ServerRestarts

Spec == Init /\ [][Next]_vars

-----------------------------------------------------------------------------
(* Properties.                                                             *)

Online == known /\ age < OfflineAfter

\* Every variable keeps its type, and a backoff stays within its minute.
TypeOK ==
    /\ pc \in {"poll", "polling", "lost", "pause", "deal", "backoff", "pairing",
               "posting", "refused", "register", "registering", "advertising",
               "beat", "beating"}
    /\ left \in Nat
    /\ pc = "backoff" => (left - 1) * TickSecs < 60
    /\ sinceBeat \in 0..HeartbeatEvery
    /\ batch \in 0..MaxBatch
    /\ failures \in 0..6
    /\ known \in BOOLEAN
    /\ age \in 0..OfflineAfter
    /\ lost \in 0..MaxLost
    /\ excuse \in {"none", "busy", "restart"}

\* The calls that may be lost in a row, each with its timeout and the pause after
\* it, fit into OFFLINE_AFTER_SECS, as a poll does.
WithinBudget ==
    /\ PollWait < OfflineAfter
    /\ MaxLost * (HttpTimeout + ErrorPause) < OfflineAfter

\* Losing a call is no reason to look offline: poll, timeout, pause and
\* heartbeat fit into OFFLINE_AFTER_SECS, in whatever phase the loss hits.
LostCallIsHarmless == age >= OfflineAfter => excuse # "none"

-----------------------------------------------------------------------------
(* Time passes, and the runtime goes on with a task whose await is over.   *)
Fairness == WF_vars(Tick) /\ WF_vars(AgentStep)

FairSpec == Spec /\ Fairness

\* A host that dropped out, because the agent was busy or because the server
\* restarted and has even lost its file, comes back by itself.
ComesBack == ~Online ~> Online
=============================================================================
