------------------------------ MODULE Rendezvous ------------------------------
(***************************************************************************)
(* The rendezvous ("ID") server of crates/ra-rendezvous: liveness of the   *)
(* hosts, the challenge a client must fetch before it may ask to pair, the *)
(* queue that carries a pair request to the host's agent, and the slot     *)
(* that carries the agent's answer back.                                   *)
(*                                                                         *)
(* Every action is one critical section of the store's lock, or one step   *)
(* of a handler between two of them; the handlers that release the lock    *)
(* and go on (challenge after gc, the two long polls) keep a program       *)
(* counter.  Instants are values of clock.  Requests refused before they   *)
(* change anything are stuttering steps and have no action.  Who may claim *)
(* an id and what survives in the state file is the matter of Registry.    *)
(***************************************************************************)
EXTENDS Integers, Sequences, FiniteSets

CONSTANTS
    Id,                   \* host ids
    Req,                  \* request ids, each drawn at most once (random_hex(16))
    Result,               \* what an agent may answer to a request
    Caller,               \* concurrent calls of `challenge`
    Poller,               \* concurrent long polls of host agents
    Strays,               \* hosts that also post results out of turn: for requests
                          \* of others, or once more for their own
    None,                 \* Option::None
    OfflineAfter, ChallengeTTL, ResultTTL, RateWindow, ChallengesPerMinute,
    MaxLongPoll,          \* the longest wait of a long poll
    MaxClock              \* bound: the clock stops here

Challenge == [host : Id, created : Nat]
ResultSlot == [result : Result \cup {None}, created : Nat]

ASSUME DurationAssumption ==
    /\ OfflineAfter \in Nat /\ ChallengeTTL \in Nat /\ ResultTTL \in Nat
    /\ RateWindow \in Nat /\ MaxLongPoll \in Nat /\ MaxClock \in Nat

ASSUME RateAssumption == ChallengesPerMinute \in Nat \ {0}

ASSUME StrayAssumption == Strays \subseteq Id

ASSUME NoneAssumption ==
    None \notin Id \cup Nat \cup Result \cup Challenge \cup ResultSlot

VARIABLES
    clock,                \* Instant::now()
    hosts,                \* Store.hosts: the registered ids
    lastSeen,             \* HostRecord.last_seen
    pending,              \* HostRuntime.pending
    challengeTimes,       \* HostRuntime.challenge_times
    challenges,           \* Store.challenges
    results,              \* Store.results
    calls,                \* `challenge` calls between gc and the second lock
    hostPoll,             \* poll_pair_requests calls in flight
    clientPoll,           \* poll_pair_result call in flight on each request
    inbox,                \* requests an agent has received and not yet answered
    life,                 \* history of each request id, for the properties; the
                          \* actions read only which ids are drawn and accepted
    grants                \* history: grant times since the server started

server == <<hosts, lastSeen, pending, challengeTimes, challenges, results>>
handlers == <<calls, hostPoll, clientPoll>>
history == <<life, grants>>
vars == <<clock, server, handlers, inbox, history>>

-----------------------------------------------------------------------------
IdlePoll == [phase |-> "idle", id |-> None, until |-> 0]
IdleClientPoll == [phase |-> "idle", until |-> 0]

\* A request id nobody has drawn yet.  "stage" is the furthest the request
\* got: issued, then consumed by a refused or by an accepted submission, then
\* drained from its queue by a poll.  "since" is when it was issued or
\* accepted; "void" says that a restart has forgotten it.  "answer" is what the
\* agent it was handed to answered, "seen" what the client was told last, and
\* "disputed" says that somebody has posted a result for it out of turn.
Unborn == [host |-> None, stage |-> "unborn", since |-> 0,
           answer |-> None, seen |-> None, void |-> FALSE, disputed |-> FALSE]

Init ==
    /\ clock = 0
    /\ hosts = {}
    /\ lastSeen = [h \in Id |-> None]
    /\ pending = [h \in Id |-> <<>>]
    /\ challengeTimes = [h \in Id |-> <<>>]
    /\ challenges = [r \in Req |-> None]
    /\ results = [r \in Req |-> None]
    /\ calls = [c \in Caller |-> None]
    /\ hostPoll = [p \in Poller |-> IdlePoll]
    /\ clientPoll = [r \in Req |-> IdleClientPoll]
    /\ inbox = [h \in Id |-> <<>>]
    /\ life = [r \in Req |-> Unborn]
    /\ grants = [h \in Id |-> <<>>]

Elements(s) == {s[i] : i \in 1..Len(s)}

-----------------------------------------------------------------------------
(* Registration and heartbeats.                                            *)

\* register: a new host, or a known one that came back.
Register(h) ==
    /\ hosts' = hosts \cup {h}
    /\ lastSeen' = [lastSeen EXCEPT ![h] = clock]
    /\ UNCHANGED <<clock, pending, challengeTimes, challenges, results,
                   handlers, inbox, history>>

\* heartbeat: authorize, then refresh last_seen.
Heartbeat(h) ==
    /\ h \in hosts
    /\ lastSeen' = [lastSeen EXCEPT ![h] = clock]
    /\ UNCHANGED <<clock, hosts, pending, challengeTimes, challenges, results,
                   handlers, inbox, history>>

\* The test host_info reports as "online" and submit_pair insists on.
Online(h) ==
    /\ h \in hosts
    /\ lastSeen[h] # None
    /\ clock - lastSeen[h] < OfflineAfter

-----------------------------------------------------------------------------
(* Challenges: `challenge` runs gc under one lock and grants under another.*)

\* Mutated forms, here and below, are named Bug...: a plausible slip in the code
\* that the properties must notice.  The specification never uses them.
BugChallengeCutShort(c) == c # None /\ clock - c.created + 1 < ChallengeTTL
BugAnsweredSlotDropped(s) ==
    s # None /\ s.result = None /\ clock - s.created < ResultTTL

LiveChallenge(c) == c # None /\ clock - c.created < ChallengeTTL
LiveSlot(s) == s # None /\ clock - s.created < ResultTTL

ChallengeGc(c, h) ==
    /\ calls[c] = None
    /\ calls' = [calls EXCEPT ![c] = h]
    /\ challenges' = [r \in Req |->
            IF LiveChallenge(challenges[r]) THEN challenges[r] ELSE None]
    /\ results' = [r \in Req |->
            IF LiveSlot(results[r]) THEN results[r] ELSE None]
    /\ UNCHANGED <<clock, hosts, lastSeen, pending, challengeTimes,
                   hostPoll, clientPoll, inbox, history>>

BugInclusiveWindow(t) == clock - t >= RateWindow

\* "Older than 60 s" is strict.
OutOfWindow(t) == clock - t > RateWindow

\* The `while ... pop_front()` loop: k entries go, the front stays in window.
Popped(s, k) ==
    /\ \A i \in 1..k : OutOfWindow(s[i])
    /\ k < Len(s) => ~OutOfWindow(s[k + 1])

\* 404: the host is not (or no longer) registered.
ChallengeUnknownHost(c) ==
    /\ calls[c] # None
    /\ calls[c] \notin hosts
    /\ calls' = [calls EXCEPT ![c] = None]
    /\ UNCHANGED <<clock, server, hostPoll, clientPoll, inbox, history>>

\* 429: the window is full; the expired entries are popped all the same.
ChallengeLimited(c, k) ==
    /\ calls[c] \in hosts
    /\ LET h == calls[c]
           recent == SubSeq(challengeTimes[h], k + 1, Len(challengeTimes[h]))
       IN  /\ Popped(challengeTimes[h], k)
           /\ Len(recent) >= ChallengesPerMinute
           /\ challengeTimes' = [challengeTimes EXCEPT ![h] = recent]
    /\ calls' = [calls EXCEPT ![c] = None]
    /\ UNCHANGED <<clock, hosts, lastSeen, pending, challenges, results,
                   hostPoll, clientPoll, inbox, history>>

ChallengeGrant(c, k, r) ==
    /\ calls[c] \in hosts
    /\ life[r].stage = "unborn"
    /\ LET h == calls[c]
           recent == SubSeq(challengeTimes[h], k + 1, Len(challengeTimes[h]))
       IN  /\ Popped(challengeTimes[h], k)
           /\ Len(recent) < ChallengesPerMinute
           /\ challengeTimes' = [challengeTimes EXCEPT ![h] = Append(recent, clock)]
           /\ challenges' = [challenges EXCEPT ![r] = [host |-> h, created |-> clock]]
           /\ life' = [life EXCEPT ![r] =
                 [Unborn EXCEPT !.host = h, !.stage = "issued", !.since = clock]]
           /\ grants' = [grants EXCEPT ![h] = Append(@, clock)]
    /\ calls' = [calls EXCEPT ![c] = None]
    /\ UNCHANGED <<clock, hosts, lastSeen, pending, results,
                   hostPoll, clientPoll, inbox>>

-----------------------------------------------------------------------------
(* submit_pair: the challenge is removed first, whatever is found next.    *)

BugReusableChallenge(r) == challenges
Consumed(r) == [challenges EXCEPT ![r] = None]

BugAnyHost(h, r) ==
    /\ clock - challenges[r].created < ChallengeTTL
    /\ Online(h)

\* 202 rather than 400 (other host), 410 (expired) or 503 (offline).
Acceptable(h, r) ==
    /\ challenges[r].host = h
    /\ clock - challenges[r].created < ChallengeTTL
    /\ Online(h)

SubmitRefused(h, r) ==
    /\ challenges[r] # None
    /\ ~Acceptable(h, r)
    /\ challenges' = Consumed(r)
    /\ life' = [life EXCEPT ![r].stage = "refused", ![r].since = 0]
    /\ UNCHANGED <<clock, hosts, lastSeen, pending, challengeTimes, results,
                   handlers, inbox, grants>>

\* notify_waiters: only the polls that already wait are woken.
WokenHostPolls(h) ==
    [p \in Poller |-> IF hostPoll[p].phase = "wait" /\ hostPoll[p].id = h
                        THEN [hostPoll[p] EXCEPT !.phase = "enter"]
                        ELSE hostPoll[p]]

SubmitAccepted(h, r) ==
    /\ challenges[r] # None
    /\ Acceptable(h, r)
    /\ challenges' = Consumed(r)
    /\ results' = [results EXCEPT ![r] = [result |-> None, created |-> clock]]
    /\ pending' = [pending EXCEPT ![h] = Append(@, r)]
    /\ hostPoll' = WokenHostPolls(h)
    /\ life' = [life EXCEPT ![r].stage = "accepted", ![r].since = clock]
    /\ UNCHANGED <<clock, hosts, lastSeen, challengeTimes, calls, clientPoll,
                   inbox, grants>>

-----------------------------------------------------------------------------
(* poll_pair_requests.  "enter": about to take the lock; "gap": the lock is*)
(* released and the Notified future not yet created, so a notify_waiters   *)
(* now is lost; "wait": inside timeout(remaining, notified()).             *)

PollStart(p, h, wait) ==
    /\ hostPoll[p].phase = "idle"
    /\ clock + wait <= MaxClock
    /\ hostPoll' = [hostPoll EXCEPT ![p] =
            [phase |-> "enter", id |-> h, until |-> clock + wait]]
    /\ UNCHANGED <<clock, server, calls, clientPoll, inbox, history>>

PollUnknownHost(p) ==
    /\ hostPoll[p].phase = "enter"
    /\ hostPoll[p].id \notin hosts
    /\ hostPoll' = [hostPoll EXCEPT ![p] = IdlePoll]
    /\ UNCHANGED <<clock, server, calls, clientPoll, inbox, history>>

BugPeeked(h) == pending
BugTaken(h) == [pending EXCEPT ![h] = None]

\* The queue after a poll answered with all of it.
Drained(h) == [pending EXCEPT ![h] = <<>>]

\* The handler answers with the whole queue.  The reply reaches the agent,
\* or is lost with the connection.
PollDeliver(p, arrives) ==
    /\ hostPoll[p].phase = "enter"
    /\ hostPoll[p].id \in hosts
    /\ LET h == hostPoll[p].id IN
       /\ pending[h] # <<>>
       /\ lastSeen' = [lastSeen EXCEPT ![h] = clock]
       /\ pending' = Drained(h)
       /\ inbox' = IF arrives THEN [inbox EXCEPT ![h] = @ \o pending[h]] ELSE inbox
       /\ life' = [r \in Req |->
              IF r \in Elements(pending[h])
                THEN [life[r] EXCEPT !.stage = "drained"] ELSE life[r]]
    /\ hostPoll' = [hostPoll EXCEPT ![p] = IdlePoll]
    /\ UNCHANGED <<clock, hosts, challengeTimes, challenges, results, calls,
                   clientPoll, grants>>

PollEmpty(p) ==
    /\ hostPoll[p].phase = "enter"
    /\ hostPoll[p].id \in hosts
    /\ pending[hostPoll[p].id] = <<>>
    /\ lastSeen' = [lastSeen EXCEPT ![hostPoll[p].id] = clock]
    /\ hostPoll' = [hostPoll EXCEPT ![p].phase = "gap"]
    /\ UNCHANGED <<clock, hosts, pending, challengeTimes, challenges, results,
                   calls, clientPoll, inbox, history>>

\* Out of the lock: answer [] if the deadline has passed, else start waiting.
PollArm(p) ==
    /\ hostPoll[p].phase = "gap"
    /\ hostPoll' = [hostPoll EXCEPT ![p] =
            IF clock >= hostPoll[p].until THEN IdlePoll
            ELSE [hostPoll[p] EXCEPT !.phase = "wait"]]
    /\ UNCHANGED <<clock, server, calls, clientPoll, inbox, history>>

BugNoTimeout(poll) == poll

\* Where a wait that timed out goes on: back to the head of the loop, to look
\* once more before it answers.
AfterTimeout(poll) == [poll EXCEPT !.phase = "enter"]

PollTimeout(p) ==
    /\ hostPoll[p].phase = "wait"
    /\ clock >= hostPoll[p].until
    /\ hostPoll' = [hostPoll EXCEPT ![p] = AfterTimeout(hostPoll[p])]
    /\ UNCHANGED <<clock, server, calls, clientPoll, inbox, history>>

\* The agent hangs up: the handler is dropped at an await.
PollDropped(p) ==
    /\ hostPoll[p].phase \in {"enter", "wait"}
    /\ hostPoll' = [hostPoll EXCEPT ![p] = IdlePoll]
    /\ UNCHANGED <<clock, server, calls, clientPoll, inbox, history>>

-----------------------------------------------------------------------------
(* post_pair_result.  An agent calls it for its requests in order, ignores *)
(* a failed call and goes on to its next request.                          *)

\* The polls waiting on the answered slot.
WokenClientPolls(r) ==
    IF clientPoll[r].phase = "wait"
      THEN [clientPoll EXCEPT ![r].phase = "enter"] ELSE clientPoll

\* The handler: any registered host, any request that has a slot, whether it is
\* answered or not.
Posted(h, r, res) ==
    /\ h \in hosts
    /\ results[r] # None
    /\ results' = [results EXCEPT ![r].result = res]
    /\ clientPoll' = WokenClientPolls(r)

PostResult(h, res) ==
    /\ inbox[h] # <<>>
    /\ LET r == Head(inbox[h]) IN
       /\ Posted(h, r, res)
       /\ life' = [life EXCEPT ![r].answer = res]
    /\ inbox' = [inbox EXCEPT ![h] = Tail(@)]
    /\ UNCHANGED <<clock, hosts, lastSeen, pending, challengeTimes, challenges,
                   calls, hostPoll, grants>>

\* A result out of turn: ra-host posts none, and the handler takes it.
StrayPost(h, r, res) ==
    /\ h \in Strays
    /\ Posted(h, r, res)
    /\ life' = [life EXCEPT ![r].disputed = TRUE]
    /\ UNCHANGED <<clock, hosts, lastSeen, pending, challengeTimes, challenges,
                   calls, hostPoll, inbox, grants>>

\* The call fails (404, 403, network), or the agent dies with the request.
ResultLost(h) ==
    /\ inbox[h] # <<>>
    /\ inbox' = [inbox EXCEPT ![h] = Tail(@)]
    /\ UNCHANGED <<clock, server, handlers, history>>

-----------------------------------------------------------------------------
(* poll_pair_result, the client's long poll on an accepted request.        *)

ClientPollStart(r, wait) ==
    /\ clientPoll[r].phase = "idle"
    /\ life[r].stage \in {"accepted", "drained"}
    /\ clock + wait <= MaxClock
    /\ clientPoll' = [clientPoll EXCEPT ![r] =
            [phase |-> "enter", until |-> clock + wait]]
    /\ UNCHANGED <<clock, server, calls, hostPoll, inbox, history>>

\* 404 once the slot is gone.
ClientPollUnknown(r) ==
    /\ clientPoll[r].phase = "enter"
    /\ results[r] = None
    /\ clientPoll' = [clientPoll EXCEPT ![r] = IdleClientPoll]
    /\ UNCHANGED <<clock, server, calls, hostPoll, inbox, history>>

ClientPollAnswer(r) ==
    /\ clientPoll[r].phase = "enter"
    /\ results[r] # None
    /\ results[r].result # None
    /\ life' = [life EXCEPT ![r].seen = results[r].result]
    /\ clientPoll' = [clientPoll EXCEPT ![r] = IdleClientPoll]
    /\ UNCHANGED <<clock, server, calls, hostPoll, inbox, grants>>

ClientPollEmpty(r) ==
    /\ clientPoll[r].phase = "enter"
    /\ results[r] # None
    /\ results[r].result = None
    /\ clientPoll' = [clientPoll EXCEPT ![r].phase = "gap"]
    /\ UNCHANGED <<clock, server, calls, hostPoll, inbox, history>>

ClientPollArm(r) ==
    /\ clientPoll[r].phase = "gap"
    /\ clientPoll' = [clientPoll EXCEPT ![r] =
            IF clock >= clientPoll[r].until THEN IdleClientPoll
            ELSE [clientPoll[r] EXCEPT !.phase = "wait"]]
    /\ UNCHANGED <<clock, server, calls, hostPoll, inbox, history>>

ClientPollTimeout(r) ==
    /\ clientPoll[r].phase = "wait"
    /\ clock >= clientPoll[r].until
    /\ clientPoll' = [clientPoll EXCEPT ![r] = AfterTimeout(clientPoll[r])]
    /\ UNCHANGED <<clock, server, calls, hostPoll, inbox, history>>

ClientPollDropped(r) ==
    /\ clientPoll[r].phase \in {"enter", "wait"}
    /\ clientPoll' = [clientPoll EXCEPT ![r] = IdleClientPoll]
    /\ UNCHANGED <<clock, server, calls, hostPoll, inbox, history>>

-----------------------------------------------------------------------------
Tick ==
    /\ clock < MaxClock
    /\ clock' = clock + 1
    /\ UNCHANGED <<server, handlers, inbox, history>>

\* The server stops and starts again: the hosts the state file holds come
\* back, nothing else does.  Agents keep what they have received.
Restart(kept) ==
    /\ kept \subseteq hosts
    /\ hosts' = kept
    /\ lastSeen' = [h \in Id |-> None]
    /\ pending' = [h \in Id |-> <<>>]
    /\ challengeTimes' = [h \in Id |-> <<>>]
    /\ challenges' = [r \in Req |-> None]
    /\ results' = [r \in Req |-> None]
    /\ calls' = [c \in Caller |-> None]
    /\ hostPoll' = [p \in Poller |-> IdlePoll]
    /\ clientPoll' = [r \in Req |-> IdleClientPoll]
    /\ life' = [r \in Req |-> IF life[r].stage = "unborn" THEN life[r]
                               ELSE [life[r] EXCEPT !.void = TRUE, !.since = 0]]
    /\ grants' = [h \in Id |-> <<>>]
    /\ UNCHANGED <<clock, inbox>>

ChallengeStep(c) ==
    \/ \E h \in Id : ChallengeGc(c, h)
    \/ ChallengeUnknownHost(c)
    \/ \E h \in Id : \E k \in 0..Len(challengeTimes[h]) :
          /\ calls[c] = h
          /\ \/ ChallengeLimited(c, k)
             \/ \E r \in Req : ChallengeGrant(c, k, r)

\* The rest of a host's poll, once started: up to the server alone.
PollStep(p) ==
    \/ PollUnknownHost(p)
    \/ \E arrives \in BOOLEAN : PollDeliver(p, arrives)
    \/ PollEmpty(p)
    \/ PollArm(p)
    \/ PollTimeout(p)

ClientPollStep(r) ==
    \/ ClientPollUnknown(r)
    \/ ClientPollAnswer(r)
    \/ ClientPollEmpty(r)
    \/ ClientPollArm(r)
    \/ ClientPollTimeout(r)

Next ==
    \/ \E h \in Id : Register(h) \/ Heartbeat(h)
    \/ \E c \in Caller : ChallengeStep(c)
    \/ \E h \in Id, r \in Req : SubmitRefused(h, r) \/ SubmitAccepted(h, r)
    \/ \E p \in Poller, h \in Id, wait \in {0, MaxLongPoll} : PollStart(p, h, wait)
    \/ \E p \in Poller : PollStep(p) \/ PollDropped(p)
    \/ \E h \in Id : ResultLost(h) \/ \E res \in Result : PostResult(h, res)
    \/ \E h \in Id, r \in Req, res \in Result : StrayPost(h, r, res)
    \/ \E r \in Req, wait \in {0, MaxLongPoll} : ClientPollStart(r, wait)
    \/ \E r \in Req : ClientPollStep(r) \/ ClientPollDropped(r)
    \/ Tick
    \/ \E kept \in SUBSET Id : Restart(kept)

Spec == Init /\ [][Next]_vars

-----------------------------------------------------------------------------
(* Properties.                                                             *)

HostPoll ==
    [phase : {"idle", "enter", "gap", "wait"}, id : Id \cup {None}, until : Nat]
ClientPoll == [phase : {"idle", "enter", "gap", "wait"}, until : Nat]
Life ==
    [host : Id \cup {None},
     stage : {"unborn", "issued", "refused", "accepted", "drained"}, since : Nat,
     answer : Result \cup {None}, seen : Result \cup {None}, void : BOOLEAN,
     disputed : BOOLEAN]

\* Every variable keeps its type.
TypeOK ==
    /\ clock \in Nat
    /\ hosts \in SUBSET Id
    /\ lastSeen \in [Id -> Nat \cup {None}]
    /\ pending \in [Id -> Seq(Req)]
    /\ challengeTimes \in [Id -> Seq(Nat)]
    /\ challenges \in [Req -> Challenge \cup {None}]
    /\ results \in [Req -> ResultSlot \cup {None}]
    /\ calls \in [Caller -> Id \cup {None}]
    /\ hostPoll \in [Poller -> HostPoll]
    /\ clientPoll \in [Req -> ClientPoll]
    /\ inbox \in [Id -> Seq(Req)]
    /\ life \in [Req -> Life]
    /\ grants \in [Id -> Seq(Nat)]

\* At most once: a request is an unused challenge, or one entry of one queue,
\* or one entry of what an agent has received, and never two of these.
NoRepeats(q) ==
    \A g, h \in Id : \A i \in 1..Len(q[g]), j \in 1..Len(q[h]) :
        q[g][i] = q[h][j] => g = h /\ i = j

RequestInOnePlace ==
    /\ \A h \in Id : \A i \in 1..Len(pending[h]) : challenges[pending[h][i]] = None
    /\ \A h \in Id : \A i \in 1..Len(inbox[h]) : challenges[inbox[h][i]] = None
    /\ \A g, h \in Id : \A i \in 1..Len(pending[g]), j \in 1..Len(inbox[h]) :
          pending[g][i] # inbox[h][j]
    /\ NoRepeats(pending)
    /\ NoRepeats(inbox)

\* A request waits for, and reaches, only the host its challenge was issued
\* for, however the client mixed up ids and requests on the way.
RoutedToItsHost ==
    /\ \A h \in Id : \A i \in 1..Len(pending[h]) : life[pending[h][i]].host = h
    /\ \A h \in Id : \A i \in 1..Len(inbox[h]) : life[inbox[h][i]].host = h

\* ttl_secs is honoured: while a challenge that was neither submitted nor
\* forgotten by a restart is younger than its ttl, the server still knows it,
\* whatever gc other calls have run.
UnusedChallengeKept ==
    \A r \in Req :
        /\ life[r].stage = "issued" /\ ~life[r].void
        /\ clock - life[r].since < ChallengeTTL
        => challenges[r] # None

\* An accepted request has a slot to be answered in and asked about for as
\* long as RESULT_TTL_SECS says.
AcceptedSlotKept ==
    \A r \in Req :
        /\ life[r].stage \in {"accepted", "drained"} /\ ~life[r].void
        /\ clock - life[r].since < ResultTTL
        => results[r] # None

\* What a client is told is what the agent answered that was handed the request,
\* and an agent answers nothing it was not handed: as long as nobody posts a
\* result for this very request out of turn, whatever is posted for others.
SeenIsTheAnswer ==
    \A r \in Req :
        /\ life[r].seen # None /\ ~life[r].disputed => life[r].seen = life[r].answer
        /\ life[r].answer # None => life[r].stage = "drained"

\* The handler overwrites a result that is there.  No agent makes it do so, over
\* lost replies, restarts and repeated polls: a result in its slot changes only
\* when one is posted out of turn, so a client that polls twice is told the same
\* thing twice.
AnswerIsFinal ==
    [][\A r \in Req :
        /\ results[r] # None /\ results[r].result # None
        /\ results'[r] # None /\ results'[r].result # results[r].result
        => life'[r].disputed]_vars

\* No window of the length of RateWindow ever holds more than
\* CHALLENGES_PER_MINUTE grants for one host, counted over everything the
\* server granted since it started and not only what its deque still holds.
RateLimited ==
    \A h \in Id : \A i \in 1..Len(grants[h]) :
        i + ChallengesPerMinute <= Len(grants[h])
        => grants[h][i + ChallengesPerMinute] - grants[h][i] > RateWindow

-----------------------------------------------------------------------------
(* Fairness: the runtime keeps driving a handler, an agent (agent.rs) and a*)
(* client (session.rs) that got an empty reply poll again, a connection    *)
(* does not fail every single time, and time passes.                       *)
Fairness ==
    /\ WF_vars(Tick)
    /\ \A p \in Poller :
          /\ WF_vars(PollStep(p))
          /\ \A h \in Id : SF_vars(PollStart(p, h, 0) \/ PollStart(p, h, MaxLongPoll))
          /\ SF_vars(\E arrives \in BOOLEAN : PollDeliver(p, arrives))
    /\ \A r \in Req :
          /\ WF_vars(ClientPollStep(r))
          /\ WF_vars(ClientPollStart(r, 0) \/ ClientPollStart(r, MaxLongPoll))
          /\ SF_vars(ClientPollAnswer(r))

FairSpec == Spec /\ Fairness

\* A wakeup lost between the unlock and notified() delays a request, it does
\* not strand it: every queued request leaves its queue.
QueuedIsDrained ==
    \A r \in Req : (\E h \in Id : r \in Elements(pending[h]))
        ~> (\A h \in Id : r \notin Elements(pending[h]))

\* The same for the answer: a client that keeps polling is told it, unless
\* the slot is collected or lost in a restart first.
AnswerIsSeen ==
    \A r \in Req : (results[r] # None /\ life[r].answer # None)
        ~> (life[r].seen # None \/ results[r] = None)
=============================================================================
