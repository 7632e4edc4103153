-------------------------- MODULE RendezvousProofs --------------------------
(***************************************************************************)
(* What the rendezvous server guarantees for every number of hosts,        *)
(* requests, callers and polls, and every value of its time limits: at most*)
(* so many challenges a minute, and requests that are in one place, are    *)
(* handed over at most once, only to the agent of the host that the        *)
(* challenge was issued for, have one answer, and are not forgotten while  *)
(* somebody still may come for them, whatever restarts.                    *)
(***************************************************************************)
EXTENDS Rendezvous, SequenceTheorems, TLAPS

-----------------------------------------------------------------------------
(* Type correctness.                                                       *)

\* The history of a request is one of the histories Life describes, however
\* a handler updates it.
LEMMA UnbornType == Unborn \in Life
  BY DEF Unborn, Life

LEMMA InitType == Init => TypeOK
  <1> SUFFICES ASSUME Init PROVE TypeOK
    OBVIOUS
  <1>1. \A S : <<>> \in Seq(S)
    BY EmptySeq
  <1>2. IdlePoll \in HostPoll /\ IdleClientPoll \in ClientPoll
    BY DEF IdlePoll, IdleClientPoll, HostPoll, ClientPoll
  <1> QED BY <1>1, <1>2, UnbornType DEF Init, TypeOK

\* What is left of the deque when its leading entries are popped.
LEMMA PoppedType ==
    ASSUME NEW s \in Seq(Nat), NEW k \in 0..Len(s)
    PROVE  /\ SubSeq(s, k + 1, Len(s)) \in Seq(Nat)
           /\ Len(SubSeq(s, k + 1, Len(s))) = Len(s) - k
           /\ \A i \in 1..(Len(s) - k) : SubSeq(s, k + 1, Len(s))[i] = s[k + i]
  <1>1. \A i \in (k + 1)..Len(s) : s[i] \in Nat
    BY ElementOfSeq
  <1>2. Len(s) \in Nat
    BY LenProperties
  <1> QED BY <1>1, <1>2, SubSeqProperties

LEMMA NextType == TypeOK /\ [Next]_vars => TypeOK'
  <1> SUFFICES ASSUME TypeOK, [Next]_vars PROVE TypeOK'
    OBVIOUS
  <1> USE DurationAssumption DEF server, handlers, history
  <1>1. ASSUME NEW h \in Id, Register(h) \/ Heartbeat(h) PROVE TypeOK'
    BY <1>1 DEF TypeOK, Register, Heartbeat
  <1>2. ASSUME NEW c \in Caller, NEW h \in Id, ChallengeGc(c, h) PROVE TypeOK'
    BY <1>2 DEF TypeOK, ChallengeGc
  <1>3. ASSUME NEW c \in Caller, ChallengeUnknownHost(c) PROVE TypeOK'
    BY <1>3 DEF TypeOK, ChallengeUnknownHost
  <1>4. ASSUME NEW c \in Caller, NEW k \in 0..Len(challengeTimes[calls[c]]), NEW h \in Id,
               calls[c] = h, ChallengeLimited(c, k)
        PROVE  TypeOK'
    <2>1. SubSeq(challengeTimes[h], k + 1, Len(challengeTimes[h])) \in Seq(Nat)
      BY <1>4, PoppedType DEF TypeOK
    <2> QED BY <1>4, <2>1 DEF TypeOK, ChallengeLimited
  <1>5. ASSUME NEW c \in Caller, NEW k \in 0..Len(challengeTimes[calls[c]]), NEW h \in Id,
               NEW r \in Req, calls[c] = h, ChallengeGrant(c, k, r)
        PROVE  TypeOK'
    <2>1. Append(SubSeq(challengeTimes[h], k + 1, Len(challengeTimes[h])), clock) \in Seq(Nat)
      BY <1>5, PoppedType, AppendProperties DEF TypeOK
    <2>2. [Unborn EXCEPT !.host = h, !.stage = "issued", !.since = clock] \in Life
      BY DEF TypeOK, Unborn, Life
    <2>3. Append(grants[h], clock) \in Seq(Nat)
      BY AppendProperties DEF TypeOK
    <2>4. [host |-> h, created |-> clock] \in Challenge
      BY DEF TypeOK, Challenge
    <2> QED BY <1>5, <2>1, <2>2, <2>3, <2>4 DEF TypeOK, ChallengeGrant
  <1>6. ASSUME NEW h \in Id, NEW r \in Req, SubmitRefused(h, r) PROVE TypeOK'
    <2>1. [life[r] EXCEPT !.stage = "refused", !.since = 0] \in Life
      BY DEF TypeOK, Life
    <2> QED BY <1>6, <2>1 DEF TypeOK, SubmitRefused, Consumed
  <1>7. ASSUME NEW h \in Id, NEW r \in Req, SubmitAccepted(h, r) PROVE TypeOK'
    <2>1. [life[r] EXCEPT !.stage = "accepted", !.since = clock] \in Life
      BY DEF TypeOK, Life
    <2>2. Append(pending[h], r) \in Seq(Req)
      BY AppendProperties DEF TypeOK
    <2>3. [result |-> None, created |-> clock] \in ResultSlot
      BY DEF TypeOK, ResultSlot
    <2>4. WokenHostPolls(h) \in [Poller -> HostPoll]
      <3>1. \A p \in Poller : [hostPoll[p] EXCEPT !.phase = "enter"] \in HostPoll
        BY DEF TypeOK, HostPoll
      <3> QED BY <3>1 DEF TypeOK, WokenHostPolls
    <2> QED BY <1>7, <2>1, <2>2, <2>3, <2>4 DEF TypeOK, SubmitAccepted, Consumed
  <1>8. ASSUME NEW p \in Poller, NEW h \in Id, NEW wait \in {0, MaxLongPoll},
               PollStart(p, h, wait)
        PROVE  TypeOK'
    BY <1>8 DEF TypeOK, PollStart, HostPoll
  <1>9. ASSUME NEW p \in Poller, NEW arrives \in BOOLEAN, PollDeliver(p, arrives)
        PROVE  TypeOK'
    <2> DEFINE h == hostPoll[p].id
    <2>1. h \in Id
      BY <1>9 DEF PollDeliver, TypeOK
    <2>2. inbox[h] \o pending[h] \in Seq(Req)
      BY <2>1, ConcatProperties DEF TypeOK
    <2>3. inbox' \in [Id -> Seq(Req)]
      BY <1>9, <2>1, <2>2 DEF PollDeliver, TypeOK
    <2>4. \A r \in Req : [life[r] EXCEPT !.stage = "drained"] \in Life
      BY DEF TypeOK, Life
    <2>5. life' \in [Req -> Life]
      BY <1>9, <2>4 DEF PollDeliver, TypeOK
    <2>6. pending' \in [Id -> Seq(Req)]
      <3>1. <<>> \in Seq(Req)
        BY EmptySeq
      <3> QED BY <1>9, <2>1, <3>1 DEF PollDeliver, Drained, TypeOK
    <2>7. hostPoll' \in [Poller -> HostPoll]
      BY <1>9 DEF PollDeliver, IdlePoll, HostPoll, TypeOK
    <2>8. lastSeen' \in [Id -> Nat \cup {None}]
      BY <1>9 DEF PollDeliver, TypeOK
    <2> QED BY <1>9, <2>3, <2>5, <2>6, <2>7, <2>8 DEF TypeOK, PollDeliver
  <1>10. ASSUME NEW p \in Poller, PollUnknownHost(p) \/ PollEmpty(p) PROVE TypeOK'
    <2>1. hostPoll' \in [Poller -> HostPoll]
      <3>1. IdlePoll \in HostPoll /\ [hostPoll[p] EXCEPT !.phase = "gap"] \in HostPoll
        BY DEF TypeOK, IdlePoll, HostPoll
      <3> QED BY <1>10, <3>1 DEF TypeOK, PollUnknownHost, PollEmpty
    <2>2. lastSeen' \in [Id -> Nat \cup {None}]
      BY <1>10 DEF TypeOK, PollUnknownHost, PollEmpty
    <2> QED BY <1>10, <2>1, <2>2 DEF TypeOK, PollUnknownHost, PollEmpty
  <1>11. ASSUME NEW p \in Poller, PollArm(p) \/ PollTimeout(p) \/ PollDropped(p)
         PROVE  TypeOK'
    <2>1. /\ IdlePoll \in HostPoll
          /\ [hostPoll[p] EXCEPT !.phase = "wait"] \in HostPoll
          /\ AfterTimeout(hostPoll[p]) \in HostPoll
      BY DEF TypeOK, IdlePoll, AfterTimeout, HostPoll
    <2>2. hostPoll' \in [Poller -> HostPoll]
      BY <1>11, <2>1 DEF TypeOK, PollArm, PollTimeout, PollDropped
    <2> QED BY <1>11, <2>2 DEF TypeOK, PollArm, PollTimeout, PollDropped
  <1>P. ASSUME NEW h \in Id, NEW r \in Req, NEW res \in Result, Posted(h, r, res)
        PROVE  /\ clientPoll' \in [Req -> ClientPoll]
               /\ results' \in [Req -> ResultSlot \cup {None}]
    <2>1. [results[r] EXCEPT !.result = res] \in ResultSlot
      BY <1>P DEF Posted, TypeOK, ResultSlot
    <2>2. clientPoll' \in [Req -> ClientPoll]
      BY <1>P DEF Posted, WokenClientPolls, TypeOK, ClientPoll
    <2> QED BY <1>P, <2>1, <2>2 DEF Posted, TypeOK
  <1>12. ASSUME NEW h \in Id, NEW res \in Result, PostResult(h, res) PROVE TypeOK'
    <2> DEFINE r == Head(inbox[h])
    <2>1. r \in Req /\ Tail(inbox[h]) \in Seq(Req)
      BY <1>12, HeadTailProperties DEF PostResult, TypeOK
    <2>2. [life[r] EXCEPT !.answer = res] \in Life
      BY <2>1 DEF TypeOK, Life
    <2>3. Posted(h, r, res)
      BY <1>12 DEF PostResult
    <2>4. clientPoll' \in [Req -> ClientPoll] /\ results' \in [Req -> ResultSlot \cup {None}]
      BY <1>P, <2>1, <2>3
    <2>5. life' \in [Req -> Life]
      BY <1>12, <2>1, <2>2 DEF PostResult, TypeOK
    <2> QED BY <1>12, <2>1, <2>4, <2>5 DEF TypeOK, PostResult
  <1>S. ASSUME NEW h \in Id, NEW r \in Req, NEW res \in Result, StrayPost(h, r, res)
        PROVE  TypeOK'
    <2>1. [life[r] EXCEPT !.disputed = TRUE] \in Life
      BY DEF TypeOK, Life
    <2>2. clientPoll' \in [Req -> ClientPoll] /\ results' \in [Req -> ResultSlot \cup {None}]
      BY <1>P, <1>S DEF StrayPost
    <2> QED BY <1>S, <2>1, <2>2 DEF TypeOK, StrayPost
  <1>13. ASSUME NEW h \in Id, ResultLost(h) PROVE TypeOK'
    BY <1>13, HeadTailProperties DEF TypeOK, ResultLost
  <1>14. ASSUME NEW r \in Req, NEW wait \in {0, MaxLongPoll}, ClientPollStart(r, wait)
         PROVE  TypeOK'
    BY <1>14 DEF TypeOK, ClientPollStart, ClientPoll
  <1>15. ASSUME NEW r \in Req, ClientPollAnswer(r) PROVE TypeOK'
    <2>1. [life[r] EXCEPT !.seen = results[r].result] \in Life
      <3>1. results[r].result \in Result \cup {None}
        BY <1>15 DEF ClientPollAnswer, TypeOK, ResultSlot
      <3> QED BY <3>1 DEF TypeOK, Life
    <2> QED BY <1>15, <2>1 DEF TypeOK, ClientPollAnswer, IdleClientPoll, ClientPoll
  <1>16. ASSUME NEW r \in Req,
                ClientPollUnknown(r) \/ ClientPollEmpty(r) \/ ClientPollDropped(r)
         PROVE  TypeOK'
    <2>1. /\ IdleClientPoll \in ClientPoll
          /\ [clientPoll[r] EXCEPT !.phase = "gap"] \in ClientPoll
      BY DEF TypeOK, IdleClientPoll, ClientPoll
    <2>2. clientPoll' \in [Req -> ClientPoll]
      BY <1>16, <2>1 DEF TypeOK, ClientPollUnknown, ClientPollEmpty, ClientPollDropped
    <2> QED BY <1>16, <2>2
            DEF TypeOK, ClientPollUnknown, ClientPollEmpty, ClientPollDropped
  <1>17. ASSUME NEW r \in Req, ClientPollArm(r) \/ ClientPollTimeout(r) PROVE TypeOK'
    <2>1. /\ IdleClientPoll \in ClientPoll
          /\ [clientPoll[r] EXCEPT !.phase = "wait"] \in ClientPoll
          /\ AfterTimeout(clientPoll[r]) \in ClientPoll
      BY DEF TypeOK, IdleClientPoll, AfterTimeout, ClientPoll
    <2>2. clientPoll' \in [Req -> ClientPoll]
      BY <1>17, <2>1 DEF TypeOK, ClientPollArm, ClientPollTimeout
    <2> QED BY <1>17, <2>2 DEF TypeOK, ClientPollArm, ClientPollTimeout
  <1>18. ASSUME Tick PROVE TypeOK'
    BY <1>18 DEF TypeOK, Tick
  <1>19. ASSUME NEW kept \in SUBSET Id, Restart(kept) PROVE TypeOK'
    <2>1. \A S : <<>> \in Seq(S)
      BY EmptySeq
    <2>2. \A r \in Req : [life[r] EXCEPT !.void = TRUE, !.since = 0] \in Life
      BY DEF TypeOK, Life
    <2>3. life' \in [Req -> Life]
      BY <1>19, <2>2 DEF Restart, TypeOK
    <2> QED BY <1>19, <2>1, <2>3
            DEF TypeOK, Restart, IdlePoll, IdleClientPoll, HostPoll, ClientPoll
  <1>20. CASE UNCHANGED vars
    BY <1>20 DEF TypeOK, vars
  <1> QED BY <1>1, <1>2, <1>3, <1>4, <1>5, <1>6, <1>7, <1>8, <1>9, <1>10, <1>11,
             <1>12, <1>S, <1>13, <1>14, <1>15, <1>16, <1>17, <1>18, <1>19, <1>20
          DEF Next, ChallengeStep, PollStep, ClientPollStep

\* Every variable of the server keeps its type.
THEOREM TypeCorrect == Spec => []TypeOK
  BY InitType, NextType, PTL DEF Spec

-----------------------------------------------------------------------------
(* The rate limit.  The deque challenge keeps is only the recent end of the*)
(* grants ever made, so RateLimited is not inductive: it needs that what   *)
(* has been popped is older than the window, now and for ever.             *)

\* s is the recent end of g.
EndOf(s, g) ==
    /\ Len(s) <= Len(g)
    /\ \A i \in 1..Len(s) : s[i] = g[Len(g) - Len(s) + i]

\* The first n entries of g are out of the window.
Stale(g, n) == \A i \in 1..n : OutOfWindow(g[i])

Past(g) == \A i \in 1..Len(g) : g[i] <= clock

Spaced(g) ==
    \A i \in 1..Len(g) : i + ChallengesPerMinute <= Len(g)
        => g[i + ChallengesPerMinute] - g[i] > RateWindow

\* The deque s and all grants g of one host.
Window(s, g) ==
    EndOf(s, g) /\ Stale(g, Len(g) - Len(s)) /\ Past(g) /\ Spaced(g)

WindowInv == \A h \in Id : Window(challengeTimes[h], grants[h])

LEMMA WindowIsRateLimited == WindowInv => RateLimited
  BY DEF WindowInv, Window, Spaced, RateLimited

\* Popping the stale front of the deque keeps Window.
LEMMA PoppedWindow ==
    ASSUME NEW s \in Seq(Nat), NEW g \in Seq(Nat), NEW k \in 0..Len(s),
           Window(s, g), Popped(s, k)
    PROVE  Window(SubSeq(s, k + 1, Len(s)), g)
  <1> DEFINE t == SubSeq(s, k + 1, Len(s))
  <1>1. Len(s) \in Nat /\ Len(g) \in Nat /\ Len(s) <= Len(g)
    BY LenProperties DEF Window, EndOf
  <1>2. Len(t) = Len(s) - k /\ \A i \in 1..(Len(s) - k) : t[i] = s[k + i]
    BY PoppedType
  <1> HIDE DEF t
  <1>3. Len(t) \in Nat /\ Len(t) <= Len(g) /\ k \in Nat
    BY <1>1, <1>2
  <1>4. ASSUME NEW i \in 1..Len(t) PROVE t[i] = g[Len(g) - Len(t) + i]
    <2>1. t[i] = s[k + i] /\ k + i \in 1..Len(s)
      BY <1>1, <1>2, <1>3
    <2>2. s[k + i] = g[Len(g) - Len(s) + (k + i)]
      BY <2>1 DEF Window, EndOf
    <2>3. Len(g) - Len(s) + (k + i) = Len(g) - Len(t) + i
      BY <1>1, <1>2, <1>3
    <2> QED BY <2>1, <2>2, <2>3
  <1>5. ASSUME NEW i \in 1..(Len(g) - Len(t)) PROVE OutOfWindow(g[i])
    <2>1. CASE i <= Len(g) - Len(s)
      <3>1. i \in 1..(Len(g) - Len(s))
        BY <1>1, <1>3, <2>1
      <3> QED BY <3>1 DEF Window, Stale
    <2>2. CASE ~(i <= Len(g) - Len(s))
      <3> DEFINE j == i - (Len(g) - Len(s))
      <3>1. j \in 1..k /\ i = Len(g) - Len(s) + j
        BY <1>1, <1>2, <1>3, <2>2
      <3>2. j \in 1..Len(s)
        BY <1>1, <3>1
      <3>3. OutOfWindow(s[j]) /\ s[j] = g[Len(g) - Len(s) + j]
        BY <3>1, <3>2 DEF Popped, Window, EndOf
      <3> QED BY <3>1, <3>3
    <2> QED BY <2>1, <2>2
  <1> QED BY <1>3, <1>4, <1>5 DEF t, Window, EndOf, Stale

\* Granting, with fewer than ChallengesPerMinute entries left, keeps Window.
LEMMA GrantedWindow ==
    ASSUME NEW t \in Seq(Nat), NEW g \in Seq(Nat), clock \in Nat,
           Window(t, g), Len(t) < ChallengesPerMinute
    PROVE  Window(Append(t, clock), Append(g, clock))
  <1> DEFINE u == Append(t, clock)
             v == Append(g, clock)
  <1>1. /\ Len(t) \in Nat /\ Len(g) \in Nat /\ Len(t) <= Len(g)
        /\ ChallengesPerMinute \in Nat \ {0}
    BY LenProperties, RateAssumption DEF Window, EndOf
  <1>2. Len(u) = Len(t) + 1 /\ u[Len(t) + 1] = clock /\ \A i \in 1..Len(t) : u[i] = t[i]
    BY AppendProperties
  <1>3. Len(v) = Len(g) + 1 /\ v[Len(g) + 1] = clock /\ \A i \in 1..Len(g) : v[i] = g[i]
    BY AppendProperties
  <1> HIDE DEF u, v
  <1>4. EndOf(u, v)
    <2>1. ASSUME NEW i \in 1..Len(u) PROVE u[i] = v[Len(v) - Len(u) + i]
      <3>1. Len(v) - Len(u) + i = Len(g) - Len(t) + i
        BY <1>1, <1>2, <1>3
      <3>2. CASE i = Len(t) + 1
        BY <1>1, <1>2, <1>3, <3>1, <3>2
      <3>3. CASE i # Len(t) + 1
        <4>1. i \in 1..Len(t) /\ Len(g) - Len(t) + i \in 1..Len(g)
          BY <1>1, <1>2, <3>3
        <4>2. t[i] = g[Len(g) - Len(t) + i]
          BY <4>1 DEF Window, EndOf
        <4> QED BY <1>2, <1>3, <3>1, <4>1, <4>2
      <3> QED BY <3>2, <3>3
    <2> QED BY <1>1, <1>2, <1>3, <2>1 DEF EndOf
  <1>5. Stale(v, Len(v) - Len(u))
    <2> SUFFICES ASSUME NEW i \in 1..(Len(v) - Len(u)) PROVE OutOfWindow(v[i])
      BY DEF Stale
    <2>1. i \in 1..(Len(g) - Len(t)) /\ i \in 1..Len(g)
      BY <1>1, <1>2, <1>3
    <2> QED BY <1>3, <2>1 DEF Window, Stale
  <1>6. Past(v)
    <2> SUFFICES ASSUME NEW i \in 1..Len(v) PROVE v[i] <= clock
      BY DEF Past
    <2>1. CASE i \in 1..Len(g)
      BY <1>3, <2>1 DEF Window, Past
    <2>2. CASE i = Len(g) + 1
      BY <1>3, <2>2
    <2> QED BY <1>1, <1>3, <2>1, <2>2
  <1>7. Spaced(v)
    <2> SUFFICES ASSUME NEW i \in 1..Len(v), i + ChallengesPerMinute <= Len(v)
                 PROVE  v[i + ChallengesPerMinute] - v[i] > RateWindow
      BY DEF Spaced
    <2>1. i \in 1..Len(g) /\ v[i] = g[i]
      BY <1>1, <1>3
    <2>2. CASE i + ChallengesPerMinute <= Len(g)
      <3>1. i + ChallengesPerMinute \in 1..Len(g)
        BY <1>1, <2>1, <2>2
      <3> QED BY <1>3, <2>1, <2>2, <3>1 DEF Window, Spaced
    <2>3. CASE i + ChallengesPerMinute = Len(g) + 1
      <3>1. i \in 1..(Len(g) - Len(t))
        BY <1>1, <2>1, <2>3
      <3>2. clock - g[i] > RateWindow
        BY <3>1 DEF Window, Stale, OutOfWindow
      <3>3. v[i + ChallengesPerMinute] = clock
        BY <1>3, <2>3
      <3>4. v[i + ChallengesPerMinute] - v[i] = clock - g[i]
        BY <2>1, <3>3
      <3> QED BY <3>2, <3>4
    <2>4. i + ChallengesPerMinute <= Len(g) \/ i + ChallengesPerMinute = Len(g) + 1
      <3>1. i + ChallengesPerMinute <= Len(g) + 1
        BY <1>3
      <3>2. i \in Int /\ Len(g) \in Int /\ ChallengesPerMinute \in Int
        BY <1>1, <2>1
      <3> QED BY <3>1, <3>2
    <2> QED BY <2>2, <2>3, <2>4
  <1> QED BY <1>4, <1>5, <1>6, <1>7 DEF u, v, Window

LEMMA InitWindow == Init => WindowInv
  <1> SUFFICES ASSUME Init, NEW h \in Id PROVE Window(challengeTimes[h], grants[h])
    BY DEF WindowInv
  <1>1. Len(challengeTimes[h]) = 0 /\ Len(grants[h]) = 0
    BY EmptySeq DEF Init
  <1> QED BY <1>1 DEF Window, EndOf, Stale, Past, Spaced

LEMMA NextWindow == TypeOK /\ WindowInv /\ [Next]_vars => WindowInv'
  <1> SUFFICES ASSUME TypeOK, WindowInv, [Next]_vars PROVE WindowInv'
    OBVIOUS
  <1> USE DurationAssumption
  <1>1. CASE UNCHANGED <<clock, challengeTimes, grants>>
    BY <1>1 DEF WindowInv, Window, EndOf, Stale, Past, Spaced, OutOfWindow
  \* While the clock stands still, Window is a matter of the two sequences.
  <1>2. ASSUME UNCHANGED clock, NEW h \in Id, NEW s, NEW g, Window(s, g),
               challengeTimes' = [challengeTimes EXCEPT ![h] = s],
               grants' = [grants EXCEPT ![h] = g]
        PROVE  WindowInv'
    <2> SUFFICES ASSUME NEW x \in Id PROVE Window(challengeTimes[x], grants[x])'
      BY DEF WindowInv
    <2>1. Window(challengeTimes'[x], grants'[x])
      BY <1>2 DEF TypeOK, WindowInv
    <2> QED BY <1>2, <2>1 DEF Window, EndOf, Stale, Past, Spaced, OutOfWindow
  <1>3. ASSUME NEW c \in Caller, NEW h \in Id, calls[c] = h,
               NEW k \in 0..Len(challengeTimes[h]), ChallengeLimited(c, k)
        PROVE  WindowInv'
    <2> DEFINE t == SubSeq(challengeTimes[h], k + 1, Len(challengeTimes[h]))
    <2>1. Window(t, grants[h])
      BY <1>3, PoppedWindow DEF TypeOK, WindowInv, ChallengeLimited
    <2>2. /\ UNCHANGED clock /\ challengeTimes' = [challengeTimes EXCEPT ![h] = t]
          /\ grants' = [grants EXCEPT ![h] = grants[h]]
      BY <1>3 DEF ChallengeLimited, history, TypeOK
    <2> QED BY <1>2, <2>1, <2>2
  <1>4. ASSUME NEW c \in Caller, NEW h \in Id, calls[c] = h,
               NEW k \in 0..Len(challengeTimes[h]), NEW r \in Req,
               ChallengeGrant(c, k, r)
        PROVE  WindowInv'
    <2> DEFINE t == SubSeq(challengeTimes[h], k + 1, Len(challengeTimes[h]))
    <2>1. Window(t, grants[h])
      BY <1>4, PoppedWindow DEF TypeOK, WindowInv, ChallengeGrant
    <2>2. t \in Seq(Nat) /\ grants[h] \in Seq(Nat) /\ clock \in Nat
      BY PoppedType DEF TypeOK
    <2>3. /\ UNCHANGED clock /\ Len(t) < ChallengesPerMinute
          /\ challengeTimes' = [challengeTimes EXCEPT ![h] = Append(t, clock)]
          /\ grants' = [grants EXCEPT ![h] = Append(grants[h], clock)]
      BY <1>4 DEF ChallengeGrant
    <2>4. Window(Append(t, clock), Append(grants[h], clock))
      BY <2>1, <2>2, <2>3, GrantedWindow
    <2> QED BY <1>2, <2>3, <2>4
  <1>5. CASE Tick
    <2>1. /\ challengeTimes' = challengeTimes /\ grants' = grants
          /\ clock' = clock + 1 /\ clock \in Nat
      BY <1>5 DEF Tick, server, history, TypeOK
    <2> SUFFICES ASSUME NEW h \in Id PROVE Window(challengeTimes[h], grants[h])'
      BY DEF WindowInv
    <2> DEFINE s == challengeTimes[h]
               g == grants[h]
    <2>2. /\ Len(g) \in Nat /\ Len(s) \in Nat
          /\ \A i \in 1..Len(g) : g[i] \in Nat
      BY LenProperties, ElementOfSeq DEF TypeOK
    <2>3. \A i \in 1..(Len(g) - Len(s)) : i \in 1..Len(g)
      BY <2>2
    <2>4. EndOf(s, g) /\ Stale(g, Len(g) - Len(s)) /\ Past(g) /\ Spaced(g)
      BY DEF WindowInv, Window
    <2>5. s' = s /\ g' = g
      BY <2>1
    <2> HIDE DEF s, g
    <2>6. EndOf(s, g)' /\ Spaced(g)'
      BY <2>4, <2>5 DEF EndOf, Spaced
    <2>7. Stale(g, Len(g) - Len(s))'
      <3>1. Len(g)' = Len(g) /\ Len(s)' = Len(s)
        BY <2>5
      <3>2. ASSUME NEW i \in 1..(Len(g) - Len(s)) PROVE clock' - g'[i] > RateWindow
        <4>1. clock - g[i] > RateWindow
          BY <2>4 DEF Stale, OutOfWindow
        <4>2. g'[i] = g[i] /\ g[i] \in Nat
          BY <2>2, <2>3, <2>5
        <4> QED BY <2>1, <4>1, <4>2
      <3> QED BY <3>1, <3>2 DEF Stale, OutOfWindow
    <2>8. Past(g)'
      BY <2>1, <2>2, <2>4, <2>5 DEF Past
    <2> QED BY <2>6, <2>7, <2>8 DEF s, g, Window
  <1>6. ASSUME NEW kept \in SUBSET Id, Restart(kept) PROVE WindowInv'
    <2> SUFFICES ASSUME NEW h \in Id PROVE Window(challengeTimes[h], grants[h])'
      BY DEF WindowInv
    <2>1. Len(challengeTimes'[h]) = 0 /\ Len(grants'[h]) = 0
      BY <1>6, EmptySeq DEF Restart
    <2> QED BY <2>1 DEF Window, EndOf, Stale, Past, Spaced
  <1> QED
    BY <1>1, <1>3, <1>4, <1>5, <1>6
    DEF Next, vars, server, handlers, history, ChallengeStep, PollStep, ClientPollStep,
        Register, Heartbeat, ChallengeGc, ChallengeUnknownHost, SubmitRefused,
        SubmitAccepted, PollStart, PollUnknownHost, PollDeliver, PollEmpty, PollArm,
        PollTimeout, PollDropped, PostResult, StrayPost, ResultLost, ClientPollStart,
        ClientPollUnknown, ClientPollAnswer, ClientPollEmpty, ClientPollArm,
        ClientPollTimeout, ClientPollDropped

\* Between any grant and the ChallengesPerMinute-th after it, for the same
\* host and the same run of the server, more than RateWindow has passed.
THEOREM RateLimit == Spec => []RateLimited
  <1>1. Init => TypeOK /\ WindowInv
    BY InitType, InitWindow
  <1>2. TypeOK /\ WindowInv /\ [Next]_vars => (TypeOK /\ WindowInv)'
    BY NextType, NextWindow
  <1> QED BY <1>1, <1>2, WindowIsRateLimited, PTL DEF Spec

-----------------------------------------------------------------------------
(* Sequences without repetitions, as sets of elements.                     *)

Distinct(s) == \A i, j \in 1..Len(s) : s[i] = s[j] => i = j

LEMMA ElementsEmpty == Elements(<<>>) = {} /\ Distinct(<<>>)
  <1>1. Len(<<>>) = 0
    BY EmptySeq
  <1> QED BY <1>1 DEF Elements, Distinct

LEMMA ElementsAppend ==
    ASSUME NEW S, NEW s \in Seq(S), NEW e \in S
    PROVE  /\ Elements(Append(s, e)) = Elements(s) \cup {e}
           /\ Distinct(s) /\ e \notin Elements(s) => Distinct(Append(s, e))
  <1> DEFINE t == Append(s, e)
  <1>1. Len(s) \in Nat
    BY LenProperties
  <1>2. Len(t) = Len(s) + 1 /\ t[Len(s) + 1] = e /\ \A i \in 1..Len(s) : t[i] = s[i]
    BY AppendProperties
  <1> HIDE DEF t
  <1>3. 1..Len(t) = 1..Len(s) \cup {Len(s) + 1}
    BY <1>1, <1>2
  <1>4. Elements(t) = Elements(s) \cup {e}
    BY <1>2, <1>3 DEF Elements
  <1>5. ASSUME Distinct(s), e \notin Elements(s) PROVE Distinct(t)
    BY <1>2, <1>3, <1>5 DEF Elements, Distinct
  <1> QED BY <1>4, <1>5 DEF t

LEMMA ElementsConcat ==
    ASSUME NEW S, NEW s \in Seq(S), NEW t \in Seq(S)
    PROVE  /\ Elements(s \o t) = Elements(s) \cup Elements(t)
           /\ Distinct(s) /\ Distinct(t) /\ Elements(s) \cap Elements(t) = {}
                => Distinct(s \o t)
  <1> DEFINE u == s \o t
  <1>1. Len(s) \in Nat /\ Len(t) \in Nat
    BY LenProperties
  <1>2. /\ Len(u) = Len(s) + Len(t)
        /\ \A i \in 1..Len(s) + Len(t) :
              u[i] = IF i <= Len(s) THEN s[i] ELSE t[i - Len(s)]
    BY ConcatProperties
  <1> HIDE DEF u
  <1>3. \A i \in 1..Len(s) : i \in 1..Len(u) /\ u[i] = s[i]
    BY <1>1, <1>2
  <1>4. \A i \in 1..Len(t) : Len(s) + i \in 1..Len(u) /\ u[Len(s) + i] = t[i]
    <2> TAKE i \in 1..Len(t)
    <2>1. Len(s) + i \in 1..Len(s) + Len(t) /\ ~(Len(s) + i <= Len(s))
      BY <1>1
    <2>2. u[Len(s) + i] = t[Len(s) + i - Len(s)]
      BY <1>2, <2>1
    <2>3. Len(s) + i - Len(s) = i
      BY <1>1
    <2> QED BY <1>2, <2>1, <2>2, <2>3
  <1>5. \A i \in 1..Len(u) :
          \/ i \in 1..Len(s)
          \/ \E j \in 1..Len(t) : i = Len(s) + j
    <2> TAKE i \in 1..Len(u)
    <2>1. CASE i <= Len(s)
      BY <1>1, <2>1
    <2>2. CASE ~(i <= Len(s))
      <3>1. i - Len(s) \in 1..Len(t) /\ i = Len(s) + (i - Len(s))
        BY <1>1, <1>2, <2>2
      <3> QED BY <3>1
    <2> QED BY <2>1, <2>2
  <1>6. Elements(u) = Elements(s) \cup Elements(t)
    <2>1. Elements(u) \subseteq Elements(s) \cup Elements(t)
      <3> SUFFICES ASSUME NEW i \in 1..Len(u) PROVE u[i] \in Elements(s) \cup Elements(t)
        BY DEF Elements
      <3>1. CASE i \in 1..Len(s)
        BY <1>3, <3>1 DEF Elements
      <3>2. ASSUME NEW j \in 1..Len(t), i = Len(s) + j PROVE u[i] \in Elements(t)
        BY <1>4, <3>2 DEF Elements
      <3> QED BY <1>5, <3>1, <3>2
    <2>2. Elements(s) \subseteq Elements(u)
      BY <1>3 DEF Elements
    <2>3. Elements(t) \subseteq Elements(u)
      BY <1>4 DEF Elements
    <2> QED BY <2>1, <2>2, <2>3
  <1>7. ASSUME Distinct(s), Distinct(t), Elements(s) \cap Elements(t) = {},
               NEW i \in 1..Len(u), NEW j \in 1..Len(u), u[i] = u[j]
        PROVE  i = j
    <2>1. CASE i \in 1..Len(s) /\ j \in 1..Len(s)
      BY <1>3, <1>7, <2>1 DEF Distinct
    <2>2. ASSUME NEW a \in 1..Len(s), NEW b \in 1..Len(t), u[a] = u[Len(s) + b]
          PROVE  FALSE
      BY <1>3, <1>4, <1>7, <2>2 DEF Elements
    <2>3. ASSUME NEW a \in 1..Len(t), NEW b \in 1..Len(t), i = Len(s) + a, j = Len(s) + b
          PROVE  i = j
      BY <1>4, <1>7, <2>3 DEF Distinct
    <2> QED BY <1>5, <1>7, <2>1, <2>2, <2>3
  <1> QED BY <1>6, <1>7 DEF u, Distinct

LEMMA ElementsTail ==
    ASSUME NEW S, NEW s \in Seq(S), s # <<>>, Distinct(s)
    PROVE  /\ Head(s) \in Elements(s)
           /\ Elements(Tail(s)) = Elements(s) \ {Head(s)}
           /\ Distinct(Tail(s))
  <1> DEFINE t == Tail(s)
  <1>1. Len(s) \in Nat \ {0}
    BY EmptySeq
  <1>2. /\ Head(s) = s[1] /\ Len(t) = Len(s) - 1
        /\ \A i \in 1..Len(t) : t[i] = s[i + 1]
    BY HeadTailProperties
  <1> HIDE DEF t
  <1>3. \A i \in 1..Len(t) : i + 1 \in 1..Len(s) /\ i + 1 # 1
    BY <1>1, <1>2
  <1>4. \A i \in 1..Len(s) : i = 1 \/ (\E j \in 1..Len(t) : i = j + 1)
    <2> TAKE i \in 1..Len(s)
    <2>1. CASE i # 1
      <3>1. i - 1 \in 1..Len(t) /\ i = (i - 1) + 1
        BY <1>1, <1>2, <2>1
      <3> QED BY <3>1
    <2> QED BY <2>1
  <1>5. 1 \in 1..Len(s)
    BY <1>1
  <1>6. \A i \in 1..Len(t) : t[i] # Head(s)
    BY <1>2, <1>3, <1>5 DEF Distinct
  <1>7. Elements(t) = Elements(s) \ {Head(s)}
    <2>1. Elements(t) \subseteq Elements(s) \ {Head(s)}
      BY <1>2, <1>3, <1>6 DEF Elements
    <2>2. Elements(s) \ {Head(s)} \subseteq Elements(t)
      <3> SUFFICES ASSUME NEW i \in 1..Len(s), i # 1 PROVE s[i] \in Elements(t)
        BY <1>2 DEF Elements
      <3>1. PICK j \in 1..Len(t) : i = j + 1
        BY <1>4
      <3> QED BY <1>2, <3>1 DEF Elements
    <2> QED BY <2>1, <2>2
  <1>8. ASSUME NEW i \in 1..Len(t), NEW j \in 1..Len(t), t[i] = t[j] PROVE i = j
    <2>1. i + 1 = j + 1
      BY <1>2, <1>3, <1>8 DEF Distinct
    <2> QED BY <1>1, <1>2, <2>1
  <1> QED BY <1>2, <1>5, <1>7, <1>8 DEF t, Elements, Distinct

-----------------------------------------------------------------------------
(* Where a request can be, by how far it got.                              *)

Issued(r) ==
    /\ life[r].stage = "issued" /\ challenges[r].host = life[r].host
    /\ life[r].answer = None

\* r waits in the queue of h.
Waits(r, h) ==
    /\ life[r].stage = "accepted" /\ life[r].host = h
    /\ life[r].answer = None

\* The agent of h has r and has not answered it.
Handed(r, h) ==
    /\ life[r].stage = "drained" /\ life[r].host = h
    /\ life[r].answer = None

PlaceInv ==
    /\ \A r \in Req : challenges[r] # None => Issued(r)
    /\ \A h \in Id : \A r \in Elements(pending[h]) : Waits(r, h)
    /\ \A h \in Id : \A r \in Elements(inbox[h]) : Handed(r, h)
    /\ \A h \in Id : Distinct(pending[h]) /\ Distinct(inbox[h])

\* What has been answered, and what a client has seen of it, if nobody meddled.
Answered(r) ==
    /\ results[r] # None => life[r].stage \in {"accepted", "drained"}
    /\ results[r] # None /\ results[r].result # None /\ ~life[r].disputed
          => results[r].result = life[r].answer
    /\ life[r].seen # None /\ ~life[r].disputed => life[r].seen = life[r].answer
    /\ life[r].answer # None => life[r].stage = "drained"

OnceInv == PlaceInv /\ \A r \in Req : Answered(r)

LEMMA InitOnce == Init => OnceInv
  <1> SUFFICES ASSUME Init PROVE OnceInv
    OBVIOUS
  <1>1. \A h \in Id : Elements(pending[h]) = {} /\ Elements(inbox[h]) = {}
                      /\ Distinct(pending[h]) /\ Distinct(inbox[h])
    BY ElementsEmpty DEF Init
  <1> QED BY <1>1 DEF Init, Unborn, OnceInv, PlaceInv, Answered

LEMMA NextOnce == TypeOK /\ OnceInv /\ [Next]_vars => OnceInv'
  <1> SUFFICES ASSUME TypeOK, OnceInv, [Next]_vars PROVE OnceInv'
    OBVIOUS
  <1> USE NoneAssumption DEF server, handlers, history
  <1>0. \A g \in Id : \A q \in Elements(pending[g]) \cup Elements(inbox[g]) : q \in Req
    BY ElementOfSeq DEF Elements, TypeOK
  <1>1. CASE UNCHANGED <<pending, challenges, results, inbox, life>>
    BY <1>1 DEF OnceInv, PlaceInv, Issued, Waits, Handed, Answered
  <1>2. ASSUME NEW c \in Caller, NEW h \in Id, ChallengeGc(c, h) PROVE OnceInv'
    <2>1. \A r \in Req : /\ challenges'[r] \in {challenges[r], None}
                         /\ results'[r] \in {results[r], None}
      BY <1>2 DEF ChallengeGc
    <2>2. UNCHANGED <<pending, inbox, life>>
      BY <1>2 DEF ChallengeGc
    <2> QED BY <2>1, <2>2 DEF OnceInv, PlaceInv, Issued, Waits, Handed, Answered
  <1>3. ASSUME NEW c \in Caller, NEW k, NEW r \in Req, ChallengeGrant(c, k, r)
        PROVE  OnceInv'
    <2>1. /\ life[r].stage = "unborn"
          /\ challenges' = [challenges EXCEPT ![r] = [host |-> calls[c], created |-> clock]]
          /\ life' = [life EXCEPT ![r] = [Unborn EXCEPT !.host = calls[c],
                                            !.stage = "issued", !.since = clock]]
          /\ UNCHANGED <<pending, results, inbox>>
      BY <1>3 DEF ChallengeGrant
    <2>2. \A h \in Id : r \notin Elements(pending[h]) /\ r \notin Elements(inbox[h])
      BY <2>1 DEF OnceInv, PlaceInv, Waits, Handed
    <2>3. life[r].answer = None /\ results[r] = None
      BY <2>1 DEF OnceInv, Answered
    <2>4. \A q \in Req : q # r => life'[q] = life[q] /\ challenges'[q] = challenges[q]
      BY <2>1 DEF TypeOK
    <2>5. Issued(r)' /\ Answered(r)'
      BY <2>1, <2>3 DEF TypeOK, Unborn, Issued, Answered
    <2>6. PlaceInv'
      BY <2>1, <2>2, <2>4, <2>5 DEF OnceInv, PlaceInv, Issued, Waits, Handed
    <2>7. \A q \in Req : Answered(q)'
      BY <2>1, <2>4, <2>5 DEF OnceInv, Answered
    <2> QED BY <2>6, <2>7 DEF OnceInv
  <1>4. ASSUME NEW h \in Id, NEW r \in Req, SubmitRefused(h, r) PROVE OnceInv'
    <2>1. /\ challenges[r] # None
          /\ challenges' = [challenges EXCEPT ![r] = None]
          /\ life' = [life EXCEPT ![r].stage = "refused", ![r].since = 0]
          /\ UNCHANGED <<pending, results, inbox>>
      BY <1>4 DEF SubmitRefused, Consumed
    <2>2. Issued(r)
      BY <2>1 DEF OnceInv, PlaceInv
    <2>3. \A g \in Id : r \notin Elements(pending[g]) /\ r \notin Elements(inbox[g])
      BY <2>2 DEF OnceInv, PlaceInv, Issued, Waits, Handed
    <2>4. \A q \in Req : q # r => life'[q] = life[q] /\ challenges'[q] = challenges[q]
      BY <2>1 DEF TypeOK
    <2>a. results[r] = None /\ life[r].answer = None
      BY <2>2 DEF Issued, OnceInv, Answered
    <2>b. life'[r] = [life[r] EXCEPT !.stage = "refused", !.since = 0]
      BY <2>1 DEF TypeOK
    <2>c. /\ life'[r].answer = life[r].answer /\ life'[r].seen = life[r].seen
          /\ life'[r].disputed = life[r].disputed
      BY <2>b DEF TypeOK, Life
    <2>5. challenges'[r] = None /\ Answered(r)'
      BY <2>1, <2>a, <2>c DEF TypeOK, OnceInv, Answered
    <2>6. PlaceInv'
      <3>1. \A q \in Req : challenges'[q] # None => Issued(q)'
        BY <2>4, <2>5 DEF OnceInv, PlaceInv, Issued
      <3>2. \A g \in Id : \A q \in Elements(pending[g]) \cup Elements(inbox[g]) :
               life'[q] = life[q]
        BY <1>0, <2>3, <2>4
      <3>3. \A g \in Id : \A q \in Elements(pending'[g]) : Waits(q, g)'
        <4> SUFFICES ASSUME NEW g \in Id, NEW q \in Elements(pending[g]) PROVE Waits(q, g)'
          BY <2>1
        <4>1. life'[q] = life[q]
          BY <3>2
        <4> QED BY <4>1 DEF OnceInv, PlaceInv, Waits
      <3>4. \A g \in Id : \A q \in Elements(inbox'[g]) : Handed(q, g)'
        <4> SUFFICES ASSUME NEW g \in Id, NEW q \in Elements(inbox[g]) PROVE Handed(q, g)'
          BY <2>1
        <4>1. life'[q] = life[q]
          BY <3>2
        <4> QED BY <4>1 DEF OnceInv, PlaceInv, Handed
      <3>5. \A g \in Id : Distinct(pending'[g]) /\ Distinct(inbox'[g])
        BY <2>1 DEF OnceInv, PlaceInv
      <3> QED BY <3>1, <3>3, <3>4, <3>5 DEF PlaceInv
    <2>7. \A q \in Req : Answered(q)'
      BY <2>1, <2>4, <2>5 DEF OnceInv, Answered
    <2> QED BY <2>6, <2>7 DEF OnceInv
  <1>5. ASSUME NEW h \in Id, NEW r \in Req, SubmitAccepted(h, r) PROVE OnceInv'
    <2>1. /\ challenges[r] # None /\ challenges[r].host = h
          /\ challenges' = [challenges EXCEPT ![r] = None]
          /\ results' = [results EXCEPT ![r] = [result |-> None, created |-> clock]]
          /\ pending' = [pending EXCEPT ![h] = Append(@, r)]
          /\ life' = [life EXCEPT ![r].stage = "accepted", ![r].since = clock]
          /\ UNCHANGED inbox
      BY <1>5 DEF SubmitAccepted, Acceptable, Consumed
    <2>2. Issued(r)
      BY <2>1 DEF OnceInv, PlaceInv
    <2>3. \A g \in Id : r \notin Elements(pending[g]) /\ r \notin Elements(inbox[g])
      BY <2>2 DEF OnceInv, PlaceInv, Issued, Waits, Handed
    <2>4. \A q \in Req : q # r => /\ life'[q] = life[q] /\ results'[q] = results[q]
                                  /\ challenges'[q] = challenges[q]
      BY <2>1 DEF TypeOK
    <2>5. challenges'[r] = None /\ Answered(r)' /\ Waits(r, h)'
      BY <2>1, <2>2 DEF TypeOK, Life, Issued, OnceInv, Answered, Waits
    <2>6. /\ Elements(pending'[h]) = Elements(pending[h]) \cup {r}
          /\ Distinct(pending'[h])
          /\ \A g \in Id : g # h => pending'[g] = pending[g]
      BY <2>1, <2>3, ElementsAppend DEF TypeOK, OnceInv, PlaceInv
    <2>7. \A g \in Id : \A q \in Elements(pending'[g]) : Waits(q, g)'
      <3> SUFFICES ASSUME NEW g \in Id, NEW q \in Elements(pending'[g]) PROVE Waits(q, g)'
        OBVIOUS
      <3>1. CASE q = r /\ g = h
        BY <2>5, <3>1
      <3>2. CASE q \in Elements(pending[g])
        <4>1. life'[q] = life[q]
          BY <1>0, <2>3, <2>4, <3>2
        <4> QED BY <3>2, <4>1 DEF OnceInv, PlaceInv, Waits
      <3> QED BY <2>3, <2>6, <3>1, <3>2
    <2>8. PlaceInv'
      <3>1. \A q \in Req : challenges'[q] # None => Issued(q)'
        BY <2>4, <2>5 DEF OnceInv, PlaceInv, Issued
      <3>2. \A g \in Id : \A q \in Elements(inbox'[g]) : Handed(q, g)'
        <4> SUFFICES ASSUME NEW g \in Id, NEW q \in Elements(inbox[g]) PROVE Handed(q, g)'
          BY <2>1
        <4>1. life'[q] = life[q]
          BY <1>0, <2>3, <2>4
        <4> QED BY <4>1 DEF OnceInv, PlaceInv, Handed
      <3>3. \A g \in Id : Distinct(pending'[g]) /\ Distinct(inbox'[g])
        BY <2>1, <2>6 DEF OnceInv, PlaceInv
      <3> QED BY <2>7, <3>1, <3>2, <3>3 DEF PlaceInv
    <2>9. \A q \in Req : Answered(q)'
      <3> SUFFICES ASSUME NEW q \in Req, q # r PROVE Answered(q)'
        BY <2>5
      <3> QED BY <2>4 DEF OnceInv, Answered
    <2> QED BY <2>8, <2>9 DEF OnceInv
  <1>6. ASSUME NEW p \in Poller, NEW arrives \in BOOLEAN, PollDeliver(p, arrives)
        PROVE  OnceInv'
    <2>1. PICK h \in Id : h = hostPoll[p].id
      BY <1>6 DEF PollDeliver, TypeOK
    <2>2. /\ pending' = [pending EXCEPT ![h] = <<>>]
          /\ inbox' = [inbox EXCEPT ![h] = @ \o pending[h]] \/ inbox' = inbox
          /\ life' = [r \in Req |-> IF r \in Elements(pending[h])
                                      THEN [life[r] EXCEPT !.stage = "drained"]
                                      ELSE life[r]]
          /\ UNCHANGED <<challenges, results>>
      BY <1>6, <2>1 DEF PollDeliver, Drained
    <2>3. \A r \in Elements(pending[h]) : r \in Req
      BY <2>1, ElementOfSeq DEF Elements, TypeOK
    <2>4. \A r \in Elements(pending[h]) : Waits(r, h) /\ Handed(r, h)'
      <3> SUFFICES ASSUME NEW r \in Elements(pending[h]) PROVE Waits(r, h) /\ Handed(r, h)'
        OBVIOUS
      <3>1. Waits(r, h)
        BY <2>1 DEF OnceInv, PlaceInv
      <3>2. life'[r] = [life[r] EXCEPT !.stage = "drained"] /\ life[r] \in Life
        BY <2>2, <2>3 DEF TypeOK
      <3> QED BY <3>1, <3>2 DEF Waits, Handed, Life
    <2>5. \A r \in Req : r \notin Elements(pending[h]) => life'[r] = life[r]
      BY <2>2
    <2>6. \A g \in Id : g # h => pending'[g] = pending[g] /\ inbox'[g] = inbox[g]
      BY <2>2 DEF TypeOK
    <2>7. pending'[h] = <<>>
      BY <2>1, <2>2 DEF TypeOK
    <2>8. \A g \in Id : \A r \in Elements(inbox[g]) : r \notin Elements(pending[h]) /\ r \in Req
      <3>1. \A g \in Id : \A r \in Elements(inbox[g]) : r \in Req
        BY ElementOfSeq DEF Elements, TypeOK
      <3> QED BY <2>4, <3>1 DEF OnceInv, PlaceInv, Waits, Handed
    <2>9. \A g \in Id : g # h => \A r \in Elements(pending[g]) :
             r \notin Elements(pending[h]) /\ r \in Req
      <3>1. \A g \in Id : \A r \in Elements(pending[g]) : r \in Req
        BY ElementOfSeq DEF Elements, TypeOK
      <3> QED BY <2>4, <3>1 DEF OnceInv, PlaceInv, Waits
    <2>10. /\ Elements(inbox'[h]) \subseteq Elements(inbox[h]) \cup Elements(pending[h])
           /\ Distinct(inbox'[h])
      <3>1. CASE inbox' = inbox
        BY <2>1, <3>1 DEF OnceInv, PlaceInv
      <3>2. CASE inbox' = [inbox EXCEPT ![h] = @ \o pending[h]]
        <4>1. inbox'[h] = inbox[h] \o pending[h]
          BY <2>1, <3>2 DEF TypeOK
        <4>2. inbox[h] \in Seq(Req) /\ pending[h] \in Seq(Req)
          BY <2>1 DEF TypeOK
        <4>3. Distinct(inbox[h]) /\ Distinct(pending[h])
              /\ Elements(inbox[h]) \cap Elements(pending[h]) = {}
          BY <2>1, <2>8 DEF OnceInv, PlaceInv
        <4> QED BY <4>1, <4>2, <4>3, ElementsConcat
      <3> QED BY <2>2, <3>1, <3>2
    <2>11. \A r \in Req : challenges'[r] # None => Issued(r)'
      BY <2>2, <2>4, <2>5 DEF OnceInv, PlaceInv, Issued, Waits
    <2>12. \A g \in Id : \A r \in Elements(pending'[g]) : Waits(r, g)'
      <3> SUFFICES ASSUME NEW g \in Id, NEW r \in Elements(pending'[g]) PROVE Waits(r, g)'
        OBVIOUS
      <3>1. g # h
        BY <2>7, ElementsEmpty
      <3>2. r \in Elements(pending[g]) /\ life'[r] = life[r]
        BY <2>5, <2>6, <2>9, <3>1
      <3> QED BY <3>2 DEF OnceInv, PlaceInv, Waits
    <2>13. \A g \in Id : \A r \in Elements(inbox'[g]) : Handed(r, g)'
      <3> SUFFICES ASSUME NEW g \in Id, NEW r \in Elements(inbox'[g]) PROVE Handed(r, g)'
        OBVIOUS
      <3>1. ASSUME r \in Elements(inbox[g]) PROVE Handed(r, g)'
        <4>1. life'[r] = life[r]
          BY <2>5, <2>8, <3>1
        <4> QED BY <3>1, <4>1 DEF OnceInv, PlaceInv, Handed
      <3>2. CASE g = h /\ r \in Elements(pending[h])
        BY <2>4, <3>2 DEF Handed
      <3>3. r \in Elements(inbox[g]) \/ (g = h /\ r \in Elements(pending[h]))
        BY <2>6, <2>10
      <3> QED BY <3>1, <3>2, <3>3
    <2>14. \A g \in Id : Distinct(pending'[g]) /\ Distinct(inbox'[g])
      BY <2>6, <2>7, <2>10, ElementsEmpty DEF OnceInv, PlaceInv
    <2>15. \A r \in Req : Answered(r)'
      <3> SUFFICES ASSUME NEW r \in Req PROVE Answered(r)'
        OBVIOUS
      <3>1. CASE r \in Elements(pending[h])
        <4>1. life'[r] = [life[r] EXCEPT !.stage = "drained"] /\ life[r] \in Life
          BY <2>2, <3>1 DEF TypeOK
        <4> QED BY <2>2, <3>1, <4>1 DEF OnceInv, Answered, Life
      <3>2. CASE r \notin Elements(pending[h])
        BY <2>2, <2>5, <3>2 DEF OnceInv, Answered
      <3> QED BY <3>1, <3>2
    <2> QED BY <2>11, <2>12, <2>13, <2>14, <2>15 DEF OnceInv, PlaceInv
  <1>7. ASSUME NEW h \in Id, NEW res \in Result, PostResult(h, res) PROVE OnceInv'
    <2>1. Head(inbox[h]) \in Elements(inbox[h])
      BY <1>7, ElementsTail DEF PostResult, TypeOK, OnceInv, PlaceInv
    <2>2. PICK r \in Req : r = Head(inbox[h])
      BY <1>0, <2>1
    <2>3. /\ inbox[h] # <<>> /\ results[r] # None
          /\ results' = [results EXCEPT ![r].result = res]
          /\ life' = [life EXCEPT ![r].answer = res]
          /\ inbox' = [inbox EXCEPT ![h] = Tail(@)]
          /\ UNCHANGED <<pending, challenges>>
      BY <1>7, <2>2 DEF PostResult, Posted
    <2>4. Handed(r, h)
      BY <2>1, <2>2 DEF OnceInv, PlaceInv
    <2>5. /\ \A g \in Id : r \notin Elements(pending[g])
          /\ \A g \in Id : g # h => r \notin Elements(inbox[g])
          /\ challenges[r] = None
      BY <2>4 DEF OnceInv, PlaceInv, Issued, Waits, Handed
    <2>6. \A q \in Req : q # r => life'[q] = life[q] /\ results'[q] = results[q]
      BY <2>3 DEF TypeOK
    <2>7. /\ Elements(inbox'[h]) = Elements(inbox[h]) \ {r} /\ Distinct(inbox'[h])
          /\ \A g \in Id : g # h => inbox'[g] = inbox[g]
      BY <2>2, <2>3, ElementsTail DEF TypeOK, OnceInv, PlaceInv
    <2>8. \A g \in Id : \A q \in Elements(inbox[g]) \cup Elements(pending[g]) : q \in Req
      BY ElementOfSeq DEF Elements, TypeOK
    <2>9. Answered(r)'
      <3>1. results[r] \in ResultSlot /\ life[r] \in Life
        BY <2>3 DEF TypeOK
      <3>2. /\ results'[r] = [results[r] EXCEPT !.result = res]
            /\ life'[r] = [life[r] EXCEPT !.answer = res]
        BY <2>3 DEF TypeOK
      <3>3. life[r].seen = None \/ life[r].disputed
        BY <2>4 DEF OnceInv, Answered, Handed
      <3>4. results'[r].result = res
        BY <3>1, <3>2 DEF ResultSlot
      <3>5. /\ life'[r].answer = res /\ life'[r].stage = "drained"
            /\ life'[r].seen = None \/ life'[r].disputed
        BY <2>4, <3>1, <3>2, <3>3 DEF Handed, Life
      <3> QED BY <3>4, <3>5 DEF Answered
    <2>10. PlaceInv'
      <3>1. \A q \in Req : challenges'[q] # None => Issued(q)'
        BY <2>3, <2>5, <2>6 DEF OnceInv, PlaceInv, Issued
      <3>2. \A g \in Id : \A q \in Elements(pending'[g]) : Waits(q, g)'
        BY <2>3, <2>5, <2>6, <2>8 DEF OnceInv, PlaceInv, Waits
      <3>3. \A g \in Id : \A q \in Elements(inbox'[g]) : Handed(q, g)'
        <4> SUFFICES ASSUME NEW g \in Id, NEW q \in Elements(inbox'[g]) PROVE Handed(q, g)'
          OBVIOUS
        <4>1. q \in Elements(inbox[g]) /\ q # r
          BY <2>5, <2>7
        <4> QED BY <2>6, <2>8, <4>1 DEF OnceInv, PlaceInv, Handed
      <3>4. \A g \in Id : Distinct(pending'[g]) /\ Distinct(inbox'[g])
        BY <2>3, <2>7 DEF OnceInv, PlaceInv
      <3> QED BY <3>1, <3>2, <3>3, <3>4 DEF PlaceInv
    <2>11. ASSUME NEW q \in Req, q # r PROVE Answered(q)'
      BY <2>6, <2>11 DEF OnceInv, Answered
    <2>12. \A q \in Req : Answered(q)'
      BY <2>9, <2>11 DEF Answered
    <2> QED BY <2>10, <2>12 DEF OnceInv
  <1>S. ASSUME NEW h \in Id, NEW r \in Req, NEW res \in Result, StrayPost(h, r, res)
        PROVE  OnceInv'
    <2>1. /\ results[r] # None /\ results' = [results EXCEPT ![r].result = res]
          /\ life' = [life EXCEPT ![r].disputed = TRUE]
          /\ UNCHANGED <<pending, challenges, inbox>>
      BY <1>S DEF StrayPost, Posted
    <2>2. \A q \in Req : /\ life'[q].stage = life[q].stage /\ life'[q].host = life[q].host
                         /\ life'[q].answer = life[q].answer
      BY <2>1 DEF TypeOK, Life
    <2>3. PlaceInv'
      BY <1>0, <2>1, <2>2 DEF OnceInv, PlaceInv, Issued, Waits, Handed
    <2>4. ASSUME NEW q \in Req, q # r PROVE Answered(q)'
      <3>1. life'[q] = life[q] /\ results'[q] = results[q]
        BY <2>1, <2>4 DEF TypeOK
      <3> QED BY <3>1 DEF OnceInv, Answered
    <2>5. Answered(r)'
      <3>1. life'[r].disputed
        BY <2>1 DEF TypeOK, Life
      <3> QED BY <2>1, <2>2, <3>1 DEF OnceInv, Answered
    <2>6. \A q \in Req : Answered(q)'
      BY <2>4, <2>5 DEF Answered
    <2> QED BY <2>3, <2>6 DEF OnceInv
  <1>8. ASSUME NEW h \in Id, ResultLost(h) PROVE OnceInv'
    <2>1. /\ inbox[h] # <<>> /\ inbox' = [inbox EXCEPT ![h] = Tail(@)]
          /\ UNCHANGED <<pending, challenges, results, life>>
      BY <1>8 DEF ResultLost
    <2>2. /\ Elements(Tail(inbox[h])) \subseteq Elements(inbox[h])
          /\ Distinct(Tail(inbox[h]))
      BY <2>1, ElementsTail DEF TypeOK, OnceInv, PlaceInv
    <2>3. \A g \in Id : /\ Elements(inbox'[g]) \subseteq Elements(inbox[g])
                        /\ Distinct(inbox'[g])
      BY <2>1, <2>2 DEF TypeOK, OnceInv, PlaceInv
    <2>4. PlaceInv'
      BY <2>1, <2>3 DEF OnceInv, PlaceInv, Issued, Waits, Handed
    <2>5. \A r \in Req : Answered(r)'
      BY <2>1 DEF OnceInv, Answered
    <2> QED BY <2>4, <2>5 DEF OnceInv
  <1>9. ASSUME NEW r \in Req, ClientPollAnswer(r) PROVE OnceInv'
    <2>1. /\ results[r] # None /\ results[r].result # None
          /\ life' = [life EXCEPT ![r].seen = results[r].result]
          /\ UNCHANGED <<pending, challenges, results, inbox>>
      BY <1>9 DEF ClientPollAnswer
    <2>2. /\ \A q \in Req : q # r => life'[q] = life[q]
          /\ life'[r] = [life[r] EXCEPT !.seen = results[r].result] /\ life[r] \in Life
      BY <2>1 DEF TypeOK
    <2>3. /\ life'[r].stage = life[r].stage /\ life'[r].host = life[r].host
          /\ life'[r].answer = life[r].answer
          /\ life'[r].seen = results[r].result /\ life'[r].disputed = life[r].disputed
      BY <2>2 DEF Life
    <2>4. \A g \in Id : \A q \in Elements(inbox[g]) \cup Elements(pending[g]) : q \in Req
      BY ElementOfSeq DEF Elements, TypeOK
    <2>5. \A q \in Req : /\ life'[q].stage = life[q].stage /\ life'[q].host = life[q].host
                         /\ life'[q].answer = life[q].answer
      BY <2>2, <2>3
    <2>6. PlaceInv'
      BY <2>1, <2>4, <2>5 DEF OnceInv, PlaceInv, Issued, Waits, Handed
    <2>7. \A q \in Req : Answered(q)'
      BY <2>1, <2>2, <2>3 DEF OnceInv, Answered
    <2> QED BY <2>6, <2>7 DEF OnceInv
  <1>10. ASSUME NEW kept \in SUBSET Id, Restart(kept) PROVE OnceInv'
    <2>1. /\ pending' = [h \in Id |-> <<>>]
          /\ challenges' = [r \in Req |-> None] /\ results' = [r \in Req |-> None]
          /\ UNCHANGED inbox
      BY <1>10 DEF Restart
    <2>2. \A r \in Req : /\ life'[r].stage = life[r].stage /\ life'[r].host = life[r].host
                         /\ life'[r].answer = life[r].answer /\ life'[r].seen = life[r].seen
                         /\ life'[r].disputed = life[r].disputed
      <3> SUFFICES ASSUME NEW r \in Req
                   PROVE  /\ life'[r].stage = life[r].stage /\ life'[r].host = life[r].host
                          /\ life'[r].answer = life[r].answer /\ life'[r].seen = life[r].seen
                          /\ life'[r].disputed = life[r].disputed
        OBVIOUS
      <3>1. /\ life[r] \in Life
            /\ life'[r] = life[r] \/ life'[r] = [life[r] EXCEPT !.void = TRUE, !.since = 0]
        BY <1>10 DEF Restart, TypeOK
      <3> QED BY <3>1 DEF Life
    <2>3. \A g \in Id : \A q \in Elements(inbox[g]) : q \in Req
      BY ElementOfSeq DEF Elements, TypeOK
    <2>4. PlaceInv'
      BY <2>1, <2>2, <2>3, ElementsEmpty DEF OnceInv, PlaceInv, Handed
    <2>5. \A q \in Req : Answered(q)'
      BY <2>1, <2>2 DEF OnceInv, Answered
    <2> QED BY <2>4, <2>5 DEF OnceInv
  <1> QED
    BY <1>1, <1>2, <1>3, <1>4, <1>5, <1>6, <1>7, <1>S, <1>8, <1>9, <1>10
    DEF Next, vars, ChallengeStep, PollStep, ClientPollStep,
        Register, Heartbeat, ChallengeUnknownHost, ChallengeLimited, PollStart,
        PollUnknownHost, PollEmpty, PollArm, PollTimeout, PollDropped, ClientPollStart,
        ClientPollUnknown, ClientPollEmpty, ClientPollArm, ClientPollTimeout,
        ClientPollDropped, Tick

\* The invariant every theorem below is read off.
LEMMA OnceInvariant == Spec => [](TypeOK /\ OnceInv)
  <1>1. Init => TypeOK /\ OnceInv
    BY InitType, InitOnce
  <1>2. TypeOK /\ OnceInv /\ [Next]_vars => (TypeOK /\ OnceInv)'
    BY NextType, NextOnce
  <1> QED BY <1>1, <1>2, PTL DEF Spec

-----------------------------------------------------------------------------
(* What follows from it.                                                   *)

LEMMA EntryIsElement == \A s : \A i \in 1..Len(s) : s[i] \in Elements(s)
  BY DEF Elements

LEMMA OnceIsOnePlace == TypeOK /\ OnceInv => RequestInOnePlace
  <1> SUFFICES ASSUME TypeOK, OnceInv PROVE RequestInOnePlace
    OBVIOUS
  <1>1. \A h \in Id : \A i \in 1..Len(pending[h]) :
           pending[h][i] \in Req /\ Waits(pending[h][i], h)
    BY EntryIsElement, ElementOfSeq DEF TypeOK, OnceInv, PlaceInv
  <1>2. \A h \in Id : \A i \in 1..Len(inbox[h]) :
           inbox[h][i] \in Req /\ Handed(inbox[h][i], h)
    BY EntryIsElement, ElementOfSeq DEF TypeOK, OnceInv, PlaceInv
  <1>3. \A h \in Id : \A i \in 1..Len(pending[h]) : challenges[pending[h][i]] = None
    BY <1>1 DEF OnceInv, PlaceInv, Issued, Waits
  <1>4. \A h \in Id : \A i \in 1..Len(inbox[h]) : challenges[inbox[h][i]] = None
    BY <1>2 DEF OnceInv, PlaceInv, Issued, Handed
  <1>5. \A g, h \in Id : \A i \in 1..Len(pending[g]), j \in 1..Len(inbox[h]) :
           pending[g][i] # inbox[h][j]
    BY <1>1, <1>2 DEF Waits, Handed
  <1>6. NoRepeats(pending)
    BY <1>1 DEF OnceInv, PlaceInv, Distinct, Waits, NoRepeats
  <1>7. NoRepeats(inbox)
    BY <1>2 DEF OnceInv, PlaceInv, Distinct, Handed, NoRepeats
  <1> QED BY <1>3, <1>4, <1>5, <1>6, <1>7 DEF RequestInOnePlace

\* A request is never in two places: a challenge not yet used, one entry of
\* one host's queue, or one entry of what one agent has received.
THEOREM OnePlace == Spec => []RequestInOnePlace
  BY OnceInvariant, OnceIsOnePlace, PTL

LEMMA OnceIsRouted == TypeOK /\ OnceInv => RoutedToItsHost
  BY EntryIsElement DEF OnceInv, PlaceInv, Waits, Handed, RoutedToItsHost

\* A request waits for, and reaches, the host its challenge was issued for.
THEOREM Routed == Spec => []RoutedToItsHost
  BY OnceInvariant, OnceIsRouted, PTL

LEMMA OnceIsSeen == TypeOK /\ OnceInv => SeenIsTheAnswer
  BY DEF OnceInv, Answered, SeenIsTheAnswer

\* A client is told what the agent answered that was handed its request, whatever
\* is posted out of turn for the requests of others.
THEOREM Seen == Spec => []SeenIsTheAnswer
  BY OnceInvariant, OnceIsSeen, PTL

\* An agent answers the request at the head of what it received, and that one
\* has no answer yet in its slot, unless somebody else put one there.
LEMMA AnswerOnce ==
    ASSUME TypeOK, OnceInv, NEW h \in Id, NEW res \in Result, PostResult(h, res),
           NEW r \in Req, results[r] # None, results[r].result # None
    PROVE  results'[r] = results[r] \/ life'[r].disputed
  <1>1. PICK q : q = Head(inbox[h])
    OBVIOUS
  <1>2. /\ inbox[h] # <<>>
        /\ results' = [results EXCEPT ![q].result = res]
        /\ life' = [life EXCEPT ![q].answer = res]
    BY <1>1 DEF PostResult, Posted
  <1>3. Handed(q, h)
    BY <1>1, <1>2, ElementsTail DEF TypeOK, OnceInv, PlaceInv
  <1>4. CASE r # q
    BY <1>2, <1>4 DEF TypeOK
  <1>5. CASE r = q
    <2>1. life[r].disputed
      BY <1>3, <1>5 DEF OnceInv, Answered, Handed
    <2> QED BY <1>2, <1>5, <2>1 DEF TypeOK, Life
  <1> QED BY <1>4, <1>5

FinalHere(r) ==
    /\ results[r] # None /\ results[r].result # None
    /\ results'[r] # None /\ results'[r].result # results[r].result
    => life'[r].disputed

LEMMA AnswerKept ==
    TypeOK /\ OnceInv /\ [Next]_vars => \A r \in Req : FinalHere(r)
  <1> SUFFICES ASSUME TypeOK, OnceInv, [Next]_vars, NEW r \in Req,
                      results[r] # None, results[r].result # None
               PROVE  results'[r] = results[r] \/ results'[r] = None \/ life'[r].disputed
    BY DEF FinalHere
  <1> USE DEF server, handlers, history
  <1>1. CASE UNCHANGED results
    BY <1>1
  <1>2. ASSUME NEW h \in Id, NEW res \in Result, PostResult(h, res)
        PROVE  results'[r] = results[r] \/ life'[r].disputed
    BY <1>2, AnswerOnce
  <1>3. ASSUME NEW h \in Id, NEW q \in Req, NEW res \in Result, StrayPost(h, q, res)
        PROVE  results'[r] = results[r] \/ life'[r].disputed
    <2>1. /\ results' = [results EXCEPT ![q].result = res]
          /\ life' = [life EXCEPT ![q].disputed = TRUE]
      BY <1>3 DEF StrayPost, Posted
    <2> QED BY <2>1 DEF TypeOK, Life
  <1>4. ASSUME NEW c \in Caller, NEW h \in Id, ChallengeGc(c, h)
        PROVE  results'[r] = results[r] \/ results'[r] = None
    BY <1>4 DEF ChallengeGc
  <1>5. ASSUME NEW h \in Id, NEW q \in Req, SubmitAccepted(h, q)
        PROVE  results'[r] = results[r]
    <2>1. /\ challenges[q] # None
          /\ results' = [results EXCEPT ![q] = [result |-> None, created |-> clock]]
      BY <1>5 DEF SubmitAccepted
    <2>2. life[q].stage = "issued" /\ life[r].stage \in {"accepted", "drained"}
      BY <2>1 DEF OnceInv, PlaceInv, Issued, Answered
    <2> QED BY <2>1, <2>2 DEF TypeOK
  <1>6. ASSUME NEW kept \in SUBSET Id, Restart(kept) PROVE results'[r] = None
    BY <1>6 DEF Restart
  <1> QED
    BY <1>1, <1>2, <1>3, <1>4, <1>5, <1>6
    DEF Next, vars, ChallengeStep, PollStep, ClientPollStep, Register, Heartbeat,
        ChallengeUnknownHost, ChallengeLimited, ChallengeGrant, SubmitRefused, PollStart,
        PollUnknownHost, PollDeliver, PollEmpty, PollArm, PollTimeout, PollDropped,
        ResultLost, ClientPollStart, ClientPollUnknown, ClientPollAnswer,
        ClientPollEmpty, ClientPollArm, ClientPollTimeout, ClientPollDropped, Tick

\* Whatever the server, its restarts and the polls do, no agent is brought to
\* overwrite an answer: where a slot's result changes, somebody has posted one
\* for that request out of turn.
THEOREM AnswerStays == Spec => AnswerIsFinal
  <1>1. TypeOK /\ OnceInv /\ [Next]_vars => [\A r \in Req : FinalHere(r)]_vars
    BY AnswerKept
  <1> QED BY <1>1, OnceInvariant, PTL DEF Spec, AnswerIsFinal, FinalHere

-----------------------------------------------------------------------------
(* Nothing expires before its time.                                        *)

KeptChallenge(r) ==
    /\ challenges[r] # None => challenges[r].created = life[r].since
    /\ life[r].stage = "issued" /\ ~life[r].void /\ clock - life[r].since < ChallengeTTL
          => challenges[r] # None

KeptSlot(r) ==
    /\ results[r] # None => /\ life[r].stage \in {"accepted", "drained"}
                            /\ results[r].created = life[r].since
    /\ life[r].stage \in {"accepted", "drained"} /\ ~life[r].void
       /\ clock - life[r].since < ResultTTL
          => results[r] # None

KeptInv == \A r \in Req : KeptChallenge(r) /\ KeptSlot(r)

LEMMA InitKept == Init => KeptInv
  BY DEF Init, Unborn, KeptInv, KeptChallenge, KeptSlot

\* What keeps r as it was: its entries are the same, or are the same but for
\* what the agent answered and the client saw, and time has gone on.
LEMMA SameKept ==
    ASSUME TypeOK, NEW r \in Req, KeptChallenge(r), KeptSlot(r), clock' \in Nat, clock' >= clock,
           life'[r].stage = life[r].stage, life'[r].since = life[r].since,
           life'[r].void = life[r].void,
           challenges'[r] = challenges[r],
           (results'[r] = None) <=> (results[r] = None),
           results[r] # None => results'[r].created = results[r].created
    PROVE  KeptChallenge(r)' /\ KeptSlot(r)'
  <1>1. life[r].since \in Nat /\ clock \in Nat
    BY DEF TypeOK, Life
  <1>2. \A ttl \in Nat : clock' - life'[r].since < ttl => clock - life[r].since < ttl
    BY <1>1
  <1> QED BY <1>2, DurationAssumption DEF KeptChallenge, KeptSlot

LEMMA NextKept == TypeOK /\ OnceInv /\ KeptInv /\ [Next]_vars => KeptInv'
  <1> SUFFICES ASSUME TypeOK, OnceInv, KeptInv, [Next]_vars, NEW r \in Req
               PROVE  KeptChallenge(r)' /\ KeptSlot(r)'
    BY DEF KeptInv
  <1> USE NoneAssumption DEF server, handlers, history
  <1>0. KeptChallenge(r) /\ KeptSlot(r) /\ clock \in Nat /\ life[r] \in Life
    BY DEF KeptInv, TypeOK
  <1>1. CASE UNCHANGED <<clock, challenges, results, life>>
    BY <1>0, <1>1 DEF KeptChallenge, KeptSlot
  <1>2. ASSUME NEW c \in Caller, NEW h \in Id, ChallengeGc(c, h)
        PROVE  KeptChallenge(r)' /\ KeptSlot(r)'
    <2>1. /\ challenges'[r] = IF LiveChallenge(challenges[r]) THEN challenges[r] ELSE None
          /\ results'[r] = IF LiveSlot(results[r]) THEN results[r] ELSE None
          /\ UNCHANGED <<clock, life>>
      BY <1>2 DEF ChallengeGc
    <2>2. KeptChallenge(r)'
      BY <1>0, <2>1 DEF KeptChallenge, LiveChallenge
    <2>3. KeptSlot(r)'
      BY <1>0, <2>1 DEF KeptSlot, LiveSlot
    <2> QED BY <2>2, <2>3
  <1>3. ASSUME NEW c \in Caller, NEW k, NEW q \in Req, ChallengeGrant(c, k, q)
        PROVE  KeptChallenge(r)' /\ KeptSlot(r)'
    <2>1. /\ life[q].stage = "unborn"
          /\ challenges' = [challenges EXCEPT ![q] = [host |-> calls[c], created |-> clock]]
          /\ life' = [life EXCEPT ![q] = [Unborn EXCEPT !.host = calls[c],
                                            !.stage = "issued", !.since = clock]]
          /\ calls[c] \in Id
          /\ UNCHANGED <<clock, results>>
      BY <1>3 DEF ChallengeGrant, TypeOK
    <2>2. CASE q # r
      <3>1. /\ life'[r] = life[r] /\ challenges'[r] = challenges[r]
            /\ results'[r] = results[r] /\ clock' = clock
        BY <2>1, <2>2 DEF TypeOK
      <3>2. clock' \in Nat /\ clock' >= clock
        BY <1>0, <3>1
      <3> QED BY <1>0, <3>1, <3>2, SameKept
    <2>3. CASE q = r
      <3>1. /\ challenges'[r] = [host |-> calls[c], created |-> clock]
            /\ life'[r].stage = "issued" /\ life'[r].since = clock
            /\ results'[r] = None
        BY <1>0, <2>1, <2>3 DEF TypeOK, Unborn, KeptSlot
      <3>2. challenges'[r] \in Challenge
        BY <1>0, <2>1, <3>1 DEF Challenge
      <3>3. challenges'[r] # None
        BY <3>2
      <3> QED BY <3>1, <3>3 DEF KeptChallenge, KeptSlot
    <2> QED BY <2>2, <2>3
  <1>4. ASSUME NEW h \in Id, NEW q \in Req, SubmitRefused(h, q)
        PROVE  KeptChallenge(r)' /\ KeptSlot(r)'
    <2>1. /\ challenges[q] # None
          /\ challenges' = [challenges EXCEPT ![q] = None]
          /\ life' = [life EXCEPT ![q].stage = "refused", ![q].since = 0]
          /\ UNCHANGED <<clock, results>>
      BY <1>4 DEF SubmitRefused, Consumed
    <2>2. CASE q # r
      <3>1. /\ life'[r] = life[r] /\ challenges'[r] = challenges[r]
            /\ results'[r] = results[r] /\ clock' = clock
        BY <2>1, <2>2 DEF TypeOK
      <3>2. clock' \in Nat /\ clock' >= clock
        BY <1>0, <3>1
      <3> QED BY <1>0, <3>1, <3>2, SameKept
    <2>3. CASE q = r
      <3>1. challenges'[r] = None /\ life'[r].stage = "refused"
        BY <1>0, <2>1, <2>3 DEF TypeOK, Life
      <3>2. results'[r] = None
        BY <1>0, <2>1, <2>3 DEF OnceInv, PlaceInv, Issued, KeptSlot
      <3> QED BY <3>1, <3>2 DEF KeptChallenge, KeptSlot
    <2> QED BY <2>2, <2>3
  <1>5. ASSUME NEW h \in Id, NEW q \in Req, SubmitAccepted(h, q)
        PROVE  KeptChallenge(r)' /\ KeptSlot(r)'
    <2>1. /\ challenges' = [challenges EXCEPT ![q] = None]
          /\ results' = [results EXCEPT ![q] = [result |-> None, created |-> clock]]
          /\ life' = [life EXCEPT ![q].stage = "accepted", ![q].since = clock]
          /\ UNCHANGED clock
      BY <1>5 DEF SubmitAccepted, Consumed
    <2>2. CASE q # r
      <3>1. /\ life'[r] = life[r] /\ challenges'[r] = challenges[r]
            /\ results'[r] = results[r] /\ clock' = clock
        BY <2>1, <2>2 DEF TypeOK
      <3>2. clock' \in Nat /\ clock' >= clock
        BY <1>0, <3>1
      <3> QED BY <1>0, <3>1, <3>2, SameKept
    <2>3. CASE q = r
      <3>1. /\ challenges'[r] = None
            /\ life'[r].stage = "accepted" /\ life'[r].since = clock
            /\ results'[r] = [result |-> None, created |-> clock]
        BY <1>0, <2>1, <2>3 DEF TypeOK, Life
      <3>2. results'[r] \in ResultSlot
        BY <1>0, <3>1 DEF ResultSlot
      <3>3. results'[r] # None
        BY <3>2
      <3> QED BY <3>1, <3>3 DEF KeptChallenge, KeptSlot
    <2> QED BY <2>2, <2>3
  <1>6. ASSUME NEW p \in Poller, NEW arrives \in BOOLEAN, PollDeliver(p, arrives)
        PROVE  KeptChallenge(r)' /\ KeptSlot(r)'
    <2>1. PICK h \in Id : h = hostPoll[p].id
      BY <1>6 DEF PollDeliver, TypeOK
    <2>2. /\ life'[r] = IF r \in Elements(pending[h])
                          THEN [life[r] EXCEPT !.stage = "drained"] ELSE life[r]
          /\ UNCHANGED <<clock, challenges, results>>
      BY <1>6, <2>1 DEF PollDeliver
    <2>3. CASE r \notin Elements(pending[h])
      BY <1>0, <2>2, <2>3, SameKept
    <2>4. CASE r \in Elements(pending[h])
      <3>1. Waits(r, h)
        BY <2>1, <2>4 DEF OnceInv, PlaceInv
      <3>2. /\ life'[r].stage = "drained" /\ life'[r].since = life[r].since
            /\ life'[r].void = life[r].void /\ life[r].stage = "accepted"
        BY <1>0, <2>2, <2>4, <3>1 DEF Life, Waits
      <3> QED BY <1>0, <2>2, <3>2 DEF KeptChallenge, KeptSlot
    <2> QED BY <2>3, <2>4
  <1>7. ASSUME NEW h \in Id, NEW res \in Result, PostResult(h, res)
        PROVE  KeptChallenge(r)' /\ KeptSlot(r)'
    <2>1. PICK q : q = Head(inbox[h])
      OBVIOUS
    <2>2. /\ results[q] # None
          /\ results' = [results EXCEPT ![q].result = res]
          /\ life' = [life EXCEPT ![q].answer = res]
          /\ UNCHANGED <<clock, challenges>>
      BY <1>7, <2>1 DEF PostResult, Posted
    <2>3. CASE q # r
      <3>1. /\ life'[r] = life[r] /\ challenges'[r] = challenges[r]
            /\ results'[r] = results[r] /\ clock' = clock
        BY <2>2, <2>3 DEF TypeOK
      <3>2. clock' \in Nat /\ clock' >= clock
        BY <1>0, <3>1
      <3> QED BY <1>0, <3>1, <3>2, SameKept
    <2>4. CASE q = r
      <3>1. results[r] \in ResultSlot /\ results'[r] = [results[r] EXCEPT !.result = res]
        BY <2>2, <2>4 DEF TypeOK
      <3>2. results'[r] \in ResultSlot /\ results'[r].created = results[r].created
        BY <3>1 DEF ResultSlot
      <3>3. results'[r] # None /\ results[r] # None
        BY <3>1, <3>2
      <3>4. /\ life'[r].stage = life[r].stage /\ life'[r].since = life[r].since
            /\ life'[r].void = life[r].void
        BY <1>0, <2>2, <2>4 DEF TypeOK, Life
      <3> QED BY <1>0, <2>2, <3>2, <3>3, <3>4, SameKept
    <2> QED BY <2>3, <2>4
  <1>S. ASSUME NEW h \in Id, NEW q \in Req, NEW res \in Result, StrayPost(h, q, res)
        PROVE  KeptChallenge(r)' /\ KeptSlot(r)'
    <2>1. /\ results[q] # None
          /\ results' = [results EXCEPT ![q].result = res]
          /\ life' = [life EXCEPT ![q].disputed = TRUE]
          /\ UNCHANGED <<clock, challenges>>
      BY <1>S DEF StrayPost, Posted
    <2>2. /\ life'[r].stage = life[r].stage /\ life'[r].since = life[r].since
          /\ life'[r].void = life[r].void
      BY <1>0, <2>1 DEF TypeOK, Life
    <2>3. /\ (results'[r] = None) <=> (results[r] = None)
          /\ results[r] # None => results'[r].created = results[r].created
      <3>1. CASE q # r
        BY <2>1, <3>1 DEF TypeOK
      <3>2. CASE q = r
        <4>1. results[r] \in ResultSlot /\ results'[r] = [results[r] EXCEPT !.result = res]
          BY <2>1, <3>2 DEF TypeOK
        <4>2. results'[r] \in ResultSlot /\ results'[r].created = results[r].created
          BY <4>1 DEF ResultSlot
        <4> QED BY <4>1, <4>2
      <3> QED BY <3>1, <3>2
    <2>4. clock' \in Nat /\ clock' >= clock /\ challenges'[r] = challenges[r]
      BY <1>0, <2>1
    <2> QED BY <1>0, <2>2, <2>3, <2>4, SameKept
  <1>8. ASSUME NEW q \in Req, ClientPollAnswer(q) PROVE KeptChallenge(r)' /\ KeptSlot(r)'
    <2>1. /\ life' = [life EXCEPT ![q].seen = results[q].result]
          /\ UNCHANGED <<clock, challenges, results>>
      BY <1>8 DEF ClientPollAnswer
    <2>2. /\ life'[r].stage = life[r].stage /\ life'[r].since = life[r].since
          /\ life'[r].void = life[r].void
      BY <1>0, <2>1 DEF TypeOK, Life
    <2> QED BY <1>0, <2>1, <2>2, SameKept
  <1>9. CASE Tick
    <2>1. clock' = clock + 1 /\ UNCHANGED <<challenges, results, life>>
      BY <1>9 DEF Tick
    <2>2. clock' \in Nat /\ clock' >= clock
      BY <1>0, <2>1
    <2> QED BY <1>0, <2>1, <2>2, SameKept
  <1>10. ASSUME NEW kept \in SUBSET Id, Restart(kept) PROVE KeptChallenge(r)' /\ KeptSlot(r)'
    <2>1. /\ challenges'[r] = None /\ results'[r] = None
          /\ life'[r] = IF life[r].stage = "unborn" THEN life[r]
                        ELSE [life[r] EXCEPT !.void = TRUE, !.since = 0]
      BY <1>10 DEF Restart
    <2>2. life'[r].stage = "unborn" \/ life'[r].void
      BY <1>0, <2>1 DEF Life
    <2> QED BY <2>1, <2>2 DEF KeptChallenge, KeptSlot
  <1> QED
    BY <1>1, <1>2, <1>3, <1>4, <1>5, <1>6, <1>7, <1>S, <1>8, <1>9, <1>10
    DEF Next, vars, ChallengeStep, PollStep, ClientPollStep,
        Register, Heartbeat, ChallengeUnknownHost, ChallengeLimited, PollStart,
        PollUnknownHost, PollEmpty, PollArm, PollTimeout, PollDropped, ResultLost,
        ClientPollStart, ClientPollUnknown, ClientPollEmpty, ClientPollArm,
        ClientPollTimeout, ClientPollDropped

LEMMA KeptInvariant == Spec => []KeptInv
  <1>1. TypeOK /\ OnceInv /\ KeptInv /\ [Next]_vars => KeptInv'
    BY NextKept
  <1> QED BY <1>1, InitKept, OnceInvariant, PTL DEF Spec

LEMMA KeptIsKept == KeptInv => UnusedChallengeKept /\ AcceptedSlotKept
  BY DEF KeptInv, KeptChallenge, KeptSlot, UnusedChallengeKept, AcceptedSlotKept

\* A challenge that is younger than its ttl and was not used is known, whatever
\* gc the calls of others have run.
THEOREM ChallengeKept == Spec => []UnusedChallengeKept
  BY KeptInvariant, KeptIsKept, PTL

\* An accepted request has its slot for RESULT_TTL_SECS.
THEOREM SlotKept == Spec => []AcceptedSlotKept
  BY KeptInvariant, KeptIsKept, PTL
=============================================================================
