---------------------- MODULE RendezvousExchangeProofs ----------------------
(***************************************************************************)
(* The server implements PairExchange, for every number of hosts, requests *)
(* and polls: each of its steps is a step of the exchange or none at all.  *)
(***************************************************************************)
EXTENDS RendezvousProofs, RendezvousExchange

Queued(r) == \E h \in Id : r \in Elements(pending[h])
Held(r) == \E h \in Id : r \in Elements(inbox[h])

\* The stage and the host of a request, as the invariant of
\* RendezvousProofs lets one read them: each stage from one table alone.
Placed(r) ==
    /\ HostOf(r) = life[r].host
    /\ StageOf(r) = "unborn" <=> life[r].stage = "unborn"
    /\ StageOf(r) = "issued" <=> challenges[r] # None
    /\ StageOf(r) = "queued" <=> Queued(r)
    /\ StageOf(r) = "handed" <=> Held(r)
    /\ StageOf(r) = "answered" <=> life[r].answer # None
    /\ StageOf(r) \in {"unborn", "issued", "queued", "handed", "answered", "lost"}

AllPlaced == \A r \in Req : Placed(r)

LEMMA InvPlaced == TypeOK /\ OnceInv => AllPlaced
  <1> SUFFICES ASSUME TypeOK, OnceInv, NEW r \in Req PROVE Placed(r)
    BY DEF AllPlaced
  <1>1. /\ challenges[r] # None => Issued(r)
        /\ \A h \in Id : r \in Elements(pending[h]) => Waits(r, h)
        /\ \A h \in Id : r \in Elements(inbox[h]) => Handed(r, h)
        /\ life[r].answer # None => life[r].stage = "drained"
    BY DEF OnceInv, PlaceInv, Answered
  <1>2. \A h \in Id : /\ QueuedAt(r, h) <=> r \in Elements(pending[h])
                      /\ HeldAt(r, h) <=> r \in Elements(inbox[h])
    BY DEF QueuedAt, HeldAt, Elements
  <1>3. HostOf(r) = life[r].host
    <2>1. \A h \in Id : QueuedAt(r, h) \/ HeldAt(r, h) => h = life[r].host
      BY <1>1, <1>2 DEF Waits, Handed
    <2> QED BY <2>1 DEF HostOf
  <1>4. /\ (\E h \in Id : QueuedAt(r, h)) <=> Queued(r)
        /\ (\E h \in Id : HeldAt(r, h)) <=> Held(r)
    BY <1>2 DEF Queued, Held
  <1>5. /\ Queued(r) => life[r].stage = "accepted" /\ life[r].answer = None
        /\ Held(r) => life[r].stage = "drained" /\ life[r].answer = None
        /\ challenges[r] # None => life[r].stage = "issued" /\ life[r].answer = None
    BY <1>1 DEF Queued, Held, Waits, Handed, Issued
  <1> QED BY <1>1, <1>3, <1>4, <1>5 DEF Placed, StageOf

\* What keeps a request at its stage.
LEMMA SamePlace ==
    ASSUME NEW r \in Req, Placed(r), Placed(r)',
           life'[r].stage = "unborn" <=> life[r].stage = "unborn",
           challenges'[r] # None <=> challenges[r] # None,
           Queued(r)' <=> Queued(r), Held(r)' <=> Held(r),
           life'[r].answer # None <=> life[r].answer # None
    PROVE  StageOf(r)' = StageOf(r)
  BY DEF Placed

\* The steps of the exchange that change neither a host nor an answer.
LEMMA Stutters ==
    ASSUME \A r \in Req : /\ StageOf(r)' = StageOf(r) /\ HostOf(r)' = HostOf(r)
                          /\ life'[r].answer = life[r].answer
    PROVE  UNCHANGED Exchange!vars
  BY DEF Exchange!vars

LEMMA Loses ==
    ASSUME NEW S \in SUBSET Req,
           \A r \in S : /\ StageOf(r) \in {"issued", "queued", "handed"}
                        /\ StageOf(r)' = "lost",
           \A r \in Req : /\ r \notin S => StageOf(r)' = StageOf(r)
                          /\ HostOf(r)' = HostOf(r)
                          /\ life'[r].answer = life[r].answer
    PROVE  Exchange!Next
  <1>1. Exchange!Lose(S)
    BY DEF Exchange!Lose
  <1> QED BY <1>1 DEF Exchange!Next

LEMMA ExchangeInit == Init => Exchange!Init
  <1> SUFFICES ASSUME Init PROVE Exchange!Init
    OBVIOUS
  <1>1. \A r \in Req : StageOf(r) = "unborn" /\ life[r].host = None /\ life[r].answer = None
    BY DEF Init, Unborn, StageOf
  <1>2. \A h \in Id : \A r \in Req : ~QueuedAt(r, h) /\ ~HeldAt(r, h)
    BY ElementsEmpty DEF Init, QueuedAt, HeldAt, Elements
  <1>3. \A r \in Req : HostOf(r) = None
    BY <1>1, <1>2 DEF HostOf
  <1> QED BY <1>1, <1>3 DEF Exchange!Init

\* Every step of the server is one of the exchange, or none.
LEMMA ExchangeStep ==
    ASSUME TypeOK, TypeOK', OnceInv, AllPlaced, AllPlaced', [Next]_vars
    PROVE  [Exchange!Next]_(Exchange!vars)
  <1> USE NoneAssumption DEF server, handlers, history
  <1>0. \A r \in Req : Placed(r) /\ Placed(r)' /\ life[r] \in Life
    BY DEF AllPlaced, TypeOK
  <1>A. \A h \in Id : \A r \in Elements(pending[h]) \cup Elements(inbox[h]) : r \in Req
    BY ElementOfSeq DEF Elements, TypeOK
  <1>B. \A r \in Req : /\ challenges[r] # None => Issued(r)
                       /\ \A h \in Id : r \in Elements(pending[h]) => Waits(r, h)
                       /\ \A h \in Id : r \in Elements(inbox[h]) => Handed(r, h)
    BY DEF OnceInv, PlaceInv
  <1>1. ASSUME UNCHANGED <<pending, challenges, inbox>>,
               \A r \in Req : /\ life'[r].stage = life[r].stage /\ life'[r].host = life[r].host
                              /\ life'[r].answer = life[r].answer
        PROVE  UNCHANGED Exchange!vars
    <2>1. \A r \in Req : StageOf(r)' = StageOf(r) /\ HostOf(r)' = HostOf(r)
      BY <1>0, <1>1, SamePlace DEF Placed, Queued, Held
    <2> QED BY <1>1, <2>1, Stutters
  <1>2. ASSUME NEW c \in Caller, NEW h \in Id, ChallengeGc(c, h)
        PROVE  Exchange!Next
    <2> DEFINE S == {r \in Req : challenges[r] # None /\ ~LiveChallenge(challenges[r])}
    <2>1. /\ \A r \in Req : challenges'[r] = IF LiveChallenge(challenges[r])
                                               THEN challenges[r] ELSE None
          /\ UNCHANGED <<pending, inbox, life>>
      BY <1>2 DEF ChallengeGc
    <2>2. \A r \in Req : HostOf(r)' = HostOf(r) /\ life'[r].answer = life[r].answer
      BY <1>0, <2>1 DEF Placed
    <2>3. ASSUME NEW r \in Req, r \notin S PROVE StageOf(r)' = StageOf(r)
      <3>1. challenges'[r] = challenges[r]
        BY <2>1, <2>3
      <3> QED BY <1>0, <2>1, <3>1, SamePlace DEF Queued, Held
    <2>4. ASSUME NEW r \in S PROVE StageOf(r) = "issued" /\ StageOf(r)' = "lost"
      <3>1. challenges[r] # None /\ challenges'[r] = None /\ Issued(r)
        BY <1>B, <2>1
      <3>2. /\ life[r].stage = "issued" /\ life[r].answer = None
            /\ ~Queued(r) /\ ~Held(r)
        BY <1>B, <3>1 DEF Issued, Waits, Handed, Queued, Held
      <3> QED BY <1>0, <2>1, <3>1, <3>2 DEF Placed, Queued, Held
    <2> HIDE DEF S
    <2>5. S \in SUBSET Req
      BY DEF S
    <2> QED BY <2>2, <2>3, <2>4, <2>5, Loses
  <1>3. ASSUME NEW c \in Caller, NEW k, NEW r \in Req, ChallengeGrant(c, k, r)
        PROVE  Exchange!Next
    <2>1. PICK h \in Id : h = calls[c]
      BY <1>3 DEF ChallengeGrant, TypeOK
    <2>2. /\ life[r].stage = "unborn"
          /\ challenges' = [challenges EXCEPT ![r] = [host |-> h, created |-> clock]]
          /\ life' = [life EXCEPT ![r] = [Unborn EXCEPT !.host = h,
                                            !.stage = "issued", !.since = clock]]
          /\ UNCHANGED <<pending, inbox>>
      BY <1>3, <2>1 DEF ChallengeGrant
    <2>3. \A q \in Req : q # r => life'[q] = life[q] /\ challenges'[q] = challenges[q]
      BY <2>2 DEF TypeOK
    <2>4. \A q \in Req : q # r => StageOf(q)' = StageOf(q) /\ HostOf(q)' = HostOf(q)
      BY <1>0, <2>2, <2>3, SamePlace DEF Placed, Queued, Held
    <2>5. life'[r].host = h /\ life'[r].answer = None
      BY <2>2 DEF TypeOK, Unborn
    <2>6. challenges'[r] = [host |-> h, created |-> clock]
      BY <2>2 DEF TypeOK
    <2>7. challenges'[r] \in Challenge
      BY <2>6 DEF TypeOK, Challenge
    <2>8. StageOf(r) = "unborn" /\ StageOf(r)' = "issued" /\ HostOf(r)' = h
      BY <1>0, <2>2, <2>5, <2>7 DEF Placed
    <2>9. life[r].answer = None
      BY <1>0, <2>8 DEF Placed
    <2>10. Exchange!Issue(r, h)
      BY <2>3, <2>4, <2>5, <2>8, <2>9 DEF Exchange!Issue
    <2> QED BY <2>10 DEF Exchange!Next
  <1>4. ASSUME NEW h \in Id, NEW r \in Req, SubmitRefused(h, r)
        PROVE  Exchange!Next
    <2>1. /\ challenges[r] # None
          /\ challenges' = [challenges EXCEPT ![r] = None]
          /\ life' = [life EXCEPT ![r].stage = "refused", ![r].since = 0]
          /\ UNCHANGED <<pending, inbox>>
      BY <1>4 DEF SubmitRefused, Consumed
    <2>2. \A q \in Req : q # r => life'[q] = life[q] /\ challenges'[q] = challenges[q]
      BY <2>1 DEF TypeOK
    <2>3. \A q \in Req : q # r => StageOf(q)' = StageOf(q) /\ HostOf(q)' = HostOf(q)
      <3> SUFFICES ASSUME NEW q \in Req, q # r
                   PROVE  StageOf(q)' = StageOf(q) /\ HostOf(q)' = HostOf(q)
        OBVIOUS
      <3>1. (Queued(q)' <=> Queued(q)) /\ (Held(q)' <=> Held(q))
        BY <2>1 DEF Queued, Held
      <3>2. life'[q] = life[q] /\ challenges'[q] = challenges[q]
        BY <2>2
      <3>3. StageOf(q)' = StageOf(q)
        BY <1>0, <3>1, <3>2, SamePlace
      <3> QED BY <1>0, <3>2, <3>3 DEF Placed
    <2>4. /\ challenges'[r] = None /\ life'[r].stage = "refused"
          /\ life'[r].host = life[r].host /\ life'[r].answer = life[r].answer
      BY <1>0, <2>1 DEF TypeOK, Life
    <2>5. /\ life[r].answer = None /\ ~Queued(r) /\ ~Held(r)
      BY <1>B, <2>1 DEF Issued, Waits, Handed, Queued, Held
    <2>6. /\ StageOf(r) = "issued" /\ StageOf(r)' = "lost" /\ HostOf(r)' = HostOf(r)
      BY <1>0, <2>1, <2>4, <2>5 DEF Placed, Queued, Held
    <2>7. \A q \in Req : life'[q].answer = life[q].answer
      BY <2>2, <2>4
    <2> QED BY <2>3, <2>6, <2>7, Loses, {r} \in SUBSET Req
  <1>5. ASSUME NEW h \in Id, NEW r \in Req, SubmitAccepted(h, r)
        PROVE  Exchange!Next
    <2>1. /\ challenges[r] # None /\ challenges[r].host = h
          /\ challenges' = [challenges EXCEPT ![r] = None]
          /\ pending' = [pending EXCEPT ![h] = Append(@, r)]
          /\ life' = [life EXCEPT ![r].stage = "accepted", ![r].since = clock]
          /\ UNCHANGED inbox
      BY <1>5 DEF SubmitAccepted, Acceptable, Consumed
    <2>2. \A q \in Req : q # r => life'[q] = life[q] /\ challenges'[q] = challenges[q]
      BY <2>1 DEF TypeOK
    <2>3. \A g \in Id : Elements(pending'[g]) = IF g = h THEN Elements(pending[g]) \cup {r}
                                                ELSE Elements(pending[g])
      <3>1. pending[h] \in Seq(Req) /\ pending'[h] = Append(pending[h], r)
        BY <2>1 DEF TypeOK
      <3>2. Elements(pending'[h]) = Elements(pending[h]) \cup {r}
        BY <3>1, ElementsAppend
      <3>3. \A g \in Id : g # h => pending'[g] = pending[g]
        BY <2>1 DEF TypeOK
      <3> QED BY <3>2, <3>3
    <2>4. Queued(r)' /\ \A q \in Req : q # r => (Queued(q)' <=> Queued(q))
      BY <2>3 DEF Queued
    <2>5. \A q \in Req : q # r => StageOf(q)' = StageOf(q) /\ HostOf(q)' = HostOf(q)
      <3> SUFFICES ASSUME NEW q \in Req, q # r
                   PROVE  StageOf(q)' = StageOf(q) /\ HostOf(q)' = HostOf(q)
        OBVIOUS
      <3>1. (Queued(q)' <=> Queued(q)) /\ (Held(q)' <=> Held(q))
        BY <2>1, <2>4 DEF Held
      <3>2. life'[q] = life[q] /\ challenges'[q] = challenges[q]
        BY <2>2
      <3>3. StageOf(q)' = StageOf(q)
        BY <1>0, <3>1, <3>2, SamePlace
      <3> QED BY <1>0, <3>2, <3>3 DEF Placed
    <2>6. life'[r].host = life[r].host /\ life'[r].answer = life[r].answer
      BY <1>0, <2>1 DEF TypeOK, Life
    <2>7. StageOf(r) = "issued" /\ StageOf(r)' = "queued" /\ HostOf(r)' = HostOf(r)
      BY <1>0, <2>1, <2>4, <2>6 DEF Placed
    <2>8. Exchange!Queue(r)
      BY <2>2, <2>5, <2>6, <2>7 DEF Exchange!Queue
    <2> QED BY <2>8 DEF Exchange!Next
  <1>6. ASSUME NEW p \in Poller, NEW arrives \in BOOLEAN, PollDeliver(p, arrives)
        PROVE  Exchange!Next
    <2>1. PICK h \in Id : h = hostPoll[p].id
      BY <1>6 DEF PollDeliver, TypeOK
    <2> DEFINE S == Elements(pending[h])
    <2>2. /\ pending' = [pending EXCEPT ![h] = <<>>]
          /\ inbox' = IF arrives THEN [inbox EXCEPT ![h] = @ \o pending[h]] ELSE inbox
          /\ life' = [r \in Req |-> IF r \in S THEN [life[r] EXCEPT !.stage = "drained"]
                                    ELSE life[r]]
          /\ UNCHANGED challenges
      BY <1>6, <2>1 DEF PollDeliver, Drained
    <2>3. S \in SUBSET Req
      BY <1>A
    <2>4. ASSUME NEW r \in S
          PROVE  /\ StageOf(r) = "queued" /\ life[r].host = h /\ life[r].answer = None
                 /\ life'[r].host = h /\ life'[r].answer = None
                 /\ life'[r].stage = "drained" /\ challenges[r] = None
                 /\ ~Held(r)
      <3>1. Waits(r, h) /\ Queued(r) /\ r \in Req
        BY <1>B, <2>3 DEF Queued
      <3>2. life'[r] = [life[r] EXCEPT !.stage = "drained"]
        BY <2>2, <3>1
      <3> QED BY <1>0, <1>B, <3>1, <3>2 DEF Placed, Waits, Issued, Handed, Held, Life
    <2>5. \A r \in Req : /\ HostOf(r)' = HostOf(r) /\ life'[r].answer = life[r].answer
                         /\ StageOf(r) = "queued" /\ HostOf(r) = h <=> r \in S
      <3> TAKE r \in Req
      <3>1. r \notin S => life'[r] = life[r]
        BY <2>2
      <3>2. Queued(r) /\ life[r].host = h => r \in S
        BY <1>B DEF Queued, Waits
      <3> QED BY <1>0, <2>4, <3>1, <3>2 DEF Placed
    <2>6. /\ Elements(pending'[h]) = {}
          /\ \A g \in Id : g # h => pending'[g] = pending[g]
      BY <2>2, ElementsEmpty DEF TypeOK
    <2>7. \A r \in S : ~Queued(r)'
      <3> SUFFICES ASSUME NEW r \in S, NEW g \in Id, r \in Elements(pending'[g])
                   PROVE  FALSE
        BY DEF Queued
      <3>1. g # h /\ r \in Elements(pending[g])
        BY <2>6
      <3>2. Waits(r, g) /\ Waits(r, h)
        BY <1>B, <2>3, <3>1
      <3> QED BY <3>1, <3>2 DEF Waits
    <2>8. \A r \in Req : r \notin S => (Queued(r)' <=> Queued(r))
      BY <2>6 DEF Queued
    <2> HIDE DEF S
    <2>9. CASE arrives
      <3>1. \A g \in Id : Elements(inbox'[g]) = IF g = h THEN Elements(inbox[g]) \cup S
                                                ELSE Elements(inbox[g])
        <4>1. /\ inbox[h] \in Seq(Req) /\ pending[h] \in Seq(Req)
              /\ inbox'[h] = inbox[h] \o pending[h]
              /\ \A g \in Id : g # h => inbox'[g] = inbox[g]
          BY <2>2, <2>9 DEF TypeOK
        <4>2. Elements(inbox'[h]) = Elements(inbox[h]) \cup S
          BY <4>1, ElementsConcat DEF S
        <4> QED BY <4>1, <4>2
      <3>2. \A r \in Req : Held(r)' <=> r \in S \/ Held(r)
        BY <3>1 DEF Held
      <3>3. \A r \in S : StageOf(r)' = "handed"
        BY <1>0, <2>3, <3>2 DEF Placed
      <3>4. \A r \in Req : r \notin S => StageOf(r)' = StageOf(r)
        <4> SUFFICES ASSUME NEW r \in Req, r \notin S PROVE StageOf(r)' = StageOf(r)
          OBVIOUS
        <4>1. life'[r] = life[r] /\ challenges'[r] = challenges[r]
          BY <2>2
        <4> QED BY <1>0, <2>8, <3>2, <4>1, SamePlace
      <3>5. Exchange!HandOver(h)
        BY <2>5, <3>3, <3>4 DEF Exchange!HandOver
      <3> QED BY <3>5 DEF Exchange!Next
    <2>10. CASE ~arrives
      <3>1. inbox' = inbox
        BY <2>2, <2>10
      <3>2. ASSUME NEW r \in S PROVE StageOf(r)' = "lost"
        <4>1. ~Held(r)' /\ challenges'[r] = None
          BY <2>2, <2>4, <3>1 DEF Held
        <4> QED BY <1>0, <2>3, <2>4, <2>7, <4>1 DEF Placed
      <3>3. ASSUME NEW r \in Req, r \notin S PROVE StageOf(r)' = StageOf(r)
        <4>1. life'[r] = life[r] /\ challenges'[r] = challenges[r]
          BY <2>2, <3>3
        <4> QED BY <1>0, <2>8, <3>1, <3>3, <4>1, SamePlace DEF Held
      <3> QED BY <2>3, <2>4, <2>5, <3>2, <3>3, Loses
    <2> QED BY <2>9, <2>10
  <1>7. ASSUME NEW h \in Id, inbox[h] # <<>>, inbox' = [inbox EXCEPT ![h] = Tail(@)]
        PROVE  \E r \in Req : /\ r = Head(inbox[h]) /\ Held(r) /\ ~Held(r)'
                              /\ \A q \in Req : q # r => (Held(q)' <=> Held(q))
    <2>0. PICK r : r = Head(inbox[h])
      OBVIOUS
    <2>1. /\ r \in Elements(inbox[h])
          /\ Elements(Tail(inbox[h])) = Elements(inbox[h]) \ {r}
      BY <1>7, <2>0, ElementsTail DEF TypeOK, OnceInv, PlaceInv
    <2>2. r \in Req
      BY <1>A, <2>1
    <2>3. \A g \in Id : Elements(inbox'[g]) = IF g = h THEN Elements(inbox[g]) \ {r}
                                              ELSE Elements(inbox[g])
      BY <1>7, <2>1 DEF TypeOK
    <2>4. Held(r) /\ ~Held(r)'
      <3>1. Held(r) /\ Handed(r, h)
        BY <1>B, <2>1, <2>2 DEF Held
      <3>2. ASSUME NEW g \in Id, r \in Elements(inbox'[g]) PROVE FALSE
        <4>1. g # h /\ r \in Elements(inbox[g])
          BY <2>3, <3>2
        <4>2. Handed(r, g)
          BY <1>B, <2>2, <4>1
        <4> QED BY <3>1, <4>1, <4>2 DEF Handed
      <3> QED BY <3>1, <3>2 DEF Held
    <2>5. \A q \in Req : q # r => (Held(q)' <=> Held(q))
      BY <2>3 DEF Held
    <2> QED BY <2>0, <2>2, <2>4, <2>5
  <1>8. ASSUME NEW h \in Id, NEW res \in Result, PostResult(h, res)
        PROVE  Exchange!Next
    <2>1. inbox[h] # <<>> /\ inbox' = [inbox EXCEPT ![h] = Tail(@)]
      BY <1>8 DEF PostResult
    <2>2. PICK r \in Req : /\ r = Head(inbox[h]) /\ Held(r) /\ ~Held(r)'
                           /\ \A q \in Req : q # r => (Held(q)' <=> Held(q))
      BY <1>7, <2>1
    <2>3. /\ life' = [life EXCEPT ![r].answer = res]
          /\ UNCHANGED <<pending, challenges>>
      BY <1>8, <2>2 DEF PostResult, Posted
    <2>4. \A q \in Req : q # r => life'[q] = life[q]
      BY <2>3 DEF TypeOK
    <2>5. /\ life'[r].host = life[r].host /\ life'[r].answer = res
      BY <1>0, <2>3 DEF TypeOK, Life
    <2>6. \A q \in Req : q # r => StageOf(q)' = StageOf(q) /\ HostOf(q)' = HostOf(q)
      BY <1>0, <2>2, <2>3, <2>4, SamePlace DEF Placed, Queued
    <2>7. StageOf(r) = "handed" /\ StageOf(r)' = "answered" /\ HostOf(r)' = HostOf(r)
      BY <1>0, <2>2, <2>5 DEF Placed
    <2>8. Exchange!Answer(r, res)
      BY <2>4, <2>5, <2>6, <2>7 DEF Exchange!Answer
    <2> QED BY <2>8 DEF Exchange!Next
  <1>S. ASSUME NEW h \in Id, NEW r \in Req, NEW res \in Result, StrayPost(h, r, res)
        PROVE  UNCHANGED Exchange!vars
    <2>1. /\ life' = [life EXCEPT ![r].disputed = TRUE]
          /\ UNCHANGED <<pending, challenges, inbox>>
      BY <1>S DEF StrayPost
    <2>2. \A q \in Req : /\ life'[q].stage = life[q].stage /\ life'[q].host = life[q].host
                         /\ life'[q].answer = life[q].answer
      BY <1>0, <2>1 DEF TypeOK, Life
    <2> QED BY <1>1, <2>1, <2>2
  <1>9. ASSUME NEW h \in Id, ResultLost(h)
        PROVE  Exchange!Next
    <2>1. inbox[h] # <<>> /\ inbox' = [inbox EXCEPT ![h] = Tail(@)]
      BY <1>9 DEF ResultLost
    <2>2. PICK r \in Req : /\ r = Head(inbox[h]) /\ Held(r) /\ ~Held(r)'
                           /\ \A q \in Req : q # r => (Held(q)' <=> Held(q))
      BY <1>7, <2>1
    <2>3. UNCHANGED <<pending, challenges, life>>
      BY <1>9 DEF ResultLost
    <2>4. \A q \in Req : HostOf(q)' = HostOf(q) /\ life'[q].answer = life[q].answer
      BY <1>0, <2>3 DEF Placed
    <2>5. \A q \in Req : q # r => StageOf(q)' = StageOf(q)
      BY <1>0, <2>2, <2>3, SamePlace DEF Queued
    <2>6. StageOf(r) = "handed" /\ StageOf(r)' = "lost"
      <3>1. life[r].answer = None /\ ~Queued(r) /\ challenges[r] = None
        BY <1>B, <2>2 DEF Held, Handed, Queued, Waits, Issued
      <3>2. life'[r].answer = None /\ ~Queued(r)' /\ challenges'[r] = None
        BY <2>3, <3>1 DEF Queued
      <3> QED BY <1>0, <2>2, <2>3, <3>2 DEF Placed
    <2> QED BY <2>4, <2>5, <2>6, Loses, {r} \in SUBSET Req
  <1>10. ASSUME NEW kept \in SUBSET Id, Restart(kept)
         PROVE  Exchange!Next
    <2> DEFINE S == {r \in Req : challenges[r] # None \/ Queued(r)}
    <2>1. /\ \A h \in Id : pending'[h] = <<>>
          /\ \A r \in Req : challenges'[r] = None
          /\ \A r \in Req : life'[r] = IF life[r].stage = "unborn" THEN life[r]
                               ELSE [life[r] EXCEPT !.void = TRUE, !.since = 0]
          /\ inbox' = inbox
      BY <1>10 DEF Restart
    <2>2. \A r \in Req : ~Queued(r)' /\ (Held(r)' <=> Held(r))
      BY <2>1, ElementsEmpty DEF Queued, Held
    <2>3. \A r \in Req : /\ life'[r].stage = life[r].stage /\ life'[r].host = life[r].host
                         /\ life'[r].answer = life[r].answer
      <3> SUFFICES ASSUME NEW r \in Req
                   PROVE  /\ life'[r].stage = life[r].stage /\ life'[r].host = life[r].host
                          /\ life'[r].answer = life[r].answer
        OBVIOUS
      <3>1. life[r] \in Life
        BY <1>0
      <3>2. life'[r] = life[r] \/ life'[r] = [life[r] EXCEPT !.void = TRUE, !.since = 0]
        BY <2>1
      <3> QED BY <3>1, <3>2 DEF Life
    <2>4. \A r \in Req : HostOf(r)' = HostOf(r)
      BY <1>0, <2>3 DEF Placed
    <2>5. ASSUME NEW r \in Req, r \notin S PROVE StageOf(r)' = StageOf(r)
      BY <1>0, <2>1, <2>2, <2>3, <2>5, SamePlace
    <2>6. ASSUME NEW r \in S
          PROVE  StageOf(r) \in {"issued", "queued"} /\ StageOf(r)' = "lost"
      <3>1. ~Held(r) /\ life[r].answer = None /\ life[r].stage # "unborn"
        BY <1>B DEF Held, Queued, Issued, Waits, Handed
      <3> QED BY <1>0, <2>1, <2>2, <2>3, <3>1 DEF Placed
    <2> HIDE DEF S
    <2>7. S \in SUBSET Req
      BY DEF S
    <2> QED BY <2>3, <2>4, <2>5, <2>6, <2>7, Loses
  <1>11. ASSUME NEW r \in Req, ClientPollAnswer(r) PROVE UNCHANGED Exchange!vars
    <2>1. /\ life' = [life EXCEPT ![r].seen = results[r].result]
          /\ UNCHANGED <<pending, challenges, inbox>>
      BY <1>11 DEF ClientPollAnswer
    <2>2. \A q \in Req : /\ life'[q].stage = life[q].stage /\ life'[q].host = life[q].host
                         /\ life'[q].answer = life[q].answer
      BY <1>0, <2>1 DEF TypeOK, Life
    <2> QED BY <1>1, <2>1, <2>2
  <1>12. CASE UNCHANGED <<pending, challenges, inbox, life>>
    BY <1>1, <1>12
  <1> QED
    BY <1>2, <1>3, <1>4, <1>5, <1>6, <1>8, <1>S, <1>9, <1>10, <1>11, <1>12
    DEF Next, vars, ChallengeStep, PollStep, ClientPollStep,
        Register, Heartbeat, ChallengeUnknownHost, ChallengeLimited, PollStart,
        PollUnknownHost, PollEmpty, PollArm, PollTimeout, PollDropped,
        ClientPollStart, ClientPollUnknown, ClientPollEmpty, ClientPollArm,
        ClientPollTimeout, ClientPollDropped, Tick

\* The server is a PairExchange: a request id is issued for one host, becomes a
\* request once, is handed to that host's agent once and answered by it once,
\* whatever the polls, the expiries, the restarts and results out of turn do.
THEOREM ServerIsExchange == Spec => ImplementsExchange
  <1>1. TypeOK /\ TypeOK' /\ OnceInv /\ AllPlaced /\ AllPlaced' /\ [Next]_vars
        => [Exchange!Next]_(Exchange!vars)
    BY ExchangeStep
  <1> QED
    BY <1>1, ExchangeInit, OnceInvariant, InvPlaced, PTL
    DEF Spec, ImplementsExchange, Exchange!Spec
=============================================================================
