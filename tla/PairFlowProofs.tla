--------------------------- MODULE PairFlowProofs ---------------------------
(***************************************************************************)
(* Pairing by password, end to end: what the handshake, the agent and the  *)
(* courier promise together, for every number of devices, whoever knows    *)
(* the password, in every setting and every order of their steps.          *)
(***************************************************************************)
EXTENDS PairFlow, FiniteSetTheorems, SequenceTheorems, TLAPS

-----------------------------------------------------------------------------
(* The inductive invariant.                                                *)

\* Apollo has seen the last phase of the handshake that could list d.
Past(d) ==
    \/ shake[d].step \in {"pairchallenge", "done"}
    \/ shake[d].step = "clientpairingsecret" /\ shake[d].at \in {"reply", "ended"}

\* ... and its answer was not a refusal.
Proven(d) ==
    \/ shake[d].step \in {"pairchallenge", "done"}
    \/ /\ shake[d].step = "clientpairingsecret" /\ shake[d].at = "reply"
       /\ shake[d].body # "refused"

\* Apollo has a PIN for d, or has gone on with one.
GotOn(d) ==
    \/ shake[d].step # "getservercert"
    \/ shake[d].at = "pinned"
    \/ shake[d].at = "reply" /\ shake[d].body # "refused"

\* A PIN comes once, while the session is parked; nobody gets on without one.
ShakeInv ==
    \A d \in Device :
        /\ shake[d].at \in {"unborn", "parked", "pinned"} => shake[d].step = "getservercert"
        /\ shake[d].step = "getservercert" /\ shake[d].at \in {"unborn", "sent", "parked"}
              => shake[d].pin = None
        /\ GotOn(d) => shake[d].pin # None
        /\ shake[d].step = "done" => shake[d].at = "ended"
        /\ shake[d].pin # None => <<d, shake[d].pin>> \in fed

\* Whose certificate Apollo holds, under which key and name, and whose hash.
ApolloInv ==
    /\ apollo.cert # None =>
          /\ shake[apollo.cert].pin # None
          /\ pendingName = shake[apollo.cert].pin \/ Past(apollo.cert)
    /\ apollo.key # None =>
          apollo.cert # None /\ apollo.key = <<apollo.cert, shake[apollo.cert].pin>>
    /\ apollo.hash # None => shake[apollo.hash].pin = apollo.hash

IsListed(d) == \E i \in 1..Len(clients) : clients[i].device = d

ListInv ==
    /\ \A i \in 1..Len(clients) :
          /\ shake[clients[i].device].pin = clients[i].device
          /\ Past(clients[i].device)
          /\ clients[i].name = clients[i].device
    /\ \A d \in Device : Proven(d) => IsListed(d)

\* Who has started, who is being served, and for whom PINs are entered.
ServedInv ==
    /\ setting \in Setting
    /\ \A c \in Client :
          /\ stage[c] # "unborn" => c \in setting.who
          /\ stage[c] \in {"unborn", "issued"} => shake[c].at = "unborn"
          /\ session[c] = "waits" => shake[c].at # "unborn"
          /\ stage[c] = "answered" => answer[c] # None
    /\ \A d \in Guest : d \notin setting.who => shake[d].at = "unborn"
    /\ agent.phase # "idle" => agent.req \in Client /\ stage[agent.req] = "handed"
    /\ agent.phase \in {"list", "pin", "look", "update"} => knows[agent.req]
    /\ agent.phase = "post" => agent.result # None
    /\ \A f \in fed : f[2] \in Guest \/ knows[f[2]]

FlowInv == ShakeInv /\ ApolloInv /\ ListInv /\ ServedInv

\* Each grant is paid for by a client that knew the password and was served.
Controls == {i \in 1..Len(clients) : clients[i].perm = "control"}
Earned ==
    {c \in setting.who \cap Client :
        /\ knows[c]
        /\ stage[c] \in {"answered", "lost"} \/ (agent.phase = "post" /\ agent.req = c)}
EarnedInv == Cardinality(Controls) <= Cardinality(Earned)

\* d has its own PIN and Apollo may yet list it.
CanList(d) ==
    shake[d].pin = d /\ shake[d].at \in {"sent", "pinned", "reply"} /\ ~Past(d)

\* With no faults and no guests only the client being served can be listed, and
\* those the agent gave up before, so what the list has more than before is
\* theirs.  Once one of those got the permissions, nothing is known any more.
Quietly == setting.faults = {} /\ setting.who \cap Guest = {}

Served(d) == agent.phase \in {"pin", "look", "update"} /\ agent.req = d

Abandoned(d) ==
    /\ d \in Client
    /\ GivenUp(d) \/ (agent.phase = "post" /\ agent.req = d /\ agent.result = "failed")

Misled == \E d \in Client : GivenUp(d) /\ Granted(d)

ServesOneInv ==
    /\ \A d \in Device : CanList(d) => Served(d) \/ Abandoned(d)
    /\ agent.phase \in {"pin", "look", "update"} =>
          /\ agent.before <= Len(clients)
          /\ \A i \in 1..Len(clients) : i > agent.before =>
                clients[i].device = agent.req \/ Abandoned(clients[i].device)
    /\ agent.phase = "update" => agent.before < Len(clients)
    /\ agent.phase = "post" /\ agent.result = "paired" => Granted(agent.req)
    /\ \A c \in Client : answer[c] = "paired" \/ session[c] = "paired" => Granted(c)

QuietInv == Quietly => Misled \/ ServesOneInv

-----------------------------------------------------------------------------
(* Types.                                                                  *)

\* The steps, their order, and what the operators of Handshake return.
LEMMA StepTypes ==
    /\ \A s \in Steps : StepAfter[s] \in (Steps \cup {"done"}) \ {"getservercert"}
    /\ \A s \in Steps : /\ StepAfter[s] = "pairchallenge" <=> s = "clientpairingsecret"
                        /\ StepAfter[s] = "done" <=> s = "pairchallenge"
                        /\ StepAfter[s] = "clientpairingsecret" <=> s = "serverchallengeresp"
  BY DEF Steps, StepAfter

LEMMA HostTypes ==
    ASSUME NEW hs \in HostState, NEW d \in Device
    PROVE  /\ \A pin \in Device : Keyed(hs, d, pin) \in HostState
           /\ \A step, told : StateAfter(hs, d, step, told) \in HostState
           /\ NoSession \in HostState
  BY DEF HostState, Keyed, StateAfter, Hashed, NoSession

LEMMA BodyTypes ==
    ASSUME NEW hs, NEW d, NEW step \in Steps \ {"getservercert"}
    PROVE  /\ BodyFor(hs, d, step) \in {"good", "garbage", "refused"}
           /\ step = "clientchallenge" => BodyFor(hs, d, step) \in {"good", "garbage"}
           /\ step = "clientpairingsecret" => BodyFor(hs, d, step) \in {"good", "refused"}
  BY DEF BodyFor, Steps

LEMMA InitType == Init => TypeOK
  <1> SUFFICES ASSUME Init PROVE TypeOK
    OBVIOUS
  <1>1. Courier!TypeOK
    BY FlowAssumption DEF Init, Courier!Init, Courier!TypeOK, Courier!Stages
  <1>2. NoShake \in Shake /\ IdleAgent \in AgentState /\ NoSession \in HostState
    BY DEF NoShake, Shake, Steps, IdleAgent, AgentState, NoSession, HostState
  <1> QED BY <1>1, <1>2 DEF Init, TypeOK

-----------------------------------------------------------------------------
(* What a step can do to the handshake, whoever takes it.                  *)

apolloSide == <<parked, apollo, pendingName, clients, fed>>

Starts(d) ==
    /\ d \in setting.who /\ shake[d].at = "unborn"
    /\ d \in Client => stage'[d] = "queued"
    /\ shake' = [shake EXCEPT ![d].at = "sent"]
    /\ UNCHANGED apolloSide

Ends(d) ==
    /\ shake[d].at # "unborn"
    /\ shake' = [shake EXCEPT ![d].at = "ended"]
    /\ UNCHANGED apolloSide

Enters(pin) ==
    /\ \/ pin \in Guest /\ shake[pin].at # "unborn"
       \/ agent.phase = "pin" /\ agent.req = pin
    /\ parked # None
    /\ Enter(pin)
    /\ UNCHANGED <<apollo, pendingName, clients>>

Grants ==
    /\ agent.phase = "update" /\ agent'.phase = "post" /\ agent'.req = agent.req
    /\ Grant
    /\ UNCHANGED <<shake, parked, apollo, pendingName, fed>>

HandStep ==
    \/ UNCHANGED <<shake, apolloSide>>
    \/ \E d \in Device : Starts(d) \/ Ends(d)
    \/ \E d \in Device : Park(d) \/ Resume(d) \/ Handle(d) \/ Receive(d)
    \/ \E pin \in Device : Enters(pin)
    \/ Grants

LEMMA StepIsHandStep ==
    ASSUME TypeOK, ServedInv, [Next]_vars
    PROVE  HandStep /\ UNCHANGED <<setting, knows>>
  <1> USE DEF apolloSide, apolloVars, courier, moving
  <1>1. ASSUME NEW c \in Client, ClientStep(c)
        PROVE  HandStep /\ UNCHANGED knows
    <2>0. c \in Device
      BY DEF Device
    <2>1. CASE Ask(c)
      BY <2>1 DEF Ask, HandStep
    <2>2. CASE Submit(c)
      <3>1. /\ stage[c] = "issued" /\ shake' = [shake EXCEPT ![c].at = "sent"]
            /\ stage'[c] = "queued"
            /\ UNCHANGED <<knows, apolloVars, fed>>
        BY <2>2 DEF Submit, Courier!Queue, TypeOK, Courier!TypeOK
      <3>2. Starts(c)
        BY <2>0, <3>1 DEF ServedInv, Starts
      <3> QED BY <2>0, <3>1, <3>2 DEF HandStep
    <2>3. CASE SubmitUnanswered(c)
      BY <2>3 DEF SubmitUnanswered, HandStep
    <2>4. CASE WatchEnd(c) \/ WatchFail(c)
      <3>1. /\ session[c] = "waits" /\ shake' = Dropped(c)
            /\ UNCHANGED <<knows, apolloVars, fed>>
        BY <2>4 DEF WatchEnd, WatchFail
      <3>2. CASE Outlives
        BY <3>1, <3>2 DEF Dropped, HandStep
      <3>3. CASE ~Outlives
        <4>1. Ends(c)
          BY <3>1, <3>3 DEF Dropped, Ends, ServedInv
        <4> QED BY <2>0, <3>1, <4>1 DEF HandStep
      <3> QED BY <3>2, <3>3
    <2> QED BY <1>1, <2>1, <2>2, <2>3, <2>4 DEF ClientStep
  <1>2. ASSUME NEW c \in Client, AgentTake(c) \/ RequestLost(c)
        PROVE  HandStep /\ UNCHANGED knows
    BY <1>2 DEF AgentTake, RequestLost, HandStep
  <1>3. ASSUME NEW d \in Device, ShakeStep(d)
        PROVE  HandStep /\ UNCHANGED knows
    <2>1. CASE BreakOff(d)
      <3>1. Ends(d) /\ UNCHANGED knows
        BY <2>1 DEF BreakOff, Ends
      <3> QED BY <3>1 DEF HandStep
    <2>2. CASE Park(d) \/ Resume(d) \/ Handle(d) \/ Receive(d)
      <3>1. UNCHANGED knows
        BY <2>2 DEF Park, Resume, Handle, Receive
      <3> QED BY <2>2, <3>1 DEF HandStep
    <2> QED BY <1>3, <2>1, <2>2 DEF ShakeStep
  <1>4. ASSUME NEW d \in Guest, GuestStarts(d) \/ OwnerPin(d)
        PROVE  HandStep /\ UNCHANGED knows
    <2>0. d \in Device
      BY DEF Device
    <2>1. CASE GuestStarts(d)
      <3>1. Starts(d) /\ UNCHANGED knows
        BY <2>1, FlowAssumption DEF GuestStarts, Starts
      <3> QED BY <2>0, <3>1 DEF HandStep
    <2>2. CASE OwnerPin(d)
      <3>1. Enters(d) /\ UNCHANGED knows
        BY <2>2 DEF OwnerPin, Enters
      <3> QED BY <2>0, <3>1 DEF HandStep
    <2> QED BY <1>4, <2>1, <2>2
  <1>5. ASSUME AgentPoll \/ AgentDies PROVE HandStep /\ UNCHANGED knows
    BY <1>5 DEF AgentPoll, AgentDies, HandStep
  <1>6. ASSUME AgentStep PROVE HandStep /\ UNCHANGED knows
    <2>1. CASE AgentList \/ AgentPinNotDue \/ AgentLook \/ AgentGivesUp
               \/ AgentEvicted \/ AgentPost
      BY <2>1 DEF AgentList, AgentPinNotDue, AgentLook, AgentGivesUp, AgentEvicted,
                  AgentPost, HandStep
    <2>2. ASSUME agent.phase = "pin", parked # None, Enter(agent.req),
                 UNCHANGED <<apollo, pendingName, clients>>
          PROVE  HandStep
      <3>1. PICK pin \in Device : pin = agent.req
        BY <2>2 DEF ServedInv, Device
      <3>2. Enters(pin)
        BY <2>2, <3>1 DEF Enters
      <3> QED BY <3>2 DEF HandStep
    <2>3. CASE AgentPin
      BY <2>2, <2>3 DEF AgentPin, HandStep
    <2>4. CASE AgentUpdate
      <3>1. agent'.phase = "post" /\ agent'.req = agent.req
        BY <2>4 DEF AgentUpdate, TypeOK, AgentState
      <3> QED BY <2>4, <3>1 DEF AgentUpdate, Grants, HandStep
    <2>5. CASE ApolloError
      <3>1. CASE UNCHANGED <<shake, parked, clients, fed>>
        BY <2>5, <3>1 DEF ApolloError, HandStep
      <3>2. CASE agent.phase = "pin" /\ parked # None /\ Enter(agent.req) /\ UNCHANGED clients
        BY <2>2, <2>5, <3>2 DEF ApolloError
      <3>3. CASE agent.phase = "update" /\ Grant /\ UNCHANGED <<shake, parked, fed>>
        <4>1. agent'.phase = "post" /\ agent'.req = agent.req
          BY <2>5 DEF ApolloError, TypeOK, AgentState
        <4> QED BY <2>5, <3>3, <4>1 DEF ApolloError, Grants, HandStep
      <3>4. UNCHANGED knows
        BY <2>5 DEF ApolloError
      <3> QED BY <2>5, <3>1, <3>2, <3>3, <3>4 DEF ApolloError
    <2>6. UNCHANGED knows
      BY <1>6 DEF AgentStep, AgentList, AgentPin, AgentPinNotDue, AgentLook, AgentUpdate,
                  AgentGivesUp, ApolloError, AgentEvicted, AgentPost
    <2> QED BY <1>6, <2>1, <2>3, <2>4, <2>5, <2>6 DEF AgentStep
  <1>7. CASE UNCHANGED vars
    BY <1>7 DEF vars, HandStep
  <1>8. CASE Next
    BY <1>1, <1>2, <1>3, <1>4, <1>5, <1>6, <1>8 DEF Next, Step
  <1> QED BY <1>7, <1>8

-----------------------------------------------------------------------------
(* What becomes of one presenter.                                          *)

\* The request it has out is sent, parked, answered or given up.
Waiting(d) ==
    /\ shake'[d].step = shake[d].step /\ shake'[d].pin = shake[d].pin
    /\ \/ shake[d].at = "unborn" /\ shake'[d].at = "sent"
       \/ shake[d].at # "unborn" /\ shake'[d].at = "ended"
       \/ /\ shake[d].at = "sent" /\ shake[d].step = "getservercert"
          /\ shake'[d].at = "parked"
       \/ /\ shake[d].at = "parked"
          /\ shake'[d].at = "reply" /\ shake'[d].body = "refused"
       \/ /\ shake[d].at = "pinned"
          /\ shake'[d].at = "reply" /\ shake'[d].body = "good"
       \/ /\ shake[d].at = "sent" /\ shake[d].step \in Steps \ {"getservercert"}
          /\ shake'[d].at = "reply"
          /\ shake'[d].body = BodyFor(apollo, d, shake[d].step)

Pinned(d) ==
    /\ shake[d].at = "parked" /\ shake'[d].at = "pinned"
    /\ shake'[d].step = shake[d].step
    /\ shake'[d].pin \in Device /\ <<d, shake'[d].pin>> \in fed'

Advances(d) ==
    /\ shake[d].at = "reply" /\ shake[d].body # "refused"
    /\ shake[d].step \in Steps /\ shake'[d].step = StepAfter[shake[d].step]
    /\ shake'[d].pin = shake[d].pin
    /\ shake'[d].at = IF shake'[d].step = "done" THEN "ended" ELSE "sent"

Turn(d) ==
    /\ shake'[d] \in Shake
    /\ shake'[d] = shake[d] \/ Waiting(d) \/ Pinned(d) \/ Advances(d)

\* One presenter changed, and made a turn.
LEMMA OneTurn ==
    ASSUME TypeOK, NEW d \in Device, NEW sh \in Shake, shake' = [shake EXCEPT ![d] = sh],
           Turn(d)
    PROVE  shake' \in [Device -> Shake] /\ \A e \in Device : Turn(e)
  <1>1. \A e \in Device : e # d => shake'[e] = shake[e]
    BY DEF TypeOK
  <1> QED BY <1>1 DEF TypeOK, Turn

LEMMA EnterTurn ==
    ASSUME TypeOK, ShakeInv, NEW pin \in Device, parked # None, Enter(pin)
    PROVE  /\ shake' \in [Device -> Shake]
           /\ \A d \in Device : Turn(d)
           /\ fed' \in SUBSET (Device \X Device) /\ fed \subseteq fed'
           /\ parked' = None
           /\ \A f \in fed' : f \in fed \/ f[2] = pin
           /\ \A d \in Device : \/ shake'[d] = shake[d]
                                \/ d = parked /\ shake'[d].pin = pin /\ Pinned(d)
  <1>1. PICK d \in Device : d = parked
    BY DEF TypeOK
  <1> DEFINE sh == [shake[d] EXCEPT !.at = "pinned", !.pin = pin]
  <1>2. CASE shake[d].at # "parked"
    <2>1. shake' = shake /\ fed' = fed /\ parked' = None
      BY <1>1, <1>2 DEF Enter
    <2> QED BY <2>1 DEF TypeOK, Turn
  <1>3. CASE shake[d].at = "parked"
    <2>1. /\ shake' = [shake EXCEPT ![d].at = "pinned", ![d].pin = pin]
          /\ fed' = fed \cup {<<d, pin>>} /\ parked' = None
      BY <1>1, <1>3 DEF Enter
    <2>2. shake[d] \in Shake
      BY DEF TypeOK
    <2>3. sh \in Shake /\ sh.at = "pinned" /\ sh.pin = pin /\ sh.step = shake[d].step
      BY <2>2 DEF Shake
    <2>4. shake' = [shake EXCEPT ![d] = sh]
      BY <2>1, <2>2 DEF TypeOK, Shake
    <2> HIDE DEF sh
    <2>5. shake'[d] = sh
      BY <2>4 DEF TypeOK
    <2>6. Pinned(d)
      BY <1>3, <2>1, <2>3, <2>5 DEF Pinned
    <2>7. shake' \in [Device -> Shake] /\ \A e \in Device : Turn(e)
      BY <2>3, <2>4, <2>5, <2>6, OneTurn DEF Turn
    <2>8. \A e \in Device : e # d => shake'[e] = shake[e]
      BY <2>4 DEF TypeOK
    <2> QED BY <1>1, <2>1, <2>3, <2>5, <2>6, <2>7, <2>8 DEF TypeOK
  <1> QED BY <1>2, <1>3

LEMMA ParkTurn ==
    ASSUME TypeOK, ShakeInv, NEW d \in Device, Park(d)
    PROVE  shake' \in [Device -> Shake] /\ \A e \in Device : Turn(e)
  <1>1. ASSUME NEW e \in Device PROVE Turn(e)
    <2>1. shake[e] \in Shake
      BY DEF TypeOK
    <2>2. CASE shake'[e] = shake[e]
      BY <2>1, <2>2 DEF Turn
    <2>3. CASE e = d /\ shake'[e] = [shake[e] EXCEPT !.at = "parked"]
      <3>1. shake[e].at = "sent" /\ shake[e].step = "getservercert"
        BY <2>3 DEF Park
      <3> QED BY <2>1, <2>3, <3>1 DEF Turn, Waiting, Shake
    <2>4. CASE /\ shake[e].at = "parked"
               /\ shake'[e] = [shake[e] EXCEPT !.at = "reply", !.body = "refused"]
      BY <2>1, <2>4 DEF Turn, Waiting, Shake
    <2> QED BY <2>2, <2>3, <2>4 DEF Park
  <1>2. DOMAIN shake' = Device /\ shake' = [e \in Device |-> shake'[e]]
    BY DEF Park
  <1> QED BY <1>1, <1>2 DEF Turn

LEMMA ResumeTurn ==
    ASSUME TypeOK, ShakeInv, NEW d \in Device, Resume(d)
    PROVE  /\ shake' \in [Device -> Shake]
           /\ \A e \in Device : Turn(e)
           /\ \A e \in Device : e # d => shake'[e] = shake[e]
           /\ shake'[d].pin = shake[d].pin /\ shake[d].pin \in Device
           /\ shake'[d].at = "reply" /\ shake'[d].step = "getservercert"
           /\ shake'[d].body = "good"
  <1> DEFINE sh == [shake[d] EXCEPT !.at = "reply", !.body = "good"]
  <1>1. shake[d] \in Shake /\ shake[d].at = "pinned"
    BY DEF Resume, TypeOK
  <1>2. shake[d].step = "getservercert" /\ shake[d].pin \in Device
    BY <1>1 DEF ShakeInv, GotOn, Shake
  <1>3. /\ sh \in Shake /\ sh.at = "reply" /\ sh.body = "good" /\ sh.pin = shake[d].pin
        /\ sh.step = shake[d].step
    BY <1>1 DEF Shake
  <1>4. shake' = [shake EXCEPT ![d] = sh]
    BY <1>1 DEF Resume, TypeOK, Shake
  <1> HIDE DEF sh
  <1>5. shake'[d] = sh
    BY <1>4 DEF TypeOK
  <1>6. Turn(d)
    BY <1>1, <1>3, <1>5 DEF Turn, Waiting
  <1>7. \A e \in Device : e # d => shake'[e] = shake[e]
    BY <1>4 DEF TypeOK
  <1> QED BY <1>2, <1>3, <1>4, <1>5, <1>6, <1>7, OneTurn

LEMMA HandleTurn ==
    ASSUME TypeOK, ShakeInv, NEW d \in Device, Handle(d)
    PROVE  /\ shake' \in [Device -> Shake]
           /\ \A e \in Device : Turn(e)
           /\ \A e \in Device : e # d => shake'[e] = shake[e]
           /\ shake'[d].pin = shake[d].pin /\ shake[d].at = "sent"
           /\ shake'[d].at = "reply" /\ shake'[d].step = shake[d].step
           /\ shake[d].step \in Steps \ {"getservercert"}
           /\ shake'[d].body = BodyFor(apollo, d, shake[d].step)
  <1> DEFINE body == BodyFor(apollo, d, shake[d].step)
             sh == [shake[d] EXCEPT !.at = "reply", !.body = body]
  <1>1. shake[d] \in Shake /\ shake[d].at = "sent" /\ shake[d].step # "getservercert"
    BY DEF Handle, TypeOK
  <1>2. shake[d].step \in Steps \ {"getservercert"}
    BY <1>1 DEF ShakeInv, Shake
  <1>3. body \in {"good", "garbage", "refused"}
    BY <1>2, BodyTypes
  <1>4. shake' = [shake EXCEPT ![d].at = "reply", ![d].body = body]
    BY DEF Handle
  <1> HIDE DEF body
  <1>5. /\ sh \in Shake /\ sh.at = "reply" /\ sh.body = body /\ sh.pin = shake[d].pin
        /\ sh.step = shake[d].step
    BY <1>1, <1>3 DEF Shake
  <1>6. shake' = [shake EXCEPT ![d] = sh]
    BY <1>1, <1>4 DEF TypeOK, Shake
  <1> HIDE DEF sh
  <1>7. shake'[d] = sh
    BY <1>6 DEF TypeOK
  <1>8. Turn(d)
    BY <1>1, <1>2, <1>5, <1>7 DEF Turn, Waiting, body
  <1>9. \A e \in Device : e # d => shake'[e] = shake[e]
    BY <1>6 DEF TypeOK
  <1> QED BY <1>1, <1>2, <1>5, <1>6, <1>7, <1>8, <1>9, OneTurn DEF body

LEMMA ReceiveTurn ==
    ASSUME TypeOK, ShakeInv, NEW d \in Device, Receive(d)
    PROVE  shake' \in [Device -> Shake] /\ \A e \in Device : Turn(e)
  <1>1. shake[d] \in Shake /\ shake[d].at = "reply"
    BY DEF Receive, TypeOK
  <1>2. shake[d].step \in Steps
    BY <1>1 DEF ShakeInv, Shake
  <1>3. CASE Accepts(shake[d].step, shake[d].told, shake[d].body)
    <2> DEFINE sh == Advanced(shake[d], StepAfter[shake[d].step])
    <2>1. shake[d].body # "refused"
      BY <1>3 DEF Accepts
    <2>2. /\ sh \in Shake /\ sh.step = StepAfter[shake[d].step] /\ sh.pin = shake[d].pin
          /\ sh.at = IF sh.step = "done" THEN "ended" ELSE "sent"
      BY <1>1, <1>2, <2>1, StepTypes DEF Advanced, Shake
    <2>3. shake' = [shake EXCEPT ![d] = sh]
      BY <1>3 DEF Receive
    <2> HIDE DEF sh
    <2>4. shake'[d] = sh
      BY <2>3 DEF TypeOK
    <2>5. Turn(d)
      BY <1>1, <1>2, <2>1, <2>2, <2>4 DEF Turn, Advances
    <2> QED BY <2>2, <2>3, <2>5, OneTurn
  <1>4. CASE ~Accepts(shake[d].step, shake[d].told, shake[d].body)
    <2> DEFINE sh == [shake[d] EXCEPT !.at = "ended"]
    <2>1. sh \in Shake /\ sh.at = "ended" /\ sh.step = shake[d].step /\ sh.pin = shake[d].pin
      BY <1>1 DEF Shake
    <2>2. shake' = [shake EXCEPT ![d] = sh]
      BY <1>4 DEF Receive
    <2> HIDE DEF sh
    <2>3. shake'[d] = sh
      BY <2>2 DEF TypeOK
    <2>4. Turn(d)
      BY <1>1, <2>1, <2>3 DEF Turn, Waiting
    <2> QED BY <2>1, <2>2, <2>4, OneTurn
  <1> QED BY <1>3, <1>4

LEMMA StartEndTurn ==
    ASSUME TypeOK, NEW d \in Device, Starts(d) \/ Ends(d)
    PROVE  shake' \in [Device -> Shake] /\ \A e \in Device : Turn(e)
  <1>1. shake[d] \in Shake
    BY DEF TypeOK
  <1>2. PICK at \in {"sent", "ended"} :
           /\ shake' = [shake EXCEPT ![d].at = at]
           /\ at = "sent" => shake[d].at = "unborn"
           /\ at = "ended" => shake[d].at # "unborn"
    BY DEF Starts, Ends
  <1> DEFINE sh == [shake[d] EXCEPT !.at = at]
  <1>3. sh \in Shake /\ sh.at = at /\ sh.step = shake[d].step /\ sh.pin = shake[d].pin
    BY <1>1 DEF Shake
  <1>4. shake' = [shake EXCEPT ![d] = sh]
    BY <1>1, <1>2 DEF TypeOK, Shake
  <1> HIDE DEF sh
  <1>5. shake'[d] = sh
    BY <1>4 DEF TypeOK
  <1>6. Turn(d)
    BY <1>2, <1>3, <1>5 DEF Turn, Waiting
  <1> QED BY <1>3, <1>4, <1>6, OneTurn

LEMMA AllTurn ==
    ASSUME TypeOK, ShakeInv, HandStep
    PROVE  /\ shake' \in [Device -> Shake] /\ \A d \in Device : Turn(d)
           /\ fed \subseteq fed'
  <1> USE DEF apolloSide
  <1>1. CASE UNCHANGED <<shake, apolloSide>>
    BY <1>1 DEF TypeOK, Turn
  <1>2. ASSUME NEW d \in Device, Starts(d) \/ Ends(d)
        PROVE  /\ shake' \in [Device -> Shake] /\ \A e \in Device : Turn(e)
               /\ fed' = fed
    BY <1>2, StartEndTurn DEF Starts, Ends
  <1>3. ASSUME NEW d \in Device, Park(d) \/ Resume(d) \/ Handle(d) \/ Receive(d)
        PROVE  /\ shake' \in [Device -> Shake] /\ \A e \in Device : Turn(e)
               /\ fed' = fed
    <2>1. fed' = fed
      BY <1>3 DEF Park, Resume, Handle, Receive, apolloVars
    <2> QED BY <1>3, <2>1, ParkTurn, ResumeTurn, HandleTurn, ReceiveTurn
  <1>4. ASSUME NEW pin \in Device, Enters(pin)
        PROVE  /\ shake' \in [Device -> Shake] /\ \A e \in Device : Turn(e)
               /\ fed \subseteq fed'
    BY <1>4, EnterTurn DEF Enters
  <1>5. CASE Grants
    BY <1>5 DEF Grants, TypeOK, Turn
  <1> QED BY <1>1, <1>2, <1>3, <1>4, <1>5 DEF HandStep

\* A PIN once entered stays, and what Apollo has seen it has seen.
LEMMA Steady ==
    ASSUME ShakeInv, NEW d \in Device, Turn(d)
    PROVE  /\ shake[d].pin # None => shake'[d].pin = shake[d].pin
           /\ Past(d) => Past(d)'
           /\ shake[d].at # "unborn" => shake'[d].at # "unborn"
  <1>1. /\ shake[d].at \in {"unborn", "parked", "pinned"} => shake[d].step = "getservercert"
        /\ shake[d].at = "parked" => shake[d].pin = None
        /\ shake[d].step = "done" => shake[d].at = "ended"
    BY DEF ShakeInv
  <1>2. shake[d].pin # None => shake'[d].pin = shake[d].pin
    BY <1>1 DEF Turn, Waiting, Pinned, Advances
  <1>3. Past(d) => Past(d)'
    <2>1. CASE shake'[d] = shake[d]
      BY <2>1 DEF Past
    <2>2. CASE Waiting(d)
      BY <1>1, <2>2 DEF Waiting, Past
    <2>3. CASE Pinned(d)
      BY <1>1, <2>3 DEF Pinned, Past
    <2>4. CASE Advances(d)
      BY <1>1, <2>4, StepTypes DEF Advances, Past
    <2> QED BY <2>1, <2>2, <2>3, <2>4 DEF Turn
  <1>4. shake[d].at # "unborn" => shake'[d].at # "unborn"
    BY DEF Turn, Waiting, Pinned, Advances
  <1> QED BY <1>2, <1>3, <1>4

LEMMA NextShake ==
    ASSUME TypeOK, ShakeInv, HandStep
    PROVE  ShakeInv'
  <1> SUFFICES ASSUME NEW d \in Device
               PROVE  /\ shake'[d].at \in {"unborn", "parked", "pinned"}
                           => shake'[d].step = "getservercert"
                      /\ shake'[d].step = "getservercert"
                           /\ shake'[d].at \in {"unborn", "sent", "parked"}
                           => shake'[d].pin = None
                      /\ GotOn(d)' => shake'[d].pin # None
                      /\ shake'[d].step = "done" => shake'[d].at = "ended"
                      /\ shake'[d].pin # None => <<d, shake'[d].pin>> \in fed'
    BY DEF ShakeInv
  <1>1. Turn(d) /\ fed \subseteq fed'
    BY AllTurn
  <1>2. /\ shake[d].at \in {"unborn", "parked", "pinned"} => shake[d].step = "getservercert"
        /\ shake[d].step = "getservercert" /\ shake[d].at \in {"unborn", "sent", "parked"}
              => shake[d].pin = None
        /\ GotOn(d) => shake[d].pin # None
        /\ shake[d].step = "done" => shake[d].at = "ended"
        /\ shake[d].pin # None => <<d, shake[d].pin>> \in fed
    BY DEF ShakeInv
  <1>3. CASE shake'[d] = shake[d]
    BY <1>1, <1>2, <1>3 DEF GotOn
  <1>4. CASE Waiting(d)
    BY <1>1, <1>2, <1>4 DEF Waiting, GotOn
  <1>5. CASE Pinned(d)
    <2>1. shake'[d].pin # None
      BY <1>5, FlowAssumption DEF Pinned
    <2> QED BY <1>1, <1>2, <1>5, <2>1 DEF Pinned, GotOn
  <1>6. CASE Advances(d)
    BY <1>1, <1>2, <1>6, StepTypes DEF Advances, GotOn
  <1> QED BY <1>1, <1>3, <1>4, <1>5, <1>6 DEF Turn

-----------------------------------------------------------------------------
(* The one handshake state, and the list.                                  *)

LEMMA OnlyHandleAnswers ==
    ASSUME TypeOK, ShakeInv, HandStep, NEW e \in Device,
           shake[e].at = "sent", shake'[e].at = "reply"
    PROVE  Handle(e)
  <1>1. ~UNCHANGED shake
    OBVIOUS
  <1>2. \A d \in Device : ~Starts(d) /\ ~Ends(d)
    <2> SUFFICES ASSUME NEW d \in Device, Starts(d) \/ Ends(d) PROVE FALSE
      OBVIOUS
    <2>1. PICK at \in {"sent", "ended"} :
             /\ shake' = [shake EXCEPT ![d].at = at]
             /\ at = "sent" => shake[d].at = "unborn"
      BY DEF Starts, Ends
    <2>2. shake[e] \in Shake
      BY DEF TypeOK
    <2>3. e # d => shake'[e] = shake[e]
      BY <2>1 DEF TypeOK
    <2>4. e = d => shake'[e].at = at
      BY <2>1, <2>2 DEF TypeOK, Shake
    <2> QED BY <2>1, <2>3, <2>4
  <1>3. \A d \in Device : ~Park(d)
    <2> SUFFICES ASSUME NEW d \in Device, Park(d) PROVE FALSE
      OBVIOUS
    <2>1. \/ shake'[e] = [shake[e] EXCEPT !.at = "parked"]
          \/ shake[e].at = "parked"
          \/ shake'[e] = shake[e]
      BY DEF Park
    <2>2. shake[e] \in Shake
      BY DEF TypeOK
    <2> QED BY <2>1, <2>2 DEF Shake
  <1>4. \A d \in Device : ~Resume(d)
    <2> SUFFICES ASSUME NEW d \in Device, Resume(d) PROVE FALSE
      OBVIOUS
    <2>1. e = d
      BY ResumeTurn
    <2> QED BY <2>1 DEF Resume
  <1>5. \A d \in Device : ~Receive(d)
    <2> SUFFICES ASSUME NEW d \in Device, Receive(d) PROVE FALSE
      OBVIOUS
    <2>1. e # d
      BY DEF Receive
    <2> QED BY <2>1 DEF Receive, TypeOK
  <1>6. \A d \in Device : Handle(d) => d = e
    BY HandleTurn
  <1>7. \A pin \in Device : ~Enters(pin)
    <2> SUFFICES ASSUME NEW pin \in Device, Enters(pin) PROVE FALSE
      OBVIOUS
    <2>1. shake'[e] = shake[e] \/ Pinned(e)
      BY EnterTurn DEF Enters
    <2> QED BY <2>1 DEF Pinned
  <1> QED BY <1>1, <1>2, <1>3, <1>4, <1>5, <1>6, <1>7 DEF HandStep, Grants

\* d is listed under its own name: its hash and its certificate are at hand.
LEMMA HandleLists ==
    ASSUME TypeOK, ShakeInv, ApolloInv, NEW d \in Device, Handle(d)
    PROVE  \/ /\ clients' = clients /\ pendingName' = pendingName
              /\ ~(shake[d].step = "clientpairingsecret" /\ shake'[d].body # "refused")
           \/ /\ shake[d].step = "clientpairingsecret" /\ shake'[d].body = "good"
              /\ apollo.cert = d /\ shake[d].pin = d /\ Past(d)'
              /\ clients' = Append(clients, [device |-> d, name |-> d, perm |-> "view"])
              /\ pendingName' = None
  <1> DEFINE body == BodyFor(apollo, d, shake[d].step)
             lists == shake[d].step = "clientpairingsecret" /\ body = "good"
  <1>1. /\ shake[d].step \in Steps \ {"getservercert"} /\ shake[d].at = "sent"
        /\ shake'[d].step = shake[d].step /\ shake'[d].at = "reply"
        /\ shake'[d].body = body
    BY HandleTurn
  <1>2. CASE lists
    <2>1. Proved(apollo, d)
      BY <1>2 DEF BodyFor
    <2>2. apollo.cert = d /\ shake[d].pin = d
      BY <2>1, FlowAssumption DEF Proved, ApolloInv, Device
    <2>3. ~Past(d)
      BY <1>1, <1>2 DEF Past
    <2>4. pendingName = d
      BY <2>2, <2>3, FlowAssumption DEF ApolloInv, Device
    <2>5. Past(d)'
      BY <1>1, <1>2 DEF Past
    <2>6. /\ clients' = Append(clients, [device |-> d, name |-> pendingName, perm |-> "view"])
          /\ pendingName' = None
      BY <1>2 DEF Handle
    <2> QED BY <1>1, <1>2, <2>2, <2>4, <2>5, <2>6
  <1>3. CASE ~lists
    <2>1. clients' = clients /\ pendingName' = pendingName
      BY <1>3 DEF Handle
    <2>2. shake[d].step = "clientpairingsecret" => body \in {"good", "refused"}
      BY <1>1, BodyTypes
    <2> QED BY <1>1, <1>3, <2>1, <2>2
  <1> QED BY <1>2, <1>3

LEMMA NextApollo ==
    ASSUME TypeOK, ShakeInv, ApolloInv, HandStep
    PROVE  ApolloInv' /\ apollo' \in HostState /\ pendingName' \in Device \cup {None}
  <1>0. /\ \A d \in Device : Turn(d)
        /\ \A d \in Device : /\ shake[d].pin # None => shake'[d].pin = shake[d].pin
                             /\ Past(d) => Past(d)'
    BY AllTurn, Steady
  <1>1. /\ apollo \in HostState /\ pendingName \in Device \cup {None}
        /\ apollo.cert \in Device \cup {None} /\ apollo.hash \in Device \cup {None}
    BY DEF TypeOK, HostState
  <1>2. CASE UNCHANGED <<apollo, pendingName>>
    <2>1. apollo.hash # None => shake'[apollo.hash].pin = apollo.hash
      BY <1>0, <1>1 DEF ApolloInv
    <2> QED BY <1>0, <1>1, <1>2, <2>1 DEF ApolloInv
  <1>3. ASSUME NEW d \in Device, Resume(d)
        PROVE  ApolloInv' /\ apollo' \in HostState /\ pendingName' \in Device \cup {None}
    <2>1. shake[d].pin \in Device /\ shake'[d].pin = shake[d].pin
      BY <1>3, ResumeTurn
    <2>2. /\ apollo' = Keyed(apollo, d, shake[d].pin)
          /\ pendingName' = shake[d].pin
      BY <1>3 DEF Resume
    <2>3. /\ apollo'.cert = d /\ apollo'.key = <<d, shake[d].pin>>
          /\ apollo'.hash = apollo.hash /\ apollo' \in HostState
      BY <1>1, <2>1, <2>2, HostTypes DEF Keyed, HostState
    <2>4. d # None /\ shake[d].pin # None
      BY <2>1, FlowAssumption
    <2>5. apollo'.hash # None => shake'[apollo'.hash].pin = apollo'.hash
      BY <1>0, <1>1, <2>3 DEF ApolloInv
    <2> QED BY <2>1, <2>2, <2>3, <2>4, <2>5 DEF ApolloInv
  <1>4. ASSUME NEW d \in Device, Handle(d)
        PROVE  ApolloInv' /\ apollo' \in HostState /\ pendingName' \in Device \cup {None}
    <2>1. apollo' = StateAfter(apollo, d, shake[d].step, shake[d].told)
      BY <1>4 DEF Handle
    <2>2. /\ apollo'.cert = apollo.cert /\ apollo'.key = apollo.key
          /\ \/ apollo'.hash \in {apollo.hash, None}
             \/ apollo'.hash = d /\ Agrees(apollo, d)
          /\ apollo' \in HostState
      <3>1. apollo' \in HostState
        BY <1>1, <2>1, HostTypes
      <3>2. apollo' = apollo \/ apollo' = Hashed(apollo, d, shake[d].told)
        BY <2>1 DEF StateAfter
      <3> QED BY <1>1, <3>1, <3>2 DEF Hashed, HostState
    <2>3. Agrees(apollo, d) => shake[d].pin = d
      BY FlowAssumption DEF Agrees, ApolloInv
    <2>4. apollo'.hash # None => shake'[apollo'.hash].pin = apollo'.hash
      BY <1>0, <1>1, <2>2, <2>3, FlowAssumption DEF ApolloInv
    <2>5. \/ pendingName' = pendingName
          \/ pendingName' = None /\ apollo.cert = d /\ Past(d)'
      BY <1>4, HandleLists
    <2>6. apollo'.cert # None =>
              /\ shake'[apollo'.cert].pin # None
              /\ pendingName' = shake'[apollo'.cert].pin \/ Past(apollo.cert)'
      BY <1>0, <1>1, <2>2, <2>5 DEF ApolloInv, Past
    <2>7. apollo'.key # None => /\ apollo'.cert # None
                                /\ apollo'.key = <<apollo'.cert, shake'[apollo'.cert].pin>>
      BY <1>0, <1>1, <2>2 DEF ApolloInv
    <2> QED BY <1>1, <2>2, <2>4, <2>5, <2>6, <2>7 DEF ApolloInv, Past
  <1>5. (\E d \in Device : Resume(d) \/ Handle(d)) \/ UNCHANGED <<apollo, pendingName>>
    BY DEF HandStep, apolloSide, Starts, Ends, Park, Receive, Enters, Grants, apolloVars
  <1> QED BY <1>2, <1>3, <1>4, <1>5

LEMMA GrantEffect ==
    ASSUME TypeOK, Grant
    PROVE  /\ clients' \in Seq(Listed) /\ Len(clients') = Len(clients)
           /\ \A i \in 1..Len(clients) :
                 /\ clients'[i].device = clients[i].device
                 /\ clients'[i].name = clients[i].name
                 /\ clients'[i].perm =
                       IF i = agent.before + 1 THEN "control" ELSE clients[i].perm
  <1> DEFINE k == agent.before + 1
  <1>1. clients' = [clients EXCEPT ![k].perm = "control"] /\ clients \in Seq(Listed)
    BY DEF Grant, TypeOK
  <1> HIDE DEF k
  <1>2. /\ Len(clients) \in Nat /\ clients = [i \in 1..Len(clients) |-> clients[i]]
        /\ \A i \in 1..Len(clients) : clients[i] \in Listed
    BY <1>1, SeqDef, LenProperties, ElementOfSeq
  <1>3. clients' = [i \in 1..Len(clients) |->
                       IF i = k THEN [clients[i] EXCEPT !.perm = "control"] ELSE clients[i]]
    BY <1>1, <1>2
  <1>4. \A i \in 1..Len(clients) :
           /\ clients'[i] \in Listed
           /\ clients'[i].device = clients[i].device
           /\ clients'[i].name = clients[i].name
           /\ clients'[i].perm = IF i = k THEN "control" ELSE clients[i].perm
    BY <1>2, <1>3 DEF Listed
  <1>5. clients' \in [1..Len(clients) -> Listed]
    BY <1>3, <1>4
  <1>6. clients' \in Seq(Listed) /\ Len(clients') = Len(clients)
    BY <1>2, <1>5, SeqDef, LenProperties
  <1> QED BY <1>4, <1>6 DEF k

LEMMA AppendEffect ==
    ASSUME TypeOK, NEW entry \in Listed, clients' = Append(clients, entry)
    PROVE  /\ clients' \in Seq(Listed) /\ Len(clients') = Len(clients) + 1
           /\ \A i \in 1..Len(clients) : clients'[i] = clients[i]
           /\ clients'[Len(clients) + 1] = entry
           /\ 1..Len(clients') = 1..Len(clients) \cup {Len(clients) + 1}
  <1>1. clients \in Seq(Listed) /\ Len(clients) \in Nat
    BY LenProperties DEF TypeOK
  <1>2. /\ clients' \in Seq(Listed) /\ Len(clients') = Len(clients) + 1
        /\ \A i \in 1..Len(clients) : clients'[i] = clients[i]
        /\ clients'[Len(clients) + 1] = entry
    BY <1>1, AppendProperties
  <1> QED BY <1>1, <1>2

\* How the list can change: a new entry at its end, or a grant.
ListStep ==
    \/ clients' = clients
    \/ Grants
    \/ \E d \in Device :
          /\ Handle(d) /\ shake[d].step = "clientpairingsecret"
          /\ shake[d].at = "sent" /\ shake[d].pin = d /\ Past(d)'
          /\ clients' = Append(clients, [device |-> d, name |-> d, perm |-> "view"])

LEMMA HandIsListStep ==
    ASSUME TypeOK, ShakeInv, ApolloInv, HandStep
    PROVE  ListStep
  <1>1. ASSUME NEW d \in Device, Handle(d) PROVE ListStep
    BY <1>1, HandleLists, HandleTurn DEF ListStep
  <1> QED
    BY <1>1 DEF HandStep, apolloSide, Starts, Ends, Park, Receive, Resume, Enters,
                apolloVars, ListStep

\* A listed device stays listed.
LEMMA ListGrows ==
    ASSUME TypeOK, ListStep
    PROVE  /\ clients' \in Seq(Listed)
           /\ \A i \in 1..Len(clients) :
                 /\ i \in 1..Len(clients')
                 /\ clients'[i].device = clients[i].device
                 /\ clients'[i].name = clients[i].name
                 /\ clients[i].perm = "control" => clients'[i].perm = "control"
  <1>0. Len(clients) \in Nat
    BY LenProperties DEF TypeOK
  <1>1. CASE clients' = clients
    BY <1>1 DEF TypeOK
  <1>2. CASE Grants
    BY <1>2, GrantEffect DEF Grants
  <1>3. ASSUME NEW d \in Device,
               clients' = Append(clients, [device |-> d, name |-> d, perm |-> "view"])
        PROVE  /\ clients' \in Seq(Listed)
               /\ \A i \in 1..Len(clients) : i \in 1..Len(clients') /\ clients'[i] = clients[i]
    <2>1. [device |-> d, name |-> d, perm |-> "view"] \in Listed
      BY DEF Listed
    <2> QED BY <1>0, <1>3, <2>1, AppendEffect
  <1> QED BY <1>1, <1>2, <1>3 DEF ListStep

LEMMA NextList ==
    ASSUME TypeOK, ShakeInv, ApolloInv, ListInv, HandStep
    PROVE  ListInv'
  <1>0. /\ \A d \in Device : Turn(d)
        /\ \A d \in Device : /\ shake[d].pin # None => shake'[d].pin = shake[d].pin
                             /\ Past(d) => Past(d)'
    BY AllTurn, Steady
  <1>1. ListStep
    BY HandIsListStep
  <1>2. \A i \in 1..Len(clients) : clients[i].device \in Device
    <2>1. \A i \in 1..Len(clients) : clients[i] \in Listed
      BY ElementOfSeq DEF TypeOK
    <2> QED BY <2>1 DEF Listed
  <1>3. \A i \in 1..Len(clients) :
           /\ shake'[clients[i].device].pin = clients[i].device
           /\ Past(clients[i].device)
           /\ clients[i].name = clients[i].device
    BY <1>0, <1>2, FlowAssumption DEF ListInv
  <1>4. ASSUME NEW i \in 1..Len(clients')
        PROVE  \E d \in Device : /\ clients'[i].device = d /\ clients'[i].name = d
                                 /\ shake'[d].pin = d /\ Past(d)'
    <2>1. ASSUME i \in 1..Len(clients)
          PROVE  \E d \in Device : /\ clients'[i].device = d /\ clients'[i].name = d
                                   /\ shake'[d].pin = d /\ Past(d)'
      <3>1. PICK d \in Device : d = clients[i].device
        BY <1>2, <2>1
      <3>2. clients'[i].device = d /\ clients'[i].name = d /\ shake'[d].pin = d /\ Past(d)
        BY <1>1, <1>3, <2>1, <3>1, ListGrows
      <3> QED BY <1>0, <3>2
    <2>2. CASE clients' = clients \/ Grants
      <3>1. i \in 1..Len(clients)
        BY <2>2, GrantEffect DEF Grants
      <3> QED BY <2>1, <3>1
    <2>3. ASSUME NEW d \in Device, Handle(d), shake[d].pin = d, Past(d)',
                 clients' = Append(clients, [device |-> d, name |-> d, perm |-> "view"])
          PROVE  \E e \in Device : /\ clients'[i].device = e /\ clients'[i].name = e
                                   /\ shake'[e].pin = e /\ Past(e)'
      <3>1. [device |-> d, name |-> d, perm |-> "view"] \in Listed
        BY DEF Listed
      <3>2. CASE i \in 1..Len(clients)
        BY <2>1, <3>2
      <3>3. CASE i = Len(clients) + 1
        <4>1. clients'[i] = [device |-> d, name |-> d, perm |-> "view"]
          BY <2>3, <3>1, <3>3, AppendEffect
        <4>2. shake'[d].pin = d
          BY <2>3, HandleTurn
        <4> QED BY <2>3, <4>1, <4>2
      <3> QED BY <2>3, <3>1, <3>2, <3>3, AppendEffect
    <2> QED BY <1>1, <2>2, <2>3 DEF ListStep
  <1>5. ASSUME NEW d \in Device, Proven(d)' PROVE IsListed(d)'
    <2>1. CASE Proven(d)
      <3>1. PICK i \in 1..Len(clients) : clients[i].device = d
        BY <2>1 DEF ListInv, IsListed
      <3> QED BY <1>1, <3>1, ListGrows DEF IsListed
    <2>2. CASE ~Proven(d)
      <3>1. /\ shake[d].at = "sent" /\ shake'[d].at = "reply"
            /\ shake'[d].step = "clientpairingsecret" /\ shake'[d].body # "refused"
            /\ shake'[d].step = shake[d].step
        <4>1. Turn(d)
          BY <1>0
        <4>2. CASE Waiting(d)
          BY <1>5, <2>2, <4>2 DEF Waiting, Proven, ShakeInv
        <4>3. CASE Pinned(d)
          BY <1>5, <2>2, <4>3 DEF Pinned, Proven
        <4>4. CASE Advances(d)
          BY <1>5, <2>2, <4>4, StepTypes DEF Advances, Proven
        <4> QED BY <1>5, <2>2, <4>1, <4>2, <4>3, <4>4 DEF Turn, Proven
      <3>2. Handle(d)
        BY <3>1, OnlyHandleAnswers
      <3>3. clients' = Append(clients, [device |-> d, name |-> d, perm |-> "view"])
        BY <3>1, <3>2, HandleLists
      <3>4. [device |-> d, name |-> d, perm |-> "view"] \in Listed
        BY DEF Listed
      <3>5. /\ clients'[Len(clients) + 1].device = d
            /\ Len(clients) + 1 \in 1..Len(clients')
        BY <3>3, <3>4, AppendEffect
      <3> QED BY <3>5 DEF IsListed
    <2> QED BY <2>1, <2>2
  <1>6. \A i \in 1..Len(clients') :
           /\ shake'[clients'[i].device].pin = clients'[i].device
           /\ Past(clients[i].device)'
           /\ clients'[i].name = clients'[i].device
    BY <1>4 DEF Past
  <1> QED BY <1>5, <1>6 DEF ListInv

-----------------------------------------------------------------------------
(* The courier, the sessions and the agent.                                *)

StageMove(c) ==
    \/ stage'[c] = stage[c]
    \/ stage[c] = "unborn" /\ stage'[c] = "issued" /\ c \in setting.who
    \/ stage[c] = "issued" /\ stage'[c] \in {"queued", "lost"}
    \/ stage[c] = "queued" /\ stage'[c] \in {"handed", "lost"}
    \/ stage[c] = "handed" /\ stage'[c] \in {"answered", "lost"}

\* What c is told, and what the agent says of it.
TellMove(c) ==
    /\ \/ answer'[c] = answer[c]
       \/ agent.phase = "post" /\ agent.req = c /\ answer'[c] = agent.result
    /\ stage'[c] = "answered" /\ stage[c] # "answered" =>
          agent.phase = "post" /\ answer'[c] = agent.result
    /\ \/ session'[c] = session[c]
       \/ session'[c] = "waits" /\ shake'[c].at = "sent"
       \/ session'[c] = "failed"
       \/ stage[c] = "answered" /\ session'[c] = answer[c]

AgentMove ==
    \/ agent' = agent /\ \A c \in Client : stage[c] = "handed" => stage'[c] = "handed"
    \/ /\ agent' = IdleAgent
       /\ agent.phase # "idle" => stage'[agent.req] \in {"answered", "lost"}
    \/ UNCHANGED stage /\ \E c \in Client : AgentTake(c)
    \/ /\ UNCHANGED stage /\ agent.phase \in {"list", "pin", "look", "update"}
       /\ agent'.phase # "idle" /\ agent'.req = agent.req
       /\ agent'.phase = "post" => agent'.result \in {"paired", "failed"}

RestType ==
    Courier!TypeOK /\ session \in [Client -> {"idle", "waits"} \cup Results]
    /\ agent \in AgentState

RestStep ==
    /\ RestType'
    /\ \A c \in Client : StageMove(c) /\ TellMove(c)
    /\ AgentMove

\* A request moves, and neither the agent nor an answer does.
LEMMA OneMoves ==
    ASSUME TypeOK, NEW c \in Client, NEW st \in Courier!Stages,
           stage' = [stage EXCEPT ![c] = st],
           StageMove(c), stage[c] # "handed", st # "answered",
           Courier!TypeOK', UNCHANGED <<answer, agent>>,
           session' \in [Client -> {"idle", "waits"} \cup Results],
           \A e \in Client : \/ session'[e] = session[e]
                             \/ session'[e] = "waits" /\ shake'[e].at = "sent"
                             \/ session'[e] = "failed"
    PROVE  RestStep
  <1>1. \A e \in Client : e # c => stage'[e] = stage[e]
    BY DEF TypeOK, Courier!TypeOK
  <1>2. stage'[c] = st
    BY DEF TypeOK, Courier!TypeOK
  <1>3. \A e \in Client : StageMove(e) /\ TellMove(e)
    BY <1>1, <1>2 DEF StageMove, TellMove
  <1>4. AgentMove
    BY <1>1 DEF AgentMove
  <1>5. agent' \in AgentState
    BY DEF TypeOK
  <1> QED BY <1>3, <1>4, <1>5 DEF RestStep, RestType

LEMMA ClientRest ==
    ASSUME TypeOK, ServedInv, NEW c \in Client, ClientStep(c) \/ RequestLost(c)
    PROVE  RestStep
  <1>0. /\ stage \in [Client -> Courier!Stages] /\ host \in [Client -> {Host} \cup {None}]
        /\ answer \in [Client -> Results \cup {None}]
        /\ session \in [Client -> {"idle", "waits"} \cup Results]
    BY DEF TypeOK, Courier!TypeOK, Results
  <1>1. CASE Ask(c)
    <2>1. /\ stage[c] = "unborn" /\ stage' = [stage EXCEPT ![c] = "issued"]
          /\ host' = [host EXCEPT ![c] = Host] /\ c \in setting.who
          /\ UNCHANGED <<answer, session, agent>>
      BY <1>1 DEF Ask, Courier!Issue
    <2>2. Courier!TypeOK'
      BY <1>0, <2>1 DEF Courier!TypeOK, Courier!Stages, Results
    <2>3. StageMove(c)
      BY <1>0, <2>1 DEF StageMove
    <2> QED BY <1>0, <2>1, <2>2, <2>3, OneMoves DEF Courier!Stages
  <1>2. CASE Submit(c) \/ SubmitUnanswered(c)
    <2>1. /\ stage[c] = "issued" /\ stage' = [stage EXCEPT ![c] = "queued"]
          /\ UNCHANGED <<host, answer, agent>>
      BY <1>2 DEF Submit, SubmitUnanswered, Courier!Queue
    <2>2. Courier!TypeOK'
      BY <1>0, <2>1 DEF Courier!TypeOK, Courier!Stages, Results
    <2>3. StageMove(c)
      BY <1>0, <2>1 DEF StageMove
    <2>4. \/ /\ session' = [session EXCEPT ![c] = "waits"]
             /\ shake' = [shake EXCEPT ![c].at = "sent"]
          \/ session' = [session EXCEPT ![c] = "failed"]
      BY <1>2 DEF Submit, SubmitUnanswered
    <2>5. shake' = [shake EXCEPT ![c].at = "sent"] => shake'[c].at = "sent"
      BY DEF TypeOK, Shake, Device
    <2>6. /\ session' \in [Client -> {"idle", "waits"} \cup Results]
          /\ \A e \in Client : \/ session'[e] = session[e]
                               \/ session'[e] = "waits" /\ shake'[e].at = "sent"
                               \/ session'[e] = "failed"
      BY <1>0, <2>4, <2>5 DEF Results
    <2> QED BY <2>1, <2>2, <2>3, <2>6, OneMoves DEF Courier!Stages
  <1>3. CASE WatchEnd(c) \/ WatchFail(c)
    <2>1. /\ UNCHANGED <<stage, host, answer, agent>>
          /\ \/ session' = [session EXCEPT ![c] = "failed"]
             \/ stage[c] = "answered" /\ session' = [session EXCEPT ![c] = answer[c]]
      BY <1>3 DEF WatchEnd, WatchFail, courier
    <2>2. stage[c] = "answered" => answer[c] \in Results
      BY <1>0 DEF ServedInv
    <2>3. session' \in [Client -> {"idle", "waits"} \cup Results]
      BY <1>0, <2>1, <2>2 DEF Results
    <2>4. \A e \in Client : StageMove(e) /\ TellMove(e)
      BY <1>0, <2>1 DEF StageMove, TellMove
    <2>5. AgentMove /\ agent' \in AgentState
      BY <2>1 DEF AgentMove, TypeOK
    <2>6. Courier!TypeOK'
      BY <2>1 DEF TypeOK, Courier!TypeOK
    <2> QED BY <2>3, <2>4, <2>5, <2>6 DEF RestStep, RestType
  <1>4. CASE RequestLost(c)
    <2>1. /\ stage[c] \in {"issued", "queued"}
          /\ stage' = [r \in Client |-> IF r \in {c} THEN "lost" ELSE stage[r]]
          /\ UNCHANGED <<host, answer, session, agent>>
      BY <1>4 DEF RequestLost, Courier!Lose
    <2>2. stage' = [stage EXCEPT ![c] = "lost"]
      BY <1>0, <2>1
    <2>3. Courier!TypeOK'
      BY <1>0, <2>1, <2>2 DEF Courier!TypeOK, Courier!Stages, Results
    <2>4. StageMove(c)
      BY <1>0, <2>1, <2>2 DEF StageMove
    <2> QED BY <1>0, <2>1, <2>2, <2>3, <2>4, OneMoves DEF Courier!Stages
  <1> QED BY <1>1, <1>2, <1>3, <1>4 DEF ClientStep

LEMMA AgentRest ==
    ASSUME TypeOK, ServedInv,
           AgentPoll \/ AgentDies \/ AgentStep \/ (\E c \in Client : AgentTake(c))
    PROVE  RestStep
  <1>0. /\ stage \in [Client -> Courier!Stages] /\ host \in [Client -> {Host} \cup {None}]
        /\ answer \in [Client -> Results \cup {None}]
        /\ session \in [Client -> {"idle", "waits"} \cup Results]
        /\ agent \in AgentState
        /\ agent.phase # "idle" => agent.req \in Client /\ stage[agent.req] = "handed"
    BY DEF TypeOK, Courier!TypeOK, Results, ServedInv
  <1>1. IdleAgent \in AgentState
    BY DEF IdleAgent, AgentState
  <1>2. CASE AgentPoll
    <2>1. /\ \A c \in Client : stage'[c] = IF stage[c] = "queued" /\ host[c] = Host
                                            THEN "handed" ELSE stage[c]
          /\ stage' = [c \in Client |-> stage'[c]]
          /\ UNCHANGED <<host, answer, session, agent>>
      BY <1>2 DEF AgentPoll, Courier!HandOver
    <2>2. stage' \in [Client -> Courier!Stages]
      BY <1>0, <2>1 DEF Courier!Stages
    <2>3. \A c \in Client : StageMove(c) /\ TellMove(c)
      BY <2>1 DEF StageMove, TellMove
    <2>4. AgentMove
      BY <2>1 DEF AgentMove
    <2> QED BY <1>0, <2>1, <2>2, <2>3, <2>4 DEF RestStep, RestType, Courier!TypeOK, Results
  <1>3. ASSUME NEW S \in SUBSET Client, Courier!Lose(S), agent' = IdleAgent,
               \A c \in S : stage[c] = "handed",
               agent.phase # "idle" => agent.req \in S, UNCHANGED session
        PROVE  RestStep
    <2>1. /\ \A c \in Client : stage'[c] = IF c \in S THEN "lost" ELSE stage[c]
          /\ stage' = [c \in Client |-> stage'[c]]
          /\ UNCHANGED <<host, answer>>
      BY <1>3 DEF Courier!Lose
    <2>2. stage' \in [Client -> Courier!Stages]
      BY <1>0, <2>1 DEF Courier!Stages
    <2>3. \A c \in Client : StageMove(c) /\ TellMove(c)
      BY <1>3, <2>1 DEF StageMove, TellMove
    <2>4. AgentMove
      BY <1>0, <1>3, <2>1 DEF AgentMove
    <2> QED
      BY <1>0, <1>1, <1>3, <2>1, <2>2, <2>3, <2>4
      DEF RestStep, RestType, Courier!TypeOK, Results
  <1>4. CASE AgentDies
    <2> DEFINE S == {c \in Client : stage[c] = "handed"}
    <2>1. Courier!Lose(S) /\ agent' = IdleAgent /\ UNCHANGED session
      BY <1>4 DEF AgentDies
    <2>2. S \in SUBSET Client /\ \A c \in S : stage[c] = "handed"
      OBVIOUS
    <2>3. agent.phase # "idle" => agent.req \in S
      BY <1>0
    <2> HIDE DEF S
    <2> QED BY <1>3, <2>1, <2>2, <2>3
  <1>5. CASE AgentPost
    <2>1. PICK c \in Client : /\ c = agent.req /\ agent.phase = "post" /\ stage[c] = "handed"
                              /\ agent' = IdleAgent /\ UNCHANGED session
      BY <1>0, <1>5 DEF AgentPost
    <2>2. CASE Courier!Answer(agent.req, agent.result)
      <3>1. /\ stage' = [stage EXCEPT ![c] = "answered"]
            /\ answer' = [answer EXCEPT ![c] = agent.result]
            /\ UNCHANGED host
        BY <2>1, <2>2 DEF Courier!Answer
      <3>2. agent.result \in Results
        BY <1>0, <2>1 DEF AgentState, ServedInv
      <3>3. Courier!TypeOK'
        BY <1>0, <3>1, <3>2 DEF Courier!TypeOK, Courier!Stages, Results
      <3>4. \A e \in Client : e # c => stage'[e] = stage[e] /\ answer'[e] = answer[e]
        BY <1>0, <3>1
      <3>5. stage'[c] = "answered" /\ answer'[c] = agent.result
        BY <1>0, <3>1
      <3>6. \A e \in Client : StageMove(e) /\ TellMove(e)
        BY <2>1, <3>4, <3>5 DEF StageMove, TellMove
      <3>7. AgentMove
        BY <2>1, <3>5 DEF AgentMove
      <3> QED BY <1>0, <1>1, <2>1, <3>3, <3>6, <3>7 DEF RestStep, RestType
    <2>3. CASE Courier!Lose({agent.req})
      BY <1>3, <2>1, <2>3
    <2> QED BY <1>5, <2>2, <2>3 DEF AgentPost
  <1>6. ASSUME UNCHANGED <<courier, session>>, agent' \in AgentState, AgentMove
        PROVE  RestStep
    <2>1. UNCHANGED <<stage, host, answer, session>>
      BY <1>6 DEF courier
    <2>2. \A e \in Client : StageMove(e) /\ TellMove(e)
      BY <2>1 DEF StageMove, TellMove
    <2> QED BY <1>0, <1>6, <2>1, <2>2 DEF RestStep, RestType, Courier!TypeOK, Results
  <1>7. ASSUME NEW c \in Client, AgentTake(c) PROVE RestStep
    <2>1. agent' \in AgentState
      BY <1>7 DEF AgentTake, AgentState, IdleAgent, Results
    <2>2. UNCHANGED <<courier, session>> /\ UNCHANGED stage
      BY <1>7 DEF AgentTake, courier
    <2> QED BY <1>6, <1>7, <2>1, <2>2 DEF AgentMove
  <1>8. CASE /\ AgentStep /\ ~AgentPost
    <2>1. /\ agent.phase \in {"list", "pin", "look", "update"}
          /\ UNCHANGED <<courier, session>>
      BY <1>8 DEF AgentStep, AgentList, AgentPin, AgentPinNotDue, AgentLook, AgentUpdate,
                  AgentGivesUp, ApolloError, AgentEvicted
    <2>2. Len(clients) \in Nat
      BY LenProperties DEF TypeOK
    <2>3. /\ agent' \in AgentState /\ agent'.phase # "idle" /\ agent'.req = agent.req
          /\ agent'.phase = "post" => agent'.result \in {"paired", "failed"}
      <3>1. CASE AgentList
        BY <1>0, <2>2, <3>1 DEF AgentList, ListedBefore, AgentState
      <3>2. CASE AgentPin
        BY <1>0, <3>2 DEF AgentPin, AgentState
      <3>3. CASE AgentPinNotDue \/ AgentLook
        BY <1>0, <3>3 DEF AgentPinNotDue, AgentLook, AgentState
      <3>4. CASE AgentUpdate \/ AgentGivesUp \/ ApolloError
        BY <1>0, <3>4 DEF AgentUpdate, AgentGivesUp, ApolloError, AgentState, Results
      <3>5. CASE AgentEvicted
        <4>1. CASE agent' = [agent EXCEPT !.phase = "pin", !.before = 0]
          BY <1>0, <4>1 DEF AgentState
        <4>2. CASE agent' = [agent EXCEPT !.phase = "look"]
          BY <1>0, <4>2 DEF AgentState
        <4>3. CASE agent' = [agent EXCEPT !.phase = "pin"]
          BY <1>0, <4>3 DEF AgentState
        <4>4. CASE agent' = [agent EXCEPT !.phase = "post", !.result = "failed"]
          BY <1>0, <4>4 DEF AgentState, Results
        <4> QED BY <3>5, <4>1, <4>2, <4>3, <4>4 DEF AgentEvicted
      <3> QED BY <1>8, <3>1, <3>2, <3>3, <3>4, <3>5 DEF AgentStep
    <2>4. AgentMove
      BY <2>1, <2>3 DEF AgentMove, courier
    <2> QED BY <1>6, <2>1, <2>3, <2>4
  <1> QED BY <1>2, <1>4, <1>5, <1>7, <1>8

LEMMA StepIsRestStep ==
    ASSUME TypeOK, ServedInv, [Next]_vars
    PROVE  RestStep
  <1>1. CASE UNCHANGED <<courier, session, agent>>
    <2>1. UNCHANGED <<stage, host, answer, session, agent>>
      BY <1>1 DEF courier
    <2>2. \A e \in Client : StageMove(e) /\ TellMove(e)
      BY <2>1 DEF StageMove, TellMove
    <2>3. AgentMove
      BY <2>1 DEF AgentMove
    <2> QED BY <2>1, <2>2, <2>3 DEF RestStep, RestType, TypeOK, Courier!TypeOK
  <1>2. ASSUME NEW d \in Device, ShakeStep(d) PROVE RestStep
    BY <1>1, <1>2 DEF ShakeStep, Park, Resume, Handle, Receive, BreakOff
  <1>3. ASSUME NEW d \in Guest, GuestStarts(d) \/ OwnerPin(d) PROVE RestStep
    BY <1>1, <1>3 DEF GuestStarts, OwnerPin
  <1>4. CASE UNCHANGED vars
    BY <1>1, <1>4 DEF vars, moving
  <1> QED BY <1>2, <1>3, <1>4, ClientRest, AgentRest DEF Next, Step

-----------------------------------------------------------------------------
(* The invariant.                                                          *)

LEMMA OnlyStarts ==
    ASSUME TypeOK, ShakeInv, HandStep, NEW d \in Device,
           shake[d].at = "unborn", shake'[d].at # "unborn"
    PROVE  d \in setting.who /\ (d \in Client => stage'[d] = "queued")
  <1>1. \A e \in Device : Starts(e) => e = d
    BY DEF Starts, TypeOK
  <1>2. \A e \in Device : ~Ends(e)
    BY DEF Ends, TypeOK
  <1>3. \A e \in Device : ~Park(e)
    BY DEF Park
  <1>4. \A e \in Device : ~Resume(e)
    BY ResumeTurn DEF Resume
  <1>5. \A e \in Device : ~Handle(e)
    BY HandleTurn
  <1>6. \A e \in Device : ~Receive(e)
    BY DEF Receive, TypeOK
  <1>7. \A pin \in Device : ~Enters(pin)
    <2> SUFFICES ASSUME NEW pin \in Device, Enters(pin) PROVE FALSE
      OBVIOUS
    <2>1. shake'[d] = shake[d] \/ Pinned(d)
      BY EnterTurn DEF Enters
    <2> QED BY <2>1 DEF Pinned
  <1> QED BY <1>1, <1>2, <1>3, <1>4, <1>5, <1>6, <1>7 DEF HandStep, Grants, Starts

LEMMA NextServed ==
    ASSUME TypeOK, ShakeInv, ServedInv, HandStep, RestStep, UNCHANGED <<setting, knows>>
    PROVE  ServedInv'
  <1>0. \A d \in Device : shake[d].at # "unborn" => shake'[d].at # "unborn"
    BY AllTurn, Steady
  <1>1. ASSUME NEW c \in Client
        PROVE  /\ stage'[c] # "unborn" => c \in setting'.who
               /\ stage'[c] \in {"unborn", "issued"} => shake'[c].at = "unborn"
               /\ session'[c] = "waits" => shake'[c].at # "unborn"
               /\ stage'[c] = "answered" => answer'[c] # None
    <2>0. /\ c \in Device /\ StageMove(c) /\ TellMove(c)
          /\ stage[c] # "unborn" => c \in setting.who
          /\ stage[c] \in {"unborn", "issued"} => shake[c].at = "unborn"
          /\ session[c] = "waits" => shake[c].at # "unborn"
          /\ stage[c] = "answered" => answer[c] # None
          /\ agent.phase = "post" => agent.result # None
      BY DEF Device, RestStep, ServedInv
    <2>1. stage'[c] # "unborn" => c \in setting'.who
      BY <2>0 DEF StageMove
    <2>2. stage'[c] \in {"unborn", "issued"} => shake'[c].at = "unborn"
      BY <2>0, OnlyStarts DEF StageMove
    <2>3. session'[c] = "waits" => shake'[c].at # "unborn"
      <3>1. stage[c] = "answered" => answer[c] # "waits"
        BY <2>0 DEF TypeOK, Courier!TypeOK
      <3> QED BY <1>0, <2>0, <3>1 DEF TellMove
    <2>4. stage'[c] = "answered" => answer'[c] # None
      BY <2>0 DEF StageMove, TellMove
    <2> QED BY <2>1, <2>2, <2>3, <2>4
  <1>2. ASSUME NEW d \in Guest, d \notin setting'.who PROVE shake'[d].at = "unborn"
    BY <1>2, OnlyStarts DEF ServedInv, Device
  <1>3. ASSUME NEW f \in fed' PROVE f[2] \in Guest \/ knows'[f[2]]
    <2>1. CASE f \in fed
      BY <2>1 DEF ServedInv
    <2>2. ASSUME NEW pin \in Device, Enters(pin) PROVE f[2] \in Guest \/ knows'[f[2]]
      <3>1. f \in fed \/ f[2] = pin
        BY <2>2, EnterTurn DEF Enters
      <3> QED BY <2>1, <2>2, <3>1 DEF Enters, ServedInv
    <2> QED
      BY <2>1, <2>2
      DEF HandStep, apolloSide, Starts, Ends, Park, Resume, Handle, Receive, Grants
  <1>4. /\ agent'.phase # "idle" => agent'.req \in Client /\ stage'[agent'.req] = "handed"
        /\ agent'.phase \in {"list", "pin", "look", "update"} => knows'[agent'.req]
        /\ agent'.phase = "post" => agent'.result # None
    <2>1. CASE agent' = agent /\ \A c \in Client : stage[c] = "handed" => stage'[c] = "handed"
      BY <2>1 DEF ServedInv
    <2>2. CASE agent' = IdleAgent
      BY <2>2 DEF IdleAgent
    <2>3. ASSUME UNCHANGED stage, NEW c \in Client, AgentTake(c)
          PROVE  /\ agent'.phase # "idle" => agent'.req \in Client
                                             /\ stage'[agent'.req] = "handed"
                 /\ agent'.phase \in {"list", "pin", "look", "update"} => knows'[agent'.req]
                 /\ agent'.phase = "post" => agent'.result # None
      <3>1. "rejected" # None
        BY FlowAssumption
      <3> QED BY <2>3, <3>1 DEF AgentTake, IdleAgent, RightPassword
    <2>4. CASE /\ UNCHANGED stage /\ agent.phase \in {"list", "pin", "look", "update"}
               /\ agent'.phase # "idle" /\ agent'.req = agent.req
               /\ agent'.phase = "post" => agent'.result \in {"paired", "failed"}
      <3>1. "paired" # None /\ "failed" # None
        BY FlowAssumption
      <3> QED BY <2>4, <3>1 DEF ServedInv
    <2> QED BY <2>1, <2>2, <2>3, <2>4 DEF RestStep, AgentMove
  <1>5. setting' \in Setting
    BY DEF ServedInv
  <1> QED BY <1>1, <1>2, <1>3, <1>4, <1>5 DEF ServedInv

LEMMA NextType ==
    ASSUME TypeOK, FlowInv, HandStep, RestStep, UNCHANGED <<setting, knows>>
    PROVE  TypeOK'
  <1>1. shake' \in [Device -> Shake]
    BY AllTurn DEF FlowInv
  <1>2. apollo' \in HostState /\ pendingName' \in Device \cup {None}
    BY NextApollo DEF FlowInv
  <1>3. clients' \in Seq(Listed)
    BY HandIsListStep, ListGrows DEF FlowInv
  <1>4. parked' \in Device \cup {None} /\ fed' \in SUBSET (Device \X Device)
    <2>1. ASSUME NEW pin \in Device, Enters(pin)
          PROVE  parked' \in Device \cup {None} /\ fed' \in SUBSET (Device \X Device)
      BY <2>1, EnterTurn DEF Enters, FlowInv
    <2> QED
      BY <2>1
      DEF HandStep, apolloSide, Starts, Ends, Park, Resume, Handle, Receive, Grants,
          apolloVars, TypeOK
  <1>5. RestType'
    BY DEF RestStep
  <1> QED BY <1>1, <1>2, <1>3, <1>4, <1>5 DEF TypeOK, RestType

LEMMA InitFlow == Init => FlowInv
  <1> SUFFICES ASSUME Init PROVE FlowInv
    OBVIOUS
  <1>1. \A d \in Device : shake[d] = NoShake
    BY DEF Init
  <1>2. ShakeInv
    BY <1>1 DEF NoShake, ShakeInv, GotOn
  <1>3. ApolloInv
    BY DEF Init, NoSession, ApolloInv
  <1>4. Len(clients) = 0 /\ 1..Len(clients) = {}
    BY EmptySeq DEF Init
  <1>5. ListInv
    BY <1>1, <1>4 DEF NoShake, ListInv, Proven
  <1>6. ServedInv
    BY <1>1 DEF Init, Courier!Init, NoShake, IdleAgent, ServedInv, Device
  <1> QED BY <1>2, <1>3, <1>5, <1>6 DEF FlowInv

LEMMA NextFlow == TypeOK /\ FlowInv /\ [Next]_vars => TypeOK' /\ FlowInv'
  <1> SUFFICES ASSUME TypeOK, FlowInv, [Next]_vars PROVE TypeOK' /\ FlowInv'
    OBVIOUS
  <1>1. HandStep /\ UNCHANGED <<setting, knows>> /\ RestStep
    BY StepIsHandStep, StepIsRestStep DEF FlowInv
  <1>2. ShakeInv' /\ ApolloInv' /\ ListInv'
    BY <1>1, NextShake, NextApollo, NextList DEF FlowInv
  <1>3. ServedInv'
    BY <1>1, NextServed DEF FlowInv
  <1> QED BY <1>1, <1>2, <1>3, NextType DEF FlowInv

LEMMA FlowInvariant == Spec => [](TypeOK /\ FlowInv)
  <1>1. TypeOK /\ FlowInv /\ [Next]_vars => (TypeOK /\ FlowInv)'
    BY NextFlow
  <1> QED BY <1>1, InitType, InitFlow, PTL DEF Spec

\* Every variable keeps its type.
THEOREM FlowTypeCorrect == Spec => []TypeOK
  BY FlowInvariant, PTL

LEMMA ListIsRight == TypeOK /\ FlowInv => WrongPinNeverPairs /\ PasswordNeeded
  <1> SUFFICES ASSUME TypeOK, FlowInv, NEW i \in 1..Len(clients)
               PROVE  /\ <<clients[i].device, clients[i].device>> \in fed
                      /\ clients[i].name = clients[i].device
                      /\ clients[i].device \in Guest \/ knows[clients[i].device]
    BY DEF WrongPinNeverPairs, PasswordNeeded
  <1>1. clients[i] \in Listed
    BY ElementOfSeq DEF TypeOK
  <1>2. PICK d \in Device : d = clients[i].device
    BY <1>1 DEF Listed
  <1>3. shake[d].pin = d /\ clients[i].name = d
    BY <1>2 DEF FlowInv, ListInv
  <1>4. <<d, d>> \in fed
    BY <1>3, FlowAssumption DEF FlowInv, ShakeInv
  <1>5. d \in Guest \/ knows[d]
    BY <1>4 DEF FlowInv, ServedInv
  <1> QED BY <1>2, <1>3, <1>4, <1>5

\* A device is listed only after its own PIN was entered for its own session,
\* and under its own name, whatever other sessions share the handshake state.
THEOREM WrongPin == Spec => []WrongPinNeverPairs
  BY FlowInvariant, ListIsRight, PTL

\* A remote client that does not have the password is never listed.
THEOREM PasswordIsNeeded == Spec => []PasswordNeeded
  BY FlowInvariant, ListIsRight, PTL

LEMMA FlowIsCompleted == FlowInv => CompletedIsListed
  BY DEF FlowInv, ListInv, Proven, IsListed, CompletedIsListed

\* A client whose handshake went through is in Apollo's list.
THEOREM Completed == Spec => []CompletedIsListed
  BY FlowInvariant, FlowIsCompleted, PTL

-----------------------------------------------------------------------------
(* Grants.                                                                 *)

LEMMA InitEarned == Init => EarnedInv
  <1> SUFFICES ASSUME Init PROVE EarnedInv
    OBVIOUS
  <1>1. 1..Len(clients) = {}
    BY EmptySeq DEF Init
  <1>2. Controls = {} /\ Earned = {}
    BY <1>1 DEF Init, Courier!Init, IdleAgent, Controls, Earned
  <1> QED BY <1>2, FS_EmptySet DEF EarnedInv

\* What was earned stays so.
LEMMA EarnedGrows ==
    ASSUME TypeOK, ServedInv, RestStep, UNCHANGED <<setting, knows>>
    PROVE  Earned \subseteq Earned'
  <1> SUFFICES ASSUME NEW c \in Client, c \in Earned
               PROVE  \/ stage'[c] \in {"answered", "lost"}
                      \/ agent'.phase = "post" /\ agent'.req = c
    BY DEF Earned
  <1>1. StageMove(c) /\ AgentMove
    BY DEF RestStep
  <1>2. CASE stage[c] \in {"answered", "lost"}
    BY <1>1, <1>2 DEF StageMove
  <1>3. CASE agent.phase = "post" /\ agent.req = c
    BY <1>1, <1>3 DEF AgentMove, AgentTake
  <1> QED BY <1>2, <1>3 DEF Earned

\* A step gives the permissions to one more entry at most, and is paid for.
LEMMA OneMoreControl ==
    ASSUME TypeOK, FlowInv, HandStep, RestStep, UNCHANGED <<setting, knows>>
    PROVE  \/ Controls' = Controls
           \/ /\ \E k : Controls' \subseteq Controls \cup {k}
              /\ agent.req \in Earned' /\ agent.req \notin Earned
  <1>1. ListStep /\ Len(clients) \in Nat
    BY HandIsListStep, LenProperties DEF FlowInv, TypeOK
  <1>2. CASE clients' = clients
    BY <1>2 DEF Controls
  <1>3. CASE Grants
    <2>1. \A i \in 1..Len(clients') :
             /\ i \in 1..Len(clients)
             /\ i # agent.before + 1 => clients'[i].perm = clients[i].perm
      BY <1>3, GrantEffect DEF Grants
    <2>2. Controls' \subseteq Controls \cup {agent.before + 1}
      BY <2>1 DEF Controls
    <2>3. PICK c \in Client : /\ c = agent.req /\ stage[c] = "handed" /\ knows[c]
                              /\ c \in setting.who
      BY <1>3 DEF Grants, FlowInv, ServedInv
    <2>4. c \notin Earned /\ c \in Earned'
      BY <1>3, <2>3 DEF Grants, Earned
    <2> QED BY <2>2, <2>3, <2>4
  <1>4. ASSUME NEW d \in Device,
               clients' = Append(clients, [device |-> d, name |-> d, perm |-> "view"])
        PROVE  Controls' = Controls
    <2>1. [device |-> d, name |-> d, perm |-> "view"] \in Listed
      BY DEF Listed
    <2>2. /\ 1..Len(clients') = 1..Len(clients) \cup {Len(clients) + 1}
          /\ \A i \in 1..Len(clients) : clients'[i] = clients[i]
          /\ clients'[Len(clients) + 1].perm = "view"
      BY <1>4, <2>1, AppendEffect
    <2> QED BY <2>2 DEF Controls
  <1> QED BY <1>1, <1>2, <1>3, <1>4 DEF ListStep

CountsFinite ==
    /\ IsFiniteSet(Controls) /\ Cardinality(Controls) \in Nat
    /\ IsFiniteSet(setting.who)
    /\ IsFiniteSet(Earned) /\ Cardinality(Earned) \in Nat

LEMMA FiniteCounts == TypeOK /\ ServedInv => CountsFinite
  <1> SUFFICES ASSUME TypeOK, ServedInv PROVE CountsFinite
    OBVIOUS
  <1>1. IsFiniteSet(1..Len(clients)) /\ Controls \subseteq 1..Len(clients)
    BY LenProperties, FS_Interval DEF TypeOK, Controls
  <1>2. IsFiniteSet(setting.who) /\ Earned \subseteq setting.who
    BY FlowAssumption DEF ServedInv, Earned
  <1> QED BY <1>1, <1>2, FS_Subset, FS_CardinalityType DEF CountsFinite

LEMMA NextEarned ==
    ASSUME TypeOK, FlowInv, CountsFinite, CountsFinite', EarnedInv,
           HandStep, RestStep, UNCHANGED <<setting, knows>>
    PROVE  EarnedInv'
  <1>1. /\ IsFiniteSet(Controls) /\ Cardinality(Controls) \in Nat
        /\ IsFiniteSet(Earned) /\ Cardinality(Earned) \in Nat
    BY DEF CountsFinite
  <1>2. /\ IsFiniteSet(Controls') /\ Cardinality(Controls') \in Nat
        /\ IsFiniteSet(Earned') /\ Cardinality(Earned') \in Nat
    BY DEF CountsFinite
  <1>3. Earned \subseteq Earned'
    BY EarnedGrows DEF FlowInv
  <1>4. CASE Controls' = Controls
    <2>1. Cardinality(Earned) <= Cardinality(Earned')
      BY <1>2, <1>3, FS_Subset
    <2> QED BY <1>1, <1>2, <1>4, <2>1 DEF EarnedInv
  <1>5. ASSUME NEW k, Controls' \subseteq Controls \cup {k},
               agent.req \in Earned', agent.req \notin Earned
        PROVE  EarnedInv'
    <2>1. /\ IsFiniteSet(Controls \cup {k})
          /\ \/ Cardinality(Controls \cup {k}) = Cardinality(Controls)
             \/ Cardinality(Controls \cup {k}) = Cardinality(Controls) + 1
      <3>1. CASE k \in Controls
        <4>1. Controls \cup {k} = Controls
          BY <3>1
        <4> QED BY <1>1, <4>1
      <3>2. CASE k \notin Controls
        BY <1>1, <3>2, FS_AddElement
      <3> QED BY <3>1, <3>2
    <2>2. Cardinality(Controls') <= Cardinality(Controls \cup {k})
      BY <1>5, <2>1, FS_Subset
    <2>3. PICK c : c = agent.req
      OBVIOUS
    <2>4. Cardinality(Earned \cup {c}) = Cardinality(Earned) + 1
      BY <1>1, <1>5, <2>3, FS_AddElement
    <2>5. Earned \cup {c} \subseteq Earned'
      BY <1>3, <1>5, <2>3
    <2>6. Cardinality(Earned \cup {c}) <= Cardinality(Earned')
      BY <1>2, <2>5, FS_Subset
    <2> QED BY <1>1, <1>2, <2>1, <2>2, <2>4, <2>6 DEF EarnedInv
  <1> QED BY <1>4, <1>5, OneMoreControl

LEMMA EarnedInvariant == Spec => []EarnedInv
  <1>1. TypeOK /\ FlowInv /\ TypeOK' /\ FlowInv' /\ EarnedInv /\ [Next]_vars => EarnedInv'
    <2>1. TypeOK /\ ServedInv => CountsFinite
      BY FiniteCounts
    <2>2. (TypeOK /\ ServedInv => CountsFinite)'
      BY FiniteCounts, PTL
    <2> QED BY <2>1, <2>2, NextEarned, StepIsHandStep, StepIsRestStep DEF FlowInv
  <1> QED BY <1>1, InitEarned, FlowInvariant, PTL DEF Spec

LEMMA EarnedIsEarned == TypeOK /\ FlowInv /\ EarnedInv => GrantsAreEarned
  <1> SUFFICES ASSUME TypeOK, FlowInv, EarnedInv PROVE GrantsAreEarned
    OBVIOUS
  <1> DEFINE Knowing == {c \in setting.who \cap Client : knows[c]}
  <1>1. /\ IsFiniteSet(setting.who) /\ Cardinality(Controls) \in Nat
        /\ Cardinality(Earned) \in Nat
    BY FiniteCounts DEF FlowInv, CountsFinite
  <1>2. IsFiniteSet(Knowing) /\ Cardinality(Knowing) \in Nat
    BY <1>1, FS_Subset, FS_CardinalityType
  <1>3. Cardinality(Earned) <= Cardinality(Knowing)
    BY <1>2, FS_Subset DEF Earned
  <1> QED BY <1>1, <1>2, <1>3 DEF EarnedInv, GrantsAreEarned, Controls

\* However many calls fail, sessions are evicted or agents die, there are never
\* more devices with the permissions than clients that proved the password.
THEOREM GrantsEarned == Spec => []GrantsAreEarned
  BY EarnedInvariant, FlowInvariant, EarnedIsEarned, PTL

-----------------------------------------------------------------------------
(* No faults and no guests: what the agent sees is its client's, or that of *)
(* one it gave up.                                                         *)

\* What the agent does then.
QuietAgent ==
    \/ agent' = agent
    \/ agent.phase = "post" /\ agent' = IdleAgent
    \/ /\ agent.phase = "idle" /\ UNCHANGED <<shake, clients>>
       /\ agent'.phase \in {"list", "post"} /\ agent'.result # "paired"
    \/ AgentList \/ AgentPin \/ AgentPinNotDue \/ AgentLook \/ AgentUpdate
    \/ AgentGivesUp

LEMMA StepIsQuiet ==
    ASSUME TypeOK, ServedInv, Quietly, [Next]_vars
    PROVE  QuietAgent
  <1> USE DEF QuietAgent
  <1>1. ASSUME NEW c \in Client, ClientStep(c) \/ RequestLost(c)
        PROVE  agent' = agent
    BY <1>1 DEF ClientStep, Ask, Submit, SubmitUnanswered, WatchEnd, WatchFail, RequestLost
  <1>2. ASSUME NEW c \in Client, AgentTake(c)
        PROVE  QuietAgent
    <2>1. "paired" # None
      BY FlowAssumption
    <2> QED BY <1>2, <2>1 DEF AgentTake, IdleAgent, apolloVars
  <1>3. ASSUME NEW d \in Device, ShakeStep(d)
        PROVE  agent' = agent
    BY <1>3 DEF ShakeStep, Park, Resume, Handle, Receive, BreakOff
  <1>4. ASSUME NEW d \in Guest, GuestStarts(d) \/ OwnerPin(d)
        PROVE  agent' = agent
    BY <1>4 DEF GuestStarts, OwnerPin
  <1>5. ~AgentDies /\ ~ApolloError /\ ~AgentEvicted
    BY DEF Quietly, AgentDies, ApolloError, AgentEvicted
  <1>6. AgentPoll => agent' = agent
    BY DEF AgentPoll
  <1>7. AgentPost => agent.phase = "post" /\ agent' = IdleAgent
    BY DEF AgentPost
  <1>8. CASE UNCHANGED vars
    BY <1>8 DEF vars, moving
  <1> QED
    BY <1>1, <1>2, <1>3, <1>4, <1>5, <1>6, <1>7, <1>8 DEF Next, Step, AgentStep

LEMMA OnlyEntersPins ==
    ASSUME TypeOK, ShakeInv, HandStep, NEW d \in Device,
           shake[d].at = "parked", shake'[d].at = "pinned"
    PROVE  \E pin \in Device : Enters(pin)
  <1>1. \A e \in Device : ~Starts(e) /\ ~Ends(e)
    BY DEF Starts, Ends, TypeOK, Shake
  <1>2. \A e \in Device : ~Park(e)
    <2> SUFFICES ASSUME NEW e \in Device, Park(e) PROVE FALSE
      OBVIOUS
    <2>1. \/ shake'[d] = [shake[d] EXCEPT !.at = "parked"]
          \/ shake'[d] = [shake[d] EXCEPT !.at = "reply", !.body = "refused"]
          \/ shake'[d] = shake[d]
      BY DEF Park
    <2>2. shake[d] \in Shake
      BY DEF TypeOK
    <2> QED BY <2>1, <2>2 DEF Shake
  <1>3. \A e \in Device : ~Resume(e)
    BY ResumeTurn
  <1>4. \A e \in Device : ~Handle(e)
    BY HandleTurn
  <1>5. \A e \in Device : ~Receive(e)
    BY DEF Receive, TypeOK
  <1> QED BY <1>1, <1>2, <1>3, <1>4, <1>5 DEF HandStep, Grants

\* Only the client being served can come to be listed.
LEMMA OnlyServed ==
    ASSUME TypeOK, FlowInv, Quietly, HandStep, NEW d \in Device, CanList(d)'
    PROVE  CanList(d) \/ (agent.phase = "pin" /\ agent.req = d)
  <1>0. Turn(d) /\ (Past(d) => Past(d)') /\ d # None
    BY AllTurn, Steady, FlowAssumption DEF FlowInv
  <1>2. ASSUME ~CanList(d) PROVE Pinned(d)
    <2>1. ~Past(d) /\ shake'[d].pin = d /\ shake'[d].at \in {"sent", "pinned", "reply"}
      BY <1>0 DEF CanList
    <2>2. /\ shake[d].at \in {"unborn", "parked"} => shake[d].pin = None
      BY DEF FlowInv, ShakeInv
    <2>3. shake'[d] # shake[d]
      BY <1>2, <2>1 DEF CanList
    <2>4. ~Waiting(d)
      BY <1>0, <1>2, <2>1, <2>2 DEF Waiting, CanList
    <2>5. ~Advances(d)
      BY <1>2, <2>1 DEF Advances, CanList
    <2> QED BY <1>0, <2>3, <2>4, <2>5 DEF Turn
  <1>3. ASSUME Pinned(d) PROVE agent.phase = "pin" /\ agent.req = d
    <2>1. shake[d].at = "parked" /\ shake'[d].at = "pinned" /\ shake'[d].pin = d
      BY <1>3 DEF Pinned, CanList
    <2>2. PICK pin \in Device : Enters(pin)
      BY <2>1, OnlyEntersPins DEF FlowInv
    <2>3. pin = d
      BY <2>1, <2>2, EnterTurn DEF Enters, FlowInv
    <2>4. d \notin Guest
      BY <2>1 DEF FlowInv, ServedInv, Quietly
    <2> QED BY <2>2, <2>3, <2>4 DEF Enters
  <1> QED BY <1>2, <1>3

\* The list gets no entry but of one that could be listed.
LEMMA OnlyCanIsListed ==
    ASSUME TypeOK, FlowInv, HandStep
    PROVE  /\ Len(clients) \in Nat /\ Len(clients') \in Nat
           /\ Len(clients) <= Len(clients')
           /\ \A i \in 1..Len(clients') :
                 \/ i \in 1..Len(clients) /\ clients'[i].device = clients[i].device
                 \/ clients'[i].device \in Device /\ CanList(clients'[i].device)
  <1>1. ListStep /\ Len(clients) \in Nat
    BY HandIsListStep, LenProperties DEF FlowInv, TypeOK
  <1>2. CASE clients' = clients
    BY <1>1, <1>2
  <1>3. CASE Grants
    BY <1>1, <1>3, GrantEffect DEF Grants
  <1>4. ASSUME NEW e \in Device, shake[e].step = "clientpairingsecret",
               shake[e].at = "sent", shake[e].pin = e,
               clients' = Append(clients, [device |-> e, name |-> e, perm |-> "view"])
        PROVE  /\ Len(clients') = Len(clients) + 1
               /\ \A i \in 1..Len(clients') :
                     \/ i \in 1..Len(clients) /\ clients'[i].device = clients[i].device
                     \/ clients'[i].device \in Device /\ CanList(clients'[i].device)
    <2>1. CanList(e)
      BY <1>4 DEF CanList, Past
    <2>2. [device |-> e, name |-> e, perm |-> "view"] \in Listed
      BY DEF Listed
    <2>3. /\ Len(clients') = Len(clients) + 1
          /\ \A i \in 1..Len(clients') :
                \/ i \in 1..Len(clients) /\ clients'[i].device = clients[i].device
                \/ clients'[i].device = e
      BY <1>1, <1>4, <2>2, AppendEffect
    <2> QED BY <2>1, <2>3
  <1>5. CASE \E e \in Device :
               /\ Handle(e) /\ shake[e].step = "clientpairingsecret"
               /\ shake[e].at = "sent" /\ shake[e].pin = e /\ Past(e)'
               /\ clients' = Append(clients, [device |-> e, name |-> e, perm |-> "view"])
    BY <1>1, <1>4, <1>5
  <1> QED BY <1>1, <1>2, <1>3, <1>5 DEF ListStep

LEMMA GrantedStays ==
    ASSUME TypeOK, FlowInv, HandStep, NEW c, Granted(c)
    PROVE  Granted(c)'
  BY HandIsListStep, ListGrows DEF FlowInv, Granted

LEMMA GivenUpStays ==
    ASSUME ServedInv, RestStep, NEW c \in Client, GivenUp(c)
    PROVE  GivenUp(c)'
  BY DEF RestStep, StageMove, TellMove, ServedInv, GivenUp

LEMMA MisledStays ==
    ASSUME TypeOK, FlowInv, HandStep, RestStep, Misled
    PROVE  Misled'
  <1>1. PICK d \in Client : GivenUp(d) /\ Granted(d)
    BY DEF Misled
  <1>2. GivenUp(d)' /\ Granted(d)'
    BY <1>1, GivenUpStays, GrantedStays DEF FlowInv
  <1> QED BY <1>2 DEF Misled

\* One that was given up stays so, before and after the result is posted.
LEMMA AbandonedStays ==
    ASSUME TypeOK, ServedInv, RestStep, QuietAgent, NEW d, Abandoned(d)
    PROVE  Abandoned(d)'
  <1>1. CASE GivenUp(d)
    BY <1>1, GivenUpStays DEF Abandoned
  <1>2. CASE agent.phase = "post" /\ agent.req = d /\ agent.result = "failed"
    <2>1. d \in Client /\ stage[d] = "handed"
      BY <1>2 DEF ServedInv
    <2>2. CASE agent' = agent
      BY <1>2, <2>1, <2>2 DEF Abandoned
    <2>3. CASE agent' = IdleAgent
      <3>1. stage'[d] \in {"answered", "lost"}
        BY <1>2, <2>1, <2>3 DEF RestStep, AgentMove, AgentTake, IdleAgent, StageMove
      <3>2. stage'[d] = "answered" => answer'[d] = "failed"
        BY <1>2, <2>1 DEF RestStep, TellMove
      <3> QED BY <2>1, <3>1, <3>2 DEF Abandoned, GivenUp
    <2>4. ~AgentList /\ ~AgentPin /\ ~AgentPinNotDue /\ ~AgentLook /\ ~AgentUpdate
          /\ ~AgentGivesUp
      BY <1>2 DEF AgentList, AgentPin, AgentPinNotDue, AgentLook, AgentUpdate, AgentGivesUp
    <2> QED BY <1>2, <2>2, <2>3, <2>4 DEF QuietAgent
  <1> QED BY <1>1, <1>2 DEF Abandoned

\* The grant goes to the client being served, or to one that was given up.
LEMMA GrantServes ==
    ASSUME TypeOK, FlowInv, ServesOneInv, HandStep, RestStep, AgentUpdate
    PROVE  /\ agent.before + 1 \in 1..Len(clients)
           /\ clients[agent.before + 1].device = agent.req => Granted(agent.req)'
           /\ clients[agent.before + 1].device # agent.req => Misled'
  <1>1. /\ agent.before \in Nat /\ agent.phase = "update" /\ Grant
        /\ Len(clients) \in Nat
    BY LenProperties DEF TypeOK, AgentState, AgentUpdate
  <1>2. PICK k : k = agent.before + 1
    OBVIOUS
  <1>3. k \in 1..Len(clients) /\ k > agent.before
    BY <1>1, <1>2 DEF ServesOneInv
  <1>4. /\ k \in 1..Len(clients') /\ clients'[k].device = clients[k].device
        /\ clients'[k].perm = "control"
    BY <1>1, <1>2, <1>3, GrantEffect
  <1>5. Granted(clients[k].device)'
    BY <1>4 DEF Granted
  <1>6. clients[k].device = agent.req \/ Abandoned(clients[k].device)
    BY <1>1, <1>3 DEF ServesOneInv
  <1>7. Abandoned(clients[k].device) =>
            clients[k].device \in Client /\ GivenUp(clients[k].device)
    BY <1>1 DEF Abandoned
  <1>8. clients[k].device # agent.req => Misled'
    <2> SUFFICES ASSUME clients[k].device # agent.req PROVE Misled'
      OBVIOUS
    <2>1. PICK e \in Client : e = clients[k].device /\ GivenUp(e)
      BY <1>6, <1>7
    <2>2. GivenUp(e)'
      BY <2>1, GivenUpStays DEF FlowInv
    <2>3. Granted(e)'
      BY <1>4, <2>1 DEF Granted
    <2> QED BY <2>2, <2>3 DEF Misled
  <1>9. clients[k].device = agent.req => Granted(agent.req)'
    <2>1. agent'.req = agent.req
      BY DEF AgentUpdate, TypeOK, AgentState
    <2> QED BY <1>4, <2>1 DEF Granted
  <1> QED BY <1>2, <1>3, <1>8, <1>9

LEMMA NextServesOne ==
    ASSUME TypeOK, FlowInv, ServesOneInv, Quietly, HandStep, RestStep, QuietAgent, ~Misled'
    PROVE  ServesOneInv'
  <1>0. /\ Len(clients) \in Nat /\ Len(clients') \in Nat /\ Len(clients) <= Len(clients')
        /\ \A i \in 1..Len(clients') :
              \/ i \in 1..Len(clients) /\ clients'[i].device = clients[i].device
              \/ clients'[i].device \in Device /\ CanList(clients'[i].device)
    BY OnlyCanIsListed
  <1>1. agent \in AgentState /\ agent.before \in Nat
    BY DEF TypeOK, AgentState
  <1>2. ASSUME NEW d \in Device, CanList(d)'
        PROVE  Served(d)' \/ Abandoned(d)'
    <2>1. CASE Abandoned(d)
      BY <2>1, AbandonedStays DEF FlowInv
    <2>2. CASE Served(d) /\ AgentUpdate
      <3>1. d = agent.req
        BY <2>2 DEF Served
      <3>2. /\ agent.before + 1 \in 1..Len(clients)
            /\ clients[agent.before + 1].device = d
        BY <2>2, <3>1, GrantServes
      <3>3. Past(d)
        BY <3>2 DEF FlowInv, ListInv
      <3>4. Past(d)'
        BY <3>3, AllTurn, Steady, FlowAssumption DEF FlowInv
      <3> QED BY <1>2, <3>4 DEF CanList
    <2>3. CASE Served(d) /\ AgentGivesUp
      <3>1. agent.req \in Client /\ d = agent.req
        BY <2>3 DEF FlowInv, ServedInv, Served
      <3>2. agent'.phase = "post" /\ agent'.req = d /\ agent'.result = "failed"
        BY <1>1, <2>3, <3>1 DEF AgentGivesUp, AgentState
      <3> QED BY <3>1, <3>2 DEF Abandoned
    <2>4. CASE Served(d) /\ ~AgentUpdate /\ ~AgentGivesUp
      <3>1. \/ agent' = agent \/ AgentPin \/ AgentPinNotDue \/ AgentLook
        BY <2>4 DEF QuietAgent, Served, AgentList
      <3> QED BY <1>1, <2>4, <3>1 DEF Served, AgentPin, AgentPinNotDue, AgentLook, AgentState
    <2> QED BY <1>2, <2>1, <2>2, <2>3, <2>4, OnlyServed DEF ServesOneInv, Served
  <1>3. ASSUME agent'.phase \in {"pin", "look", "update"}
        PROVE  /\ agent'.before <= Len(clients')
               /\ \A i \in 1..Len(clients') : i > agent'.before =>
                      (clients[i].device = agent.req)' \/ Abandoned(clients[i].device)'
               /\ agent'.phase = "update" => agent'.before < Len(clients')
    <2>0. \A d : Abandoned(d) => Abandoned(d)'
      BY AbandonedStays DEF FlowInv
    <2>1. CASE AgentList
      <3>1. agent'.before = Len(clients) /\ clients' = clients
        BY <1>1, <2>1 DEF AgentList, ListedBefore, AgentState, apolloVars
      <3>2. agent'.phase = "pin"
        BY <1>1, <2>1 DEF AgentList, AgentState
      <3> QED BY <1>0, <3>1, <3>2
    <2>2. ASSUME agent.phase \in {"pin", "look", "update"},
                 agent'.before = agent.before, agent'.req = agent.req
          PROVE  /\ agent'.before <= Len(clients')
                 /\ \A i \in 1..Len(clients') : i > agent'.before =>
                        (clients[i].device = agent.req)' \/ Abandoned(clients[i].device)'
      <3>1. agent'.before <= Len(clients')
        BY <1>0, <1>1, <2>2 DEF ServesOneInv
      <3>2. ASSUME NEW i \in 1..Len(clients'), i > agent'.before
            PROVE  clients'[i].device = agent.req \/ Abandoned(clients'[i].device)
        <4>1. CASE i \in 1..Len(clients) /\ clients'[i].device = clients[i].device
          BY <2>2, <3>2, <4>1 DEF ServesOneInv
        <4>2. CASE clients'[i].device \in Device /\ CanList(clients'[i].device)
          BY <4>2 DEF ServesOneInv, Served
        <4> QED BY <1>0, <4>1, <4>2
      <3>3. ASSUME NEW i \in 1..Len(clients'), i > agent'.before
            PROVE  (clients[i].device = agent.req)' \/ Abandoned(clients[i].device)'
        <4>1. PICK e : e = clients'[i].device
          OBVIOUS
        <4>2. e = agent.req \/ Abandoned(e)
          BY <3>2, <3>3, <4>1
        <4>3. Abandoned(e) => Abandoned(e)'
          BY <2>0
        <4>4. Abandoned(e)' => Abandoned(clients[i].device)'
          BY <4>1 DEF Abandoned
        <4> QED BY <2>2, <4>1, <4>2, <4>3, <4>4
      <3> QED BY <3>1, <3>3
    <2>3. CASE AgentLook
      <3>1. /\ agent.phase = "look" /\ clients' = clients
            /\ agent'.before = agent.before /\ agent'.req = agent.req
            /\ agent'.phase = "update" => NewClientListed
        BY <1>1, <2>3 DEF AgentLook, AgentState, apolloVars
      <3> QED BY <1>0, <1>1, <2>2, <3>1 DEF NewClientListed
    <2>4. CASE agent' = agent \/ AgentPin \/ AgentPinNotDue
      <3>1. /\ agent.phase \in {"pin", "look", "update"}
            /\ agent'.before = agent.before /\ agent'.req = agent.req
            /\ agent'.phase = "update" => agent.phase = "update"
        BY <1>1, <1>3, <2>4 DEF AgentPin, AgentPinNotDue, AgentState
      <3>2. agent'.phase = "update" => agent'.before < Len(clients')
        BY <1>0, <1>1, <3>1 DEF ServesOneInv
      <3> QED BY <2>2, <3>1, <3>2
    <2>5. ~AgentUpdate /\ ~AgentGivesUp
      BY <1>1, <1>3 DEF AgentUpdate, AgentGivesUp, AgentState
    <2>6. agent' # IdleAgent
      BY <1>3 DEF IdleAgent
    <2> QED BY <1>3, <2>1, <2>3, <2>4, <2>5, <2>6 DEF QuietAgent
  <1>4. ASSUME agent'.phase = "post", agent'.result = "paired"
        PROVE  Granted(agent.req)'
    <2>1. CASE agent' = agent
      <3>1. Granted(agent.req)
        BY <1>4, <2>1 DEF ServesOneInv
      <3>2. \A c : Granted(c) => Granted(c)'
        BY GrantedStays
      <3> QED BY <2>1, <3>1, <3>2
    <2>2. CASE AgentUpdate
      <3>1. agent'.req = agent.req
        BY <1>1, <2>2 DEF AgentUpdate, AgentState
      <3> QED BY <2>2, <3>1, GrantServes
    <2>3. ~AgentList /\ ~AgentPin /\ ~AgentPinNotDue /\ ~AgentLook
      BY <1>1, <1>4 DEF AgentList, AgentPin, AgentPinNotDue, AgentLook, AgentState
    <2>4. ~AgentGivesUp
      BY <1>1, <1>4 DEF AgentGivesUp, AgentState
    <2>5. agent' # IdleAgent
      BY <1>4 DEF IdleAgent
    <2> QED BY <1>4, <2>1, <2>2, <2>3, <2>4, <2>5 DEF QuietAgent
  <1>5. ASSUME NEW c \in Client, answer'[c] = "paired" \/ session'[c] = "paired"
        PROVE  Granted(c)'
    <2>1. TellMove(c)
      BY DEF RestStep
    <2>2. Granted(c)
      BY <1>5, <2>1 DEF TellMove, ServesOneInv
    <2> QED BY <2>2, GrantedStays
  <1> QED BY <1>2, <1>3, <1>4, <1>5 DEF ServesOneInv

LEMMA InitQuiet == Init => QuietInv
  <1> SUFFICES ASSUME Init PROVE ServesOneInv
    BY DEF QuietInv
  <1>1. \A d \in Device : ~CanList(d)
    BY FlowAssumption DEF Init, NoShake, CanList
  <1>2. agent.phase = "idle"
    BY DEF Init, IdleAgent
  <1>3. \A c \in Client : answer[c] # "paired" /\ session[c] # "paired"
    BY FlowAssumption DEF Init, Courier!Init
  <1> QED BY <1>1, <1>2, <1>3 DEF ServesOneInv

LEMMA QuietInvariant == Spec => []QuietInv
  <1>1. TypeOK /\ FlowInv /\ QuietInv /\ [Next]_vars => QuietInv'
    <2> SUFFICES ASSUME TypeOK, FlowInv, QuietInv, [Next]_vars, Quietly', ~Misled'
                 PROVE  ServesOneInv'
      BY DEF QuietInv
    <2>1. HandStep /\ RestStep /\ UNCHANGED setting
      BY StepIsHandStep, StepIsRestStep DEF FlowInv
    <2>2. Quietly
      BY <2>1 DEF Quietly
    <2>3. QuietAgent
      BY <2>2, StepIsQuiet DEF FlowInv
    <2>4. ~Misled
      BY <2>1, MisledStays
    <2> QED BY <2>1, <2>2, <2>3, <2>4, NextServesOne DEF QuietInv
  <1> QED BY <1>1, InitQuiet, FlowInvariant, PTL DEF Spec

LEMMA QuietIsTold == QuietInv => ToldPairedIsGranted
  BY DEF QuietInv, ServesOneInv, Quietly, ToldPairedIsGranted, Misled

\* While no call fails at the host and no guest pairs at the same time, a client
\* that is told it is paired has the permissions, or they went to another client
\* that the agent had given up; in whatever order clients come, give up and come
\* again, and however late their handshakes end.
THEOREM ToldGranted == Spec => []ToldPairedIsGranted
  BY QuietInvariant, QuietIsTold, PTL
=============================================================================
