------------------------------ MODULE PairFlow ------------------------------
(***************************************************************************)
(* Pairing by password, end to end: what a client does in pair_with        *)
(* (crates/ra-client), the host agent in handle_pair (crates/ra-host) and  *)
(* Apollo, as crates/ra-fakehost plays it, between them.  Requests and     *)
(* results travel by PairExchange, the specification the rendezvous server *)
(* is shown to implement.                                                  *)
(*                                                                         *)
(* One host.  A device is one pairing attempt with a PIN of its own: of a  *)
(* remote client, which goes through the agent, or of a guest, whose PIN   *)
(* the owner types into Apollo's own page.                                 *)
(***************************************************************************)
EXTENDS Naturals, Sequences, FiniteSets

CONSTANTS
    Client, Guest,
    Host,               \* the id of the one host
    None,
    Outlives,           \* the presenter is a Moonlight process, which runs on
                        \* when ra-client drops it; a native one does not
    Setting             \* who takes part, and what may go wrong at the host

Device == Client \cup Guest

Faults == {"apollo_error", "evicted", "agent_dies"}

ASSUME FlowAssumption ==
    /\ Client \cap Guest = {} /\ None \notin Device \cup {Host} \cup (Device \X Device)
    /\ None \notin {"paired", "rejected", "failed"}
    /\ Outlives \in BOOLEAN
    /\ Setting \subseteq [who : SUBSET Device, faults : SUBSET Faults]
    /\ \A s \in Setting : IsFiniteSet(s.who)

VARIABLES
    setting,                \* one of Setting, for good
    stage, host, answer,    \* the courier
    knows,                  \* the clients that have the right password
    session,                \* how pair_with stands, for each client
    shake,                  \* the presenter: the client side of the handshake
    parked,                 \* Inner.parked
    apollo,                 \* FakeHost: the one handshake state
    pendingName,            \* Inner.pending_name
    clients,                \* Inner.clients: the paired certificates
    agent,                  \* handle_pair: where it is
    fed                     \* history: which session got which PIN

courier == <<stage, host, answer>>
apolloVars == <<parked, apollo, pendingName, clients>>
moving == <<courier, knows, session, shake, apolloVars, agent, fed>>
vars == <<setting, moving>>

Courier == INSTANCE PairExchange WITH
    Id <- {Host}, Req <- Client, Result <- {"paired", "rejected", "failed"}

INSTANCE Handshake

-----------------------------------------------------------------------------
\* A presenter: its current step, where that request is, the PIN entered for
\* it, the body on its way back, and what it was told in the second phase.
NoShake == [step |-> "getservercert", at |-> "unborn", pin |-> None,
            body |-> "good", told |-> "good"]

IdleAgent == [phase |-> "idle", req |-> None, before |-> 0,
              delivered |-> FALSE, result |-> None]

Init ==
    /\ setting \in Setting
    /\ Courier!Init
    /\ knows \in [Client -> BOOLEAN]
    /\ session = [c \in Client |-> "idle"]
    /\ shake = [d \in Device |-> NoShake]
    /\ parked = None
    /\ apollo = NoSession
    /\ pendingName = None
    /\ clients = <<>>
    /\ agent = IdleAgent
    /\ fed = {}

-----------------------------------------------------------------------------
(* The client: pair_with.                                                  *)

\* The challenge is fetched.
Ask(c) ==
    /\ c \in setting.who
    /\ Courier!Issue(c, Host)
    /\ UNCHANGED <<knows, session, shake, apolloVars, agent, fed>>

\* The request is submitted, and the presenter started at once.
Submit(c) ==
    /\ Courier!Queue(c)
    /\ session' = [session EXCEPT ![c] = "waits"]
    /\ shake' = [shake EXCEPT ![c].at = "sent"]
    /\ UNCHANGED <<knows, apolloVars, agent, fed>>

\* The request is queued, but the client is not told: it gives up before there
\* is a presenter.
SubmitUnanswered(c) ==
    /\ Courier!Queue(c)
    /\ session' = [session EXCEPT ![c] = "failed"]
    /\ UNCHANGED <<knows, shake, apolloVars, agent, fed>>

BugForgotten(c) == [shake EXCEPT ![c] = None]

\* The presenters once that of c is dropped.
Dropped(c) ==
    IF Outlives THEN shake ELSE [shake EXCEPT ![c].at = "ended"]

\* The watcher is told the result; whatever the presenter was doing is over.
WatchEnd(c) ==
    /\ session[c] = "waits"
    /\ stage[c] = "answered"
    /\ session' = [session EXCEPT ![c] = answer[c]]
    /\ shake' = Dropped(c)
    /\ UNCHANGED <<courier, knows, apolloVars, agent, fed>>

\* The watcher fails: the deadline, 404 for the slot, the network.
WatchFail(c) ==
    /\ session[c] = "waits"
    /\ session' = [session EXCEPT ![c] = "failed"]
    /\ shake' = Dropped(c)
    /\ UNCHANGED <<courier, knows, apolloVars, agent, fed>>

\* A guest pairs without any of this.
GuestStarts(d) ==
    /\ d \in setting.who
    /\ shake[d].at = "unborn"
    /\ shake' = [shake EXCEPT ![d].at = "sent"]
    /\ UNCHANGED <<courier, knows, session, apolloVars, agent, fed>>

-----------------------------------------------------------------------------
(* The handshake, request by request.                                      *)

\* getservercert parks, and takes the place of the one that was parked: its
\* handler finds the channel closed and answers 503.
Park(d) ==
    /\ shake[d].at = "sent" /\ shake[d].step = "getservercert"
    /\ parked' = d
    /\ shake' = [e \in Device |->
          IF e = d THEN [shake[d] EXCEPT !.at = "parked"]
          ELSE IF e = parked /\ shake[e].at = "parked"
            THEN [shake[e] EXCEPT !.at = "reply", !.body = "refused"]
          ELSE shake[e]]
    /\ UNCHANGED <<courier, knows, session, apollo, pendingName, clients, agent, fed>>

\* api_pin: the parked session, live or not, consumes the PIN.
Enter(pin) ==
    /\ parked' = None
    /\ IF shake[parked].at = "parked"
         THEN /\ shake' = [shake EXCEPT ![parked].at = "pinned", ![parked].pin = pin]
              /\ fed' = fed \cup {<<parked, pin>>}
         ELSE UNCHANGED <<shake, fed>>

\* The parked handler goes on with the PIN it was sent.
Resume(d) ==
    /\ shake[d].at = "pinned"
    /\ apollo' = Keyed(apollo, d, shake[d].pin)
    /\ pendingName' = shake[d].pin
    /\ shake' = [shake EXCEPT ![d].at = "reply", ![d].body = "good"]
    /\ UNCHANGED <<courier, knows, session, parked, clients, agent, fed>>

\* Any later request is handled under the lock; the last of the host's own
\* phases lists the client, with the default permissions.
Handle(d) ==
    /\ shake[d].at = "sent" /\ shake[d].step # "getservercert"
    /\ LET step == shake[d].step
           body == BodyFor(apollo, d, step)
       IN  /\ shake' = [shake EXCEPT ![d].at = "reply", ![d].body = body]
           /\ apollo' = StateAfter(apollo, d, step, shake[d].told)
           /\ IF step = "clientpairingsecret" /\ body = "good"
                THEN /\ clients' = Append(clients,
                              [device |-> d, name |-> pendingName, perm |-> "view"])
                     /\ pendingName' = None
                ELSE UNCHANGED <<clients, pendingName>>
    /\ UNCHANGED <<courier, knows, session, parked, agent, fed>>

\* Pairing::next: on to the next phase, or to the end.
Advanced(sh, next) ==
    [sh EXCEPT !.step = next,
               !.at = IF next = "done" THEN "ended" ELSE "sent",
               !.told = IF sh.step = "clientchallenge" THEN sh.body ELSE sh.told]

Receive(d) ==
    /\ shake[d].at = "reply"
    /\ LET sh == shake[d] IN
       shake' = [shake EXCEPT ![d] =
           IF Accepts(sh.step, sh.told, sh.body) THEN Advanced(sh, StepAfter[sh.step])
           ELSE [sh EXCEPT !.at = "ended"]]
    /\ UNCHANGED <<courier, knows, session, apolloVars, agent, fed>>

\* The presenter gives up waiting, or loses its connection.
BreakOff(d) ==
    /\ shake[d].at \in {"sent", "parked", "pinned", "reply"}
    /\ shake' = [shake EXCEPT ![d].at = "ended"]
    /\ UNCHANGED <<courier, knows, session, apolloVars, agent, fed>>

-----------------------------------------------------------------------------
(* The host agent: the loop of run, and handle_pair.                       *)

BugNoCheck(c) == TRUE

\* The response and the sealed PIN open under the host's password.
RightPassword(c) == knows[c]

\* A poll brings whatever is queued; the next one follows when all of it has
\* been dealt with.
AgentPoll ==
    /\ agent.phase = "idle"
    /\ \A c \in Client : stage[c] # "handed"
    /\ \E c \in Client : stage[c] = "queued"
    /\ Courier!HandOver(Host)
    /\ UNCHANGED <<knows, session, shake, apolloVars, agent, fed>>

AgentTake(c) ==
    /\ agent.phase = "idle"
    /\ stage[c] = "handed"
    /\ agent' = IF RightPassword(c)
                  THEN [IdleAgent EXCEPT !.phase = "list", !.req = c]
                  ELSE [IdleAgent EXCEPT !.phase = "post", !.req = c,
                                         !.result = "rejected"]
    /\ UNCHANGED <<courier, knows, session, shake, apolloVars, fed>>

\* The clients Apollo has before; the list only grows, so its length tells.
BugNothingBefore == 0
ListedBefore == Len(clients)

AgentList ==
    /\ agent.phase = "list"
    /\ agent' = [agent EXCEPT !.phase = "pin", !.before = ListedBefore]
    /\ UNCHANGED <<courier, knows, session, shake, apolloVars, fed>>

AgentPin ==
    /\ agent.phase = "pin"
    /\ agent' = [agent EXCEPT !.phase = "look",
                              !.delivered = @ \/ parked # None]
    /\ IF parked # None THEN Enter(agent.req) ELSE UNCHANGED <<parked, shake, fed>>
    /\ UNCHANGED <<courier, knows, session, apollo, pendingName, clients>>

\* The last delivery is less than five seconds old.
AgentPinNotDue ==
    /\ agent.phase = "pin" /\ agent.delivered
    /\ agent' = [agent EXCEPT !.phase = "look"]
    /\ UNCHANGED <<courier, knows, session, shake, apolloVars, fed>>

NewClientListed == agent.delivered /\ Len(clients) > agent.before

AgentLook ==
    /\ agent.phase = "look"
    /\ agent' = [agent EXCEPT !.phase = IF NewClientListed THEN "update" ELSE "pin"]
    /\ UNCHANGED <<courier, knows, session, shake, apolloVars, fed>>

BugGrantsAll ==
    clients' = [i \in DOMAIN clients |->
                  IF i > agent.before THEN [clients[i] EXCEPT !.perm = "control"] ELSE clients[i]]

\* The first client that was not listed before gets the permission mask.
Grant == clients' = [clients EXCEPT ![agent.before + 1].perm = "control"]

AgentUpdate ==
    /\ agent.phase = "update"
    /\ Grant
    /\ agent' = [agent EXCEPT !.phase = "post", !.result = "paired"]
    /\ UNCHANGED <<courier, knows, session, shake, parked, apollo, pendingName, fed>>

BugGivesUpUndelivered ==
    /\ agent.phase = "pin" /\ ~agent.delivered
    /\ agent' = [agent EXCEPT !.phase = "post", !.result = "failed"]
    /\ UNCHANGED <<courier, knows, session, shake, apolloVars, fed>>

\* PIN_WAIT + CLIENT_APPEAR_WAIT have passed since the list was taken.  The
\* agent looks at the clock alone: a client that parked late may be in the
\* middle of its handshake.
AgentGivesUp ==
    /\ agent.phase = "pin"
    /\ agent' = [agent EXCEPT !.phase = "post", !.result = "failed"]
    /\ UNCHANGED <<courier, knows, session, shake, apolloVars, fed>>

\* Any call to Apollo that fails ends handle_pair; it may have done its work
\* all the same.
ApolloError ==
    /\ "apollo_error" \in setting.faults
    /\ agent.phase \in {"list", "pin", "look", "update"}
    /\ agent' = [agent EXCEPT !.phase = "post", !.result = "failed"]
    /\ \/ UNCHANGED <<shake, parked, clients, fed>>
       \/ /\ agent.phase = "pin" /\ parked # None
          /\ Enter(agent.req) /\ UNCHANGED clients
       \/ agent.phase = "update" /\ Grant /\ UNCHANGED <<shake, parked, fed>>
    /\ UNCHANGED <<courier, knows, session, apollo, pendingName>>

\* Apollo keeps one web session, and whoever logs in ends the others.  A call
\* that is refused for it logs in and is made once more; refused again, it takes
\* the refusal for the answer: no client is listed, no PIN was waited for.
AgentEvicted ==
    /\ "evicted" \in setting.faults
    /\ \/ agent.phase = "list" /\ agent' = [agent EXCEPT !.phase = "pin", !.before = 0]
       \/ agent.phase = "pin" /\ agent' = [agent EXCEPT !.phase = "look"]
       \/ agent.phase = "look" /\ agent' = [agent EXCEPT !.phase = "pin"]
       \/ agent.phase = "update" /\ agent' = [agent EXCEPT !.phase = "post", !.result = "failed"]
    /\ UNCHANGED <<courier, knows, session, shake, apolloVars, fed>>

AgentPost ==
    /\ agent.phase = "post"
    /\ \/ Courier!Answer(agent.req, agent.result)
       \/ Courier!Lose({agent.req})
    /\ agent' = IdleAgent
    /\ UNCHANGED <<knows, session, shake, apolloVars, fed>>

\* The agent's process ends, and with it all it was handed; it starts again.
AgentDies ==
    /\ "agent_dies" \in setting.faults
    /\ Courier!Lose({c \in Client : stage[c] = "handed"})
    /\ agent' = IdleAgent
    /\ UNCHANGED <<knows, session, shake, apolloVars, fed>>

\* The owner types a guest's PIN into Apollo's page, whoever is parked.
OwnerPin(d) ==
    /\ parked # None /\ shake[d].at # "unborn"
    /\ <<d, d>> \notin fed
    /\ Enter(d)
    /\ UNCHANGED <<courier, knows, session, apollo, pendingName, clients, agent>>

-----------------------------------------------------------------------------
ClientStep(c) ==
    Ask(c) \/ Submit(c) \/ SubmitUnanswered(c) \/ WatchEnd(c) \/ WatchFail(c)

ShakeStep(d) == Park(d) \/ Resume(d) \/ Handle(d) \/ Receive(d) \/ BreakOff(d)

AgentStep ==
    \/ AgentList \/ AgentPin \/ AgentPinNotDue \/ AgentLook \/ AgentUpdate
    \/ AgentGivesUp \/ ApolloError \/ AgentEvicted \/ AgentPost

\* A request is refused, or the rendezvous server restarts and forgets it.
RequestLost(c) ==
    /\ stage[c] \in {"issued", "queued"}
    /\ Courier!Lose({c})
    /\ UNCHANGED <<knows, session, shake, apolloVars, agent, fed>>

Step ==
    \/ \E c \in Client : ClientStep(c) \/ AgentTake(c) \/ RequestLost(c)
    \/ \E d \in Device : ShakeStep(d)
    \/ \E d \in Guest : GuestStarts(d) \/ OwnerPin(d)
    \/ AgentPoll \/ AgentStep \/ AgentDies

Next == Step /\ UNCHANGED setting

Spec == Init /\ [][Next]_vars

-----------------------------------------------------------------------------
(* Properties.                                                             *)

Shake == [step : Steps \cup {"done"},
          at : {"unborn", "sent", "parked", "pinned", "reply", "ended"},
          pin : Device \cup {None}, body : {"good", "garbage", "refused"},
          told : {"good", "garbage"}]
Listed == [device : Device, name : Device \cup {None}, perm : {"view", "control"}]
Results == {"paired", "rejected", "failed"}
AgentState ==
    [phase : {"idle", "list", "pin", "look", "update", "post"},
     req : Client \cup {None}, before : Nat, delivered : BOOLEAN,
     result : Results \cup {None}]

\* Every variable keeps its type.
TypeOK ==
    /\ Courier!TypeOK
    /\ knows \in [Client -> BOOLEAN]
    /\ session \in [Client -> {"idle", "waits"} \cup Results]
    /\ shake \in [Device -> Shake]
    /\ parked \in Device \cup {None}
    /\ apollo \in HostState
    /\ pendingName \in Device \cup {None}
    /\ clients \in Seq(Listed)
    /\ agent \in AgentState
    /\ fed \in SUBSET (Device \X Device)

\* A wrong PIN cannot succeed: a device is paired only if its own session got
\* its own PIN, and it is listed under the name that came with that PIN, even
\* though PINs go to whoever is parked and one handshake state serves all.
WrongPinNeverPairs ==
    \A i \in 1..Len(clients) :
        /\ <<clients[i].device, clients[i].device>> \in fed
        /\ clients[i].name = clients[i].device

\* A client that does not know the password is never paired.
PasswordNeeded ==
    \A i \in 1..Len(clients) :
        clients[i].device \in Guest \/ knows[clients[i].device]

\* When the handshake completes at the client, the host has it listed.
CompletedIsListed ==
    \A d \in Device :
        shake[d].step = "done" => \E i \in 1..Len(clients) : clients[i].device = d

Granted(c) ==
    \E i \in 1..Len(clients) : clients[i].device = c /\ clients[i].perm = "control"

\* A client that is told it is paired is listed with the configured
\* permissions.
PairedMeansGranted == \A c \in Client : session[c] = "paired" => Granted(c)

\* The agent is through with c, and did not say that c is paired.
GivenUp(c) == stage[c] = "lost" \/ (stage[c] = "answered" /\ answer[c] = "failed")

\* While no call fails at the host and no guest pairs at the same time, there is
\* one way only for a client to be told it is paired and not to have the
\* permissions: another client has them that came so late that the agent had
\* given it up before its handshake was over.
ToldPairedIsGranted ==
    setting.faults = {} /\ setting.who \cap Guest = {} =>
        \A c \in Client : session[c] = "paired" =>
            Granted(c) \/ \E d \in Client \ {c} : GivenUp(d) /\ Granted(d)

\* Whatever goes wrong: no more devices have the permissions than there are
\* clients that know the password.  It says nothing of which devices: a grant
\* that went to the wrong one counts for the client it was meant for.
GrantsAreEarned ==
    Cardinality({i \in 1..Len(clients) : clients[i].perm = "control"})
        <= Cardinality({c \in setting.who \cap Client : knows[c]})

\* A native client that is told it is paired has the host's certificate.
ToldPairedHasCertificate ==
    \A c \in Client : session[c] = "paired" => shake[c].step = "done"

-----------------------------------------------------------------------------
(* The agent's loop goes on to the next call or the next request, and the  *)
(* time it allows itself passes.                                           *)
Fairness ==
    /\ WF_moving(AgentStep \/ \E c \in Client : AgentTake(c))
    /\ SF_moving(AgentGivesUp)

FairSpec == Spec /\ Fairness

\* However slow clients are, whatever Apollo does and however many requests came
\* with one poll, the agent gets through with every request it was handed.
HandedIsDealtWith ==
    \A c \in Client : stage[c] = "handed" ~> stage[c] # "handed"
=============================================================================
