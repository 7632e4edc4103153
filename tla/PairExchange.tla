---------------------------- MODULE PairExchange ----------------------------
(***************************************************************************)
(* What the rendezvous server promises to clients and agents, whatever its *)
(* tables and long polls look like: a request id is issued for one host,   *)
(* becomes a request at most once, is handed to that host's agent at most  *)
(* once, and is answered at most once, and only by the agent it was handed *)
(* to.  A request may be lost on the way; it never goes back.              *)
(***************************************************************************)
CONSTANTS Id, Req, Result, None

VARIABLES
    stage,      \* how far each request id has got
    host,       \* the host it was issued for
    answer      \* what that host's agent answered

vars == <<stage, host, answer>>

Stages == {"unborn", "issued", "queued", "handed", "answered", "lost"}

TypeOK ==
    /\ stage \in [Req -> Stages]
    /\ host \in [Req -> Id \cup {None}]
    /\ answer \in [Req -> Result \cup {None}]

Init ==
    /\ stage = [r \in Req |-> "unborn"]
    /\ host = [r \in Req |-> None]
    /\ answer = [r \in Req |-> None]

Issue(r, h) ==
    /\ stage[r] = "unborn"
    /\ stage' = [stage EXCEPT ![r] = "issued"]
    /\ host' = [host EXCEPT ![r] = h]
    /\ UNCHANGED answer

Queue(r) ==
    /\ stage[r] = "issued"
    /\ stage' = [stage EXCEPT ![r] = "queued"]
    /\ UNCHANGED <<host, answer>>

\* The agent of h is handed everything that is queued for h, at once.
HandOver(h) ==
    /\ stage' = [r \in Req |-> IF stage[r] = "queued" /\ host[r] = h
                                 THEN "handed" ELSE stage[r]]
    /\ UNCHANGED <<host, answer>>

Answer(r, res) ==
    /\ stage[r] = "handed"
    /\ stage' = [stage EXCEPT ![r] = "answered"]
    /\ answer' = [answer EXCEPT ![r] = res]
    /\ UNCHANGED host

\* Expiry, a refused submission, a broken connection, a restart.
Lose(S) ==
    /\ \A r \in S : stage[r] \in {"issued", "queued", "handed"}
    /\ stage' = [r \in Req |-> IF r \in S THEN "lost" ELSE stage[r]]
    /\ UNCHANGED <<host, answer>>

Next ==
    \/ \E r \in Req, h \in Id : Issue(r, h)
    \/ \E r \in Req : Queue(r)
    \/ \E h \in Id : HandOver(h)
    \/ \E r \in Req, res \in Result : Answer(r, res)
    \/ \E S \in SUBSET Req : Lose(S)

Spec == Init /\ [][Next]_vars
=============================================================================
