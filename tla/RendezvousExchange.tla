------------------------- MODULE RendezvousExchange -------------------------
(***************************************************************************)
(* The server implements PairExchange.  The stage of a request is read off *)
(* the place that holds it: the challenge table, a host's queue, or what   *)
(* an agent has received; the host is the one whose queue or agent holds   *)
(* it, so a request that strays to another host changes its host.          *)
(***************************************************************************)
EXTENDS Rendezvous

QueuedAt(r, h) == \E i \in 1..Len(pending[h]) : pending[h][i] = r
HeldAt(r, h) == \E i \in 1..Len(inbox[h]) : inbox[h][i] = r

StageOf(r) ==
    IF life[r].stage = "unborn" THEN "unborn"
    ELSE IF challenges[r] # None THEN "issued"
    ELSE IF \E h \in Id : QueuedAt(r, h) THEN "queued"
    ELSE IF \E h \in Id : HeldAt(r, h) THEN "handed"
    ELSE IF life[r].answer # None THEN "answered" ELSE "lost"

HostOf(r) ==
    IF \E h \in Id : QueuedAt(r, h) \/ HeldAt(r, h)
      THEN CHOOSE h \in Id : QueuedAt(r, h) \/ HeldAt(r, h)
      ELSE life[r].host

Exchange == INSTANCE PairExchange WITH
    stage <- [r \in Req |-> StageOf(r)],
    host <- [r \in Req |-> HostOf(r)],
    answer <- [r \in Req |-> life[r].answer]

\* The server's tables and polls implement the at-most-once exchange.
ImplementsExchange == Exchange!Spec
=============================================================================
