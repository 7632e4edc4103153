----------------------------- MODULE Addresses -----------------------------
(***************************************************************************)
(* Where a host can be reached: the addresses its agent tells the server   *)
(* (Agent::endpoints, sent with register, its second pass and heartbeats), *)
(* and the one that a client picks of them (Session::resolve).  The agent  *)
(* is AgentLoop's; the host may move, which it does not notice, and its    *)
(* public address it learns from the server's replies only.                *)
(*                                                                         *)
(* An endpoint is a host name and a kind; its port is the same for all.    *)
(***************************************************************************)
EXTENDS AgentLoop, SequencesExt

CONSTANTS
    None,
    Route,      \* the places the host goes to, one after the other: of each
                \* its interfaces and the address it is seen from
    Extra,      \* extra_endpoints of its configuration
    Limit,      \* how many endpoints a record may have
    Viewer      \* where clients are: the addresses that answer there, by place

\* Loopback and link-local interfaces are of no use to others, and not told.
Usable(e) == e.kind \notin {"loopback", "link_local"}

AsPublic(address) == [host |-> address, kind |-> "public"]

ASSUME AddressAssumption ==
    /\ Limit \in Nat \ {0}
    /\ Extra \in Seq(ToSet(Extra) \ {None}) /\ \A e \in ToSet(Extra) : Usable(e)
    /\ Route \in Seq(ToSet(Route)) /\ Route # <<>>
    /\ \A p \in ToSet(Route) :
          /\ p.interfaces \in Seq(ToSet(p.interfaces) \ {None})
          /\ None \notin {p.public, AsPublic(p.public)}

VARIABLES
    at,         \* the place in Route where the host is
    observed,   \* Agent::run: the public address it believes in
    reply,      \* observed_addr of the reply to the call that is under way
    published,  \* the endpoints of the server's record
    settled     \* history: heartbeats heard since the last disturbance, up to 2

addresses == <<at, observed, reply, published, settled>>
allVars == <<vars, addresses>>

-----------------------------------------------------------------------------
(* Agent::endpoints.                                                       *)

Here == Route[at]

BugPublicFirst(own, seen) == seen \o own
Ordered(own, seen) == own \o seen

\* What there is to tell: interfaces, extra endpoints, the public address.
Offered(place, seen) ==
    Ordered(place.interfaces \o Extra, IF seen = None THEN <<>> ELSE <<AsPublic(seen)>>)

\* Of each host name the first that is of use.
Firsts(all) ==
    {i \in DOMAIN all :
        Usable(all[i]) /\ \A j \in 1..(i - 1) : Usable(all[j]) => all[j].host # all[i].host}

Nth(S, k) == CHOOSE i \in S : Cardinality({j \in S : j <= i}) = k

\* These in their order, but no more than the server takes.
EndpointsOf(place, seen) ==
    LET all == Offered(place, seen)
        firsts == Firsts(all)
    IN  [k \in 1..Smaller(Cardinality(firsts), Limit) |-> all[Nth(firsts, k)]]

Public == {p.public : p \in ToSet(Route)}
\* The same, tabulated: by the place, and what the agent takes for its address.
Record ==
    [i \in DOMAIN Route |-> [seen \in Public \cup {None} |-> EndpointsOf(Route[i], seen)]]

-----------------------------------------------------------------------------
\* The agent has registered; the second pass may have been lost.
InitMoving ==
    /\ Init
    /\ at = 1
    /\ observed = Here.public /\ reply = None
    /\ published \in {Record[at][None], Record[at][Here.public]}
    /\ settled = 0

\* The server takes what the call says, and answers with the address it sees.
Publish(seen) == published' = Record[at][seen]
Answered == reply' = Here.public
NotAnswered == reply' = None

BugKeepsObserved == observed
Learned == IF reply = None THEN observed ELSE reply

\* A reply that came is taken over; register's, when its second pass is over.
Learns == observed' = Learned /\ NotAnswered

Registers ==
    /\ RegisterHeard
    /\ Publish(None)
    /\ Answered \/ NotAnswered
    /\ UNCHANGED <<at, observed, settled>>

RegistersInVain ==
    /\ RegisterMissed /\ NotAnswered
    /\ UNCHANGED <<at, observed, published, settled>>

SecondPass ==
    /\ reply # None
    /\ \/ AdvertiseHeard /\ Publish(reply)
       \/ (AdvertiseRefused \/ AdvertiseMissed) /\ UNCHANGED published
    /\ UNCHANGED <<at, observed, reply, settled>>

RegisterEnds ==
    /\ Reregistered
    /\ reply # None => pc = "advertising"
    /\ Learns
    /\ UNCHANGED <<at, published, settled>>

Beats ==
    /\ BeatHeard /\ Answered
    /\ settled' = Smaller(settled + 1, 2)
    /\ Publish(observed)
    /\ UNCHANGED <<at, observed>>

BeatsUnanswered ==
    /\ BeatUnanswered /\ NotAnswered
    /\ Publish(observed)
    /\ UNCHANGED <<at, observed, settled>>

BeatsInVain ==
    /\ BeatRefused \/ BeatMissed
    /\ NotAnswered
    /\ UNCHANGED <<at, observed, published, settled>>

BeatEnds == Beaten /\ Learns /\ UNCHANGED <<at, published, settled>>

-----------------------------------------------------------------------------
\* The host is somewhere else, or is seen from somewhere else.
Moves ==
    /\ at < Len(Route)
    /\ at' = at + 1
    /\ settled' = 0
    /\ UNCHANGED <<vars, observed, reply, published>>

\* What the server's file may say: what is published, or something earlier.
Filed == {published} \cup
         {Record[i][seen] : i \in 1..at, seen \in {None} \cup {Route[j].public : j \in 1..at}}

Restarts ==
    /\ ServerRestarts
    /\ IF known' THEN published' \in Filed ELSE published' = <<>>
    /\ settled' = 0
    /\ UNCHANGED <<at, observed, reply>>

AddressStep ==
    \/ PlainStep /\ UNCHANGED addresses
    \/ Registers \/ RegistersInVain \/ SecondPass \/ RegisterEnds
    \/ Beats \/ BeatsUnanswered \/ BeatsInVain \/ BeatEnds

Time == Tick /\ UNCHANGED addresses

NextMoving == AddressStep \/ Time \/ Moves \/ Restarts

MovingSpec == InitMoving /\ [][NextMoving]_allVars
              /\ WF_allVars(AddressStep) /\ WF_allVars(Time)

-----------------------------------------------------------------------------
(* Session::resolve.                                                       *)

Rank(kind) ==
    CASE kind = "lan" -> 0 [] kind = "vpn" -> 1 [] kind = "manual" -> 2
      [] kind = "public" -> 3 [] OTHER -> 4

BugRankOnly(e, f) == FALSE
Before(e, f) == Rank(e.kind) < Rank(f.kind)

\* The addresses at which the client's probe is answered, by whomever.
Own(place) ==
    {e.host : e \in {x \in ToSet(place.interfaces \o Extra) : Usable(x)}} \cup {place.public}
Reached(v) == v.reaches[at] \cap Own(Here)
Answering(v) == Reached(v) \cup v.others

\* Of the endpoints that answer one of the best rank, the first in the record.
Best(endpoints, answering) ==
    LET up == {i \in 1..Len(endpoints) : endpoints[i].host \in answering} IN
    IF up = {} THEN None
    ELSE endpoints[CHOOSE i \in up : \A j \in up :
            ~Before(endpoints[j], endpoints[i]) /\ (j < i => Before(endpoints[i], endpoints[j]))]

-----------------------------------------------------------------------------
(* Properties.                                                             *)

Records == {Record[i][seen] : i \in DOMAIN Route, seen \in Public \cup {None}}

AddressesTypeOK ==
    /\ TypeOK
    /\ at \in 1..Len(Route)
    /\ observed \in Public
    /\ reply \in Public \cup {None}
    /\ published \in Records \cup {<<>>}
    /\ settled \in 0..2

Hosts(endpoints) == {e.host : e \in ToSet(endpoints)}
Truth == Record[at][Here.public]

\* Two heartbeats after the host has moved, or the server has restarted, every
\* client that some address of the host answers finds it, by the best kind there
\* is: the first brings the new interfaces, the second the public address that
\* the first one's reply told.  Unless the host has more addresses than a record
\* may have, or another machine answers, where the client is, at one of them:
\* resolve does not ask who answers.
ReachableIsFound ==
    known /\ settled = 2 /\ Cardinality(Own(Here)) <= Limit =>
        \A v \in Viewer :
            LET got == Best(published, Answering(v)) IN
            Reached(v) # {} /\ v.others \cap Hosts(published) = {} =>
                /\ got # None /\ got.host \in Reached(v)
                /\ \A e \in ToSet(Truth) :
                      e.host \in Reached(v) => Rank(got.kind) <= Rank(e.kind)

\* What a claim about the end of a story may assume: the server does not restart
\* again and again, time passes, and of the heartbeats some get through.
Calm ==
    /\ <>[][~Restarts]_allVars
    /\ SF_allVars(Time) /\ SF_allVars(Beats)

\* Addresses that are out of date do not stay in the record.
AddressesCatchUp ==
    Calm => (known /\ published # Truth ~> published = Truth \/ ~known)
=============================================================================
