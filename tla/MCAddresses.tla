---------------------------- MODULE MCAddresses ----------------------------
(* AgentLoop with the agent's and the server's own durations, and a host   *)
(* that moves once, for TLC: see MCLoop.cfg.                               *)
EXTENDS Addresses

CONSTANTS home, office, tailnet, link, seenHome, seenOffice

At(host, kind) == [host |-> host, kind |-> kind]

\* At home the tailnet's name is an interface, too.
Moving == <<
    [interfaces |-> <<At(link, "link_local"), At(tailnet, "vpn"), At(home, "lan")>>,
     public |-> seenHome],
    [interfaces |-> <<At(office, "lan")>>, public |-> seenOffice]>>
Named == <<At(tailnet, "manual")>>

\* In the same network; far away; in the tailnet, where home is somebody else's.
Clients == {
    [reaches |-> <<{home, tailnet, link}, {office, tailnet}>>, others |-> {}],
    [reaches |-> <<{seenHome}, {seenOffice}>>, others |-> {home}],
    [reaches |-> <<{tailnet}, {tailnet}>>, others |-> {home}]}

\* The agent's and the server's durations keep a lost call harmless.
ASSUME BudgetAssumption == WithinBudget
=============================================================================
