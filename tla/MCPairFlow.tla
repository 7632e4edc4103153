----------------------------- MODULE MCPairFlow -----------------------------
(* Small instances of PairFlow for TLC: see the MCFlow*.cfg files.          *)
EXTENDS PairFlow, TLC

CONSTANTS a, b, g

FlowSymmetry == Permutations(Client)

Quiet(who) == [who |-> who, faults |-> {}]

\* A client and a guest with everything that may go wrong; two clients in peace,
\* whose requests may come with one poll.
Mixed == {[who |-> {a, g}, faults |-> Faults], Quiet({a, b})}
Peace == {Quiet({a, b})}
Alone == {Quiet({a})}
=============================================================================
