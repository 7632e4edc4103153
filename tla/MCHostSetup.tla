---------------------------- MODULE MCHostSetup ----------------------------
(* HostSetup with three processes, for TLC: see MCSetup.cfg.               *)
EXTENDS HostSetup, FiniteSets, TLC

Commands == {"init", "set_password", "permissions", "run"}
Histories ==
    {[who |-> w, kinds |-> {"init", "set_password", "run", "finish"}, ids |-> 2] :
        w \in {v \in SUBSET Process : Cardinality(v) = 2}}
    \cup {[who |-> Process, kinds |-> k, ids |-> 1] :
        k \in {Commands, {"init", "run"} \cup OfWizard}}

Interchangeable == Permutations(Process)
=============================================================================
