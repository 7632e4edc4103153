---------------------------- MODULE MCClientDesk ----------------------------
(* A small instance of ClientDesk for TLC: see MCClient.cfg.                *)
EXTENDS ClientDesk, TLC

ClientSymmetry == Permutations(Process) \cup Permutations(Host) \cup Permutations(Word)
                  \cup Permutations(Stream)
=============================================================================
