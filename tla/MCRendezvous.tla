---------------------------- MODULE MCRendezvous ----------------------------
(* Small instances of Rendezvous for TLC: see the MCRendezvous*.cfg files.  *)
EXTENDS RendezvousExchange, TLC

RequestSymmetry == Permutations(Req)
=============================================================================
