----------------------------- MODULE MCRegistry -----------------------------
(* Small instances of Registry for TLC: see the MCRegistry*.cfg files.      *)
EXTENDS Registry, TLC

RegistrySymmetry == Permutations(Id) \cup Permutations(Token) \cup Permutations(Call)
=============================================================================
