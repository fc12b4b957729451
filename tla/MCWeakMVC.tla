----------------------------- MODULE MCWeakMVC -----------------------------
(* Instances of WeakMVC for TLC.                                            *)
EXTENDS WeakMVC, TLC

(* The phases' coins: the first flips of the source seeded with 42.         *)
MCCoin == [p \in 1 .. LenBlockArray - 1 |-> 1]

Symmetry == Permutations(Server) \cup Permutations(Proposal)
=============================================================================
