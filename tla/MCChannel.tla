----------------------------- MODULE MCChannel ------------------------------
(* Instances of one direction of the ring and its event for TLC.            *)
EXTENDS Channel, TLC

Symmetry == Permutations(Setters) \cup Permutations(Waiters)
=============================================================================
