------------------------------ MODULE MCHandle ------------------------------
(* Instances of the handles for TLC: the clients are interchangeable.       *)
EXTENDS Handle, TLC

Symmetry == Permutations(Handles \ {Server}) \cup Permutations(Addresses)
=============================================================================
