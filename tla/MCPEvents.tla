------------------------------ MODULE MCPEvents ------------------------------
(* Instances of the Windows-style events for TLC.                           *)
EXTENDS PEvents, TLC

CONSTANTS e1, e2
OneOrder == {<<e1, e2>>}

Symmetry == Permutations(Waiters) \cup Permutations(Setters)
=============================================================================
