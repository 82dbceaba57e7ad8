------------------------------- MODULE MCRing -------------------------------
(* Instances of the ring for TLC: model values for the threads, and a view  *)
(* that leaves out what a thread's locals hold once they are dead.          *)
EXTENDS RingInv, TLC

Symmetry == Permutations(Writers) \cup Permutations(Readers)

HasBlock(t) == Holds(t) \/ pc[t] = "clear"
HasLength(t) ==
  pc[t] \in IF t \in Writers
              THEN {"claim", "room", "await", "cas", "fill"}
              ELSE {"copy", "release", "clear", "reclaim", "unmark", "retire"}

Alive(t) ==
  << pc[t], early[t],
     IF InWindow(t)  THEN <<idx[t], lap[t]>>    ELSE <<>>,
     IF HasBlock(t)  THEN <<own[t], ticket[t]>> ELSE <<>>,
     IF HasLength(t) THEN len[t]                ELSE 0 >>

View == << cursors, blocks, msgCount, moves, calls, sent, inbox,
           [t \in Threads |-> Alive(t)] >>
=============================================================================
