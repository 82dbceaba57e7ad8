----------------------------- MODULE MCEarlier ------------------------------
(* Instances of the earlier versions of the ring for TLC, with the view of  *)
(* MCRing.  m_msgCount is left out of it: nothing depends on it.            *)
EXTENDS Earlier, MCRing

EarlierView == << cursors, blocks, moves, calls, sent, inbox,
                  [t \in Threads |-> Alive(t)], version, waits, duty >>
=============================================================================
