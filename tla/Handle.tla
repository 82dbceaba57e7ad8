------------------------------- MODULE Handle -------------------------------
(***************************************************************************)
(* MessageQueue, the handle that programs use (MessageQueue.h): connect,   *)
(* send, disconnect, close, clearQueue and the destructor, in any order    *)
(* and by several handles of one process, over module Segment.             *)
(*                                                                         *)
(* receive and getMessageCount test and use the handle as send does and    *)
(* change nothing that is kept here: Use stands for the three.             *)
(***************************************************************************)
EXTENDS Segment

CONSTANT Server   \* the handle that main() connects before the others

ASSUME HandleAssumption == Server \in Handles

VARIABLES
  queue,       \* queue_ is not null
  connected,   \* connected_
  buffer,      \* m_pBuffer of *queue_
  stage,       \* "new", "used", "failed", "closed" or "gone": what was last
  swept,       \* removeOldQueues was called
  served,      \* the server's connect has returned 0
  fault        \* the process has used memory that is not mapped

handleVars == <<queue, connected, buffer, stage, swept, served, fault>>
vars == <<segmentVars, handleVars>>

Init ==
  /\ SegmentInit
  /\ queue     = [h \in Handles |-> FALSE]
  /\ connected = [h \in Handles |-> FALSE]
  /\ buffer    = [h \in Handles |-> Nowhere]
  /\ stage     = [h \in Handles |-> "new"]
  /\ swept = FALSE /\ served = FALSE /\ fault = FALSE

Idle(h) == step[h] = "done" /\ stage[h] # "gone" /\ ~fault

(* The buffer of a handle is there to be used. *)
Usable(h) == queue[h] /\ buffer[h] # Nowhere /\ mapping[buffer[h]] # 0
-----------------------------------------------------------------------------
(* connect: new ShmQueue, whose constructor runs create()                   *)
Connect(h) ==
  /\ Idle(h)
  /\ Goto(h, "open")
  /\ base' = [base EXCEPT ![h] = Nowhere]
  /\ UNCHANGED <<segments, named, sized, ready, traffic, mapping, fd,
                 handleVars>>

Creating(h) == ~fault /\ Create(h) /\ UNCHANGED handleVars

Connected(h) ==   \* the handle has a new queue; an old one stays mapped
  /\ At(h, "created") /\ ~fault
  /\ queue' = [queue EXCEPT ![h] = TRUE]
  /\ connected' = [connected EXCEPT ![h] = TRUE]
  /\ buffer' = [buffer EXCEPT ![h] = base[h]]
  /\ stage' = [stage EXCEPT ![h] = "used"]
  /\ served' = (served \/ h = Server)
  /\ Goto(h, "done")
  /\ UNCHANGED <<segments, named, sized, ready, traffic, mapping, fd, base,
                 swept, fault>>

ConnectFailed(h) ==   \* the constructor throws: no destructor unmaps
  /\ At(h, "failed") /\ ~fault
  /\ stage' = [stage EXCEPT ![h] = "failed"]
  /\ Goto(h, "done")
  /\ UNCHANGED <<segments, named, sized, ready, traffic, mapping, fd, base,
                 queue, connected, buffer, swept, served, fault>>

Use(h) ==
  /\ Idle(h) /\ connected[h]
  /\ IF Usable(h)
       THEN traffic' = [traffic EXCEPT ![mapping[buffer[h]]] = TRUE]
            /\ UNCHANGED fault
       ELSE fault' = TRUE /\ UNCHANGED traffic
  /\ UNCHANGED <<segments, named, sized, ready, mapping, step, fd, base,
                 queue, connected, buffer, stage, swept, served>>

ClearQueue(h) ==   \* reads the queue only if it is not connected
  /\ Idle(h)
  /\ fault' = (~connected[h] /\ ~Usable(h))
  /\ UNCHANGED <<segmentVars, queue, connected, buffer, stage, swept, served>>

Disconnect(h) ==
  /\ Idle(h) /\ connected[h] /\ queue[h]
  /\ Unmap(buffer[h])
  /\ connected' = [connected EXCEPT ![h] = FALSE]
  /\ UNCHANGED <<segments, named, sized, ready, traffic, step, fd, base,
                 queue, buffer, stage, swept, served, fault>>

Close(h) ==   \* ~ShmQueue unmaps; connected_ stays
  /\ Idle(h) /\ queue[h]
  /\ Unmap(buffer[h])
  /\ queue' = [queue EXCEPT ![h] = FALSE]
  /\ stage' = [stage EXCEPT ![h] = "closed"]
  /\ UNCHANGED <<segments, named, sized, ready, traffic, step, fd, base,
                 connected, buffer, swept, served, fault>>

Destroy(h) ==   \* ~MessageQueue disconnects; *queue_ is never deleted
  /\ Idle(h)
  /\ IF connected[h] /\ queue[h] THEN Unmap(buffer[h]) ELSE UNCHANGED mapping
  /\ connected' = [connected EXCEPT ![h] = connected[h] /\ ~queue[h]]
  /\ stage' = [stage EXCEPT ![h] = "gone"]
  /\ UNCHANGED <<segments, named, sized, ready, traffic, step, fd, base,
                 queue, buffer, swept, served, fault>>

RemoveOldQueues ==
  /\ ~fault
  /\ RemoveName
  /\ swept' = TRUE
  /\ UNCHANGED <<queue, connected, buffer, stage, served, fault>>

Next ==
  \/ RemoveOldQueues
  \/ \E h \in Handles :
       \/ Connect(h) \/ Creating(h) \/ Connected(h) \/ ConnectFailed(h)
       \/ Use(h) \/ ClearQueue(h)
       \/ Disconnect(h) \/ Close(h) \/ Destroy(h)

Spec == Init /\ [][Next]_vars

(* The order of main(): old queues are removed once, first, and the server  *)
(* connects before the clients.  And what main() does not ensure but must:  *)
(* the clients are started only if the server's connect returned 0, and it  *)
(* is not called again if it failed; a handle connects only when it is not  *)
(* connected, and is not closed after a disconnect.                         *)
CarefulNext ==
  \/ ~swept /\ RemoveOldQueues
  \/ \E h \in Handles :
       \/ /\ ~connected[h]
          /\ IF h = Server THEN swept /\ stage[h] # "failed" ELSE served
          /\ Connect(h)
       \/ Creating(h) \/ Connected(h) \/ ConnectFailed(h)
       \/ Use(h) \/ ClearQueue(h)
       \/ Disconnect(h)
       \/ connected[h] /\ Close(h)
       \/ Destroy(h)

CarefulSpec == Init /\ [][CarefulNext]_vars
-----------------------------------------------------------------------------
(* Properties *)

Live(h) == connected[h] /\ stage[h] = "used"

(* Every variable has its type; a handle that is done has no create() left. *)
TypeOK ==
  /\ segments \in 0 .. MaxSegments /\ named \in 0 .. segments
  /\ sized \in [Segments -> BOOLEAN] /\ traffic \in [Segments -> BOOLEAN]
  /\ ready \in [Segments -> SUBSET Parts]
  /\ mapping \in [Addresses -> 0 .. segments]
  /\ step \in [Handles -> {"done", "open", "stat", "truncate", "mapnew", "zero",
                           "link", "events", "mapold", "created", "failed"}]
  /\ fd \in [Handles -> 0 .. segments]
  /\ base \in [Handles -> Addresses \cup {Nowhere}]
  /\ queue \in [Handles -> BOOLEAN] /\ connected \in [Handles -> BOOLEAN]
  /\ buffer \in [Handles -> Addresses \cup {Nowhere}]
  /\ stage \in [Handles -> {"new", "used", "failed", "closed", "gone"}]
  /\ swept \in BOOLEAN /\ served \in BOOLEAN /\ fault \in BOOLEAN
  /\ \A h \in Handles : step[h] = "created" => base[h] # Nowhere

(* A connected handle is mapped to a segment that create() has finished,    *)
(* whatever a process that died had left under the name and whichever calls *)
(* of create() fail half way.                                               *)
ReadyWhenConnected ==
  \A h \in Handles : Live(h) =>
    /\ Usable(h) /\ mapping[buffer[h]] = fd[h]
    /\ sized[fd[h]] /\ ready[fd[h]] = Parts

(* All connected handles have the same segment, each at its own address: no *)
(* handle can unmap the memory of another.                                  *)
OneQueue ==
  \A g, h \in Handles : Live(g) /\ Live(h) /\ g # h =>
    /\ mapping[buffer[g]] = mapping[buffer[h]]
    /\ buffer[g] # buffer[h]

(* A segment that messages were sent through is not laid out again.         *)
TrafficKept == [][\A i \in Segments : traffic[i] => traffic'[i]]_vars
=============================================================================
