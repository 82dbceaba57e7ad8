---------------------------- MODULE HandleProofs ----------------------------
(***************************************************************************)
(* Proofs about the handles and the segment behind them, for any number of  *)
(* handles, segments and addresses.                                         *)
(***************************************************************************)
EXTENDS Handle, TLAPS

USE SegmentAssumption, HandleAssumption
    DEF SegmentAssumption, HandleAssumption

(* The labels of create() between its mmap and its end, and between its     *)
(* shm_open and its end.                                                    *)
Building == {"zero", "link", "events", "created"}
Opened   == {"stat", "truncate", "mapnew", "mapold"} \cup Building

(* create() works on a segment that it opened, at an address it mapped.     *)
BusyOK ==
  \A h \in Handles : /\ step[h] \in Opened => fd[h] # 0
                     /\ step[h] \in Building => base[h] # Nowhere

(* The variables have their types at first.                                 *)
LEMMA TypeInit == Init => TypeOK /\ BusyOK
<1> SUFFICES ASSUME Init PROVE TypeOK /\ BusyOK OBVIOUS
<1>1. /\ segments \in 0 .. MaxSegments /\ named \in 0 .. segments
      /\ sized \in [Segments -> BOOLEAN]
      /\ ready \in [Segments -> SUBSET Parts]
      /\ traffic \in [Segments -> BOOLEAN]
  BY DEF Init, SegmentInit, Parts
<1>2. /\ mapping \in [Addresses -> 0 .. segments]
      /\ step = [h \in Handles |-> "done"]
      /\ fd \in [Handles -> 0 .. segments]
      /\ base \in [Handles -> Addresses \cup {Nowhere}]
  BY <1>1 DEF Init, SegmentInit
<1> QED BY <1>1, <1>2 DEF Init, TypeOK, BusyOK, Building, Opened

(* A step leaves every variable well typed.                                 *)
LEMMA TypeNext ==
  ASSUME TypeOK, BusyOK, [Next]_vars
  PROVE  TypeOK' /\ BusyOK'
<1> USE DEF TypeOK, BusyOK, Building, Opened, Goto, At, Segments
<1>1. CASE RemoveOldQueues BY <1>1 DEF RemoveOldQueues, RemoveName
<1>2. ASSUME NEW h \in Handles, Connect(h) PROVE TypeOK' /\ BusyOK'
  BY <1>2 DEF Connect, Idle, handleVars
<1>3. ASSUME NEW h \in Handles, Creating(h) PROVE TypeOK' /\ BusyOK'
  <2> USE DEF handleVars, Parts
  <2>1. UNCHANGED handleVars BY <1>3 DEF Creating
  <2>2. CASE OpenSegment(h)
    <3>1. CASE named # 0 BY <2>1, <2>2, <3>1 DEF OpenSegment
    <3>2. CASE named = 0 BY <2>1, <2>2, <3>2 DEF OpenSegment
    <3> QED BY <3>1, <3>2
  <2>3. CASE LookAtSize(h) BY <2>1, <2>3 DEF LookAtSize
  <2>4. CASE Truncate(h) BY <2>1, <2>4 DEF Truncate
  <2>5. CASE MapNew(h) BY <2>1, <2>5 DEF MapNew, Map, Free
  <2>6. CASE ZeroBuffer(h) BY <2>1, <2>6 DEF ZeroBuffer
  <2>7. CASE LinkBlocks(h) BY <2>1, <2>7 DEF LinkBlocks
  <2>8. CASE CreateEvents(h) BY <2>1, <2>8 DEF CreateEvents
  <2>9. CASE MapOld(h) BY <2>1, <2>9 DEF MapOld, Map, Free
  <2>10. CASE CreateFails(h) BY <2>1, <2>10 DEF CreateFails
  <2> QED BY <1>3, <2>2, <2>3, <2>4, <2>5, <2>6, <2>7, <2>8, <2>9, <2>10
          DEF Creating, Create
<1>4. ASSUME NEW h \in Handles, Connected(h) PROVE TypeOK' /\ BusyOK'
  BY <1>4 DEF Connected
<1>5. ASSUME NEW h \in Handles, ConnectFailed(h) PROVE TypeOK' /\ BusyOK'
  BY <1>5 DEF ConnectFailed
<1>6. ASSUME NEW h \in Handles, Use(h) PROVE TypeOK' /\ BusyOK'
  BY <1>6 DEF Use, Usable
<1>7. ASSUME NEW h \in Handles, ClearQueue(h) PROVE TypeOK' /\ BusyOK'
  BY <1>7 DEF ClearQueue, segmentVars
<1>8. ASSUME NEW h \in Handles, Disconnect(h) PROVE TypeOK' /\ BusyOK'
  BY <1>8 DEF Disconnect, Unmap
<1>9. ASSUME NEW h \in Handles, Close(h) PROVE TypeOK' /\ BusyOK'
  BY <1>9 DEF Close, Unmap
<1>10. ASSUME NEW h \in Handles, Destroy(h) PROVE TypeOK' /\ BusyOK'
  <2>1. mapping' \in [Addresses -> 0 .. segments]
    <3>1. CASE connected[h] /\ queue[h]
      <4>1. Unmap(buffer[h]) BY <1>10, <3>1 DEF Destroy
      <4> QED BY <4>1 DEF Unmap
    <3>2. CASE ~(connected[h] /\ queue[h]) BY <1>10, <3>2 DEF Destroy
    <3> QED BY <3>1, <3>2
  <2>2. connected' \in [Handles -> BOOLEAN] BY <1>10 DEF Destroy
  <2> QED BY <1>10, <2>1, <2>2 DEF Destroy
<1>11. CASE UNCHANGED vars BY <1>11 DEF vars, segmentVars, handleVars
<1> QED BY <1>1, <1>2, <1>3, <1>4, <1>5, <1>6, <1>7, <1>8, <1>9, <1>10, <1>11
        DEF Next

(* However the handles are used, every variable has its type, and a handle  *)
(* that create() has finished for has an address (MessageQueue.h,           *)
(* shmIPC.h:464-603).                                                       *)
THEOREM TypeCorrect == Spec => []TypeOK
<1> QED BY TypeInit, TypeNext, PTL DEF Spec
-----------------------------------------------------------------------------
(* How careful programs come to one segment. *)

(* The name is opened only after the old one was removed, and then stands   *)
(* for one segment; what was not created yet has no size.                   *)
NameOK ==
  /\ \A h \in Handles : fd[h] # 0 => fd[h] = named
  /\ \A i \in Segments : i > segments => ~sized[i]

(* Before the server is connected nobody else has begun, and it finds a     *)
(* segment that it has to lay out.  It has one try.                         *)
ServerFirst ==
  ~served =>
    /\ \A h \in Handles : ~connected[h] /\ ~queue[h]
    /\ \A h \in Handles \ {Server} : step[h] = "done" /\ fd[h] = 0
    /\ stage[Server] # "used"
    /\ step[Server] # "done" => stage[Server] = "new"
    /\ stage[Server] = "new" /\ step[Server] \in {"done", "open"} =>
         fd[Server] = 0 /\ (swept => named = 0)
    /\ ~swept => step[Server] = "done" /\ fd[Server] = 0
    /\ \A i \in Segments : ~traffic[i]

Finished(i) == sized[i] /\ ready[i] = Parts

(* The layout so far, by the label of the server.                           *)
ServerOK ==
  LET s == step[Server]  i == fd[Server]
  IN ~served =>
       /\ s # "mapold"
       /\ s \in {"stat", "truncate"} => ~sized[i]
       /\ s \in {"mapnew"} \cup Building => sized[i]
       /\ s = "events" => "links" \in ready[i]
       /\ s = "created" => ready[i] = Parts

(* From then on nobody finds anything to lay out.                           *)
AfterServed ==
  served => /\ swept /\ named # 0 /\ Finished(named)
            /\ \A h \in Handles : step[h] \in {"done", "open", "stat", "mapold",
                                               "created", "failed"}

(* The flags of a handle tell whether its queue is there.                   *)
FlagsOK ==
  \A h \in Handles :
    /\ connected[h] => stage[h] # "new" /\ step[h] = "done"
    /\ connected[h] /\ queue[h] => stage[h] = "used"
    /\ Live(h) => queue[h]
    /\ stage[h] = "closed" => connected[h]
    /\ step[h] # "done" => stage[h] \in {"new", "used", "failed"}

(* The address that handle h has, if it has one.                            *)
Has(h)   == Live(h) \/ step[h] \in Building
Place(h) == IF step[h] \in Building THEN base[h] ELSE buffer[h]
PlacesOK ==
  /\ \A h \in Handles : Has(h) =>
       Place(h) \in Addresses /\ mapping[Place(h)] = fd[h] /\ fd[h] # 0
  /\ \A g, h \in Handles : Has(g) /\ Has(h) /\ g # h => Place(g) # Place(h)

CarefulInv ==
  /\ TypeOK /\ BusyOK /\ NameOK /\ ServerFirst /\ ServerOK /\ AfterServed
  /\ FlagsOK /\ PlacesOK
-----------------------------------------------------------------------------
(* connect as a careful program calls it.                                   *)
CarefulConnect(h) ==
  /\ ~connected[h]
  /\ IF h = Server THEN swept /\ stage[h] # "failed" ELSE served
  /\ Connect(h)

(* A handle connects only when it is not connected, and closes as the last  *)
(* call: its flags never promise a queue that it has not got.               *)
LEMMA FlagsNext ==
  ASSUME TypeOK, BusyOK, FlagsOK, [CarefulNext]_vars
  PROVE  FlagsOK'
<1> USE DEF TypeOK, Goto, At, Segments, FlagsOK, Live, BusyOK, Building, Opened
<1>1. ASSUME NEW h \in Handles, CarefulConnect(h) PROVE FlagsOK'
  BY <1>1 DEF CarefulConnect, Connect, Idle, handleVars
<1>2. ASSUME NEW h \in Handles, Creating(h) PROVE FlagsOK'
  <2> USE DEF handleVars, Parts
  <2>1. UNCHANGED handleVars BY <1>2 DEF Creating
  <2>2. CASE OpenSegment(h) BY <2>1, <2>2 DEF OpenSegment
  <2>3. CASE LookAtSize(h) BY <2>1, <2>3 DEF LookAtSize
  <2>4. CASE Truncate(h) BY <2>1, <2>4 DEF Truncate
  <2>5. CASE MapNew(h) BY <2>1, <2>5 DEF MapNew, Map, Free
  <2>6. CASE ZeroBuffer(h) BY <2>1, <2>6 DEF ZeroBuffer
  <2>7. CASE LinkBlocks(h) BY <2>1, <2>7 DEF LinkBlocks
  <2>8. CASE CreateEvents(h) BY <2>1, <2>8 DEF CreateEvents
  <2>9. CASE MapOld(h) BY <2>1, <2>9 DEF MapOld, Map, Free
  <2>10. CASE CreateFails(h) BY <2>1, <2>10 DEF CreateFails, Free
  <2> QED BY <1>2, <2>2, <2>3, <2>4, <2>5, <2>6, <2>7, <2>8, <2>9, <2>10
          DEF Creating, Create
<1>3. ASSUME NEW h \in Handles, Connected(h) PROVE FlagsOK'
  BY <1>3 DEF Connected
<1>4. ASSUME NEW h \in Handles, ConnectFailed(h) PROVE FlagsOK'
  BY <1>4 DEF ConnectFailed
<1>5. ASSUME NEW h \in Handles, Disconnect(h) PROVE FlagsOK'
  BY <1>5 DEF Disconnect, Unmap, Idle
<1>6. ASSUME NEW h \in Handles, connected[h] /\ Close(h) PROVE FlagsOK'
  BY <1>6 DEF Close, Unmap, Idle
<1>7. ASSUME NEW h \in Handles, Destroy(h) PROVE FlagsOK'
  BY <1>7 DEF Destroy, Unmap, Idle
<1>8. CASE UNCHANGED <<queue, connected, stage, step>> BY <1>8
<1> QED BY <1>1, <1>2, <1>3, <1>4, <1>5, <1>6, <1>7, <1>8
        DEF CarefulNext, CarefulConnect, RemoveOldQueues, RemoveName, Use,
            ClearQueue, vars, segmentVars, handleVars

(* The name changes only until it was opened once.                          *)
LEMMA NameNext ==
  ASSUME TypeOK, BusyOK, NameOK, ServerFirst, AfterServed, [CarefulNext]_vars
  PROVE  NameOK'
<1> USE DEF TypeOK, Goto, At, Segments, NameOK, ServerFirst, AfterServed,
            BusyOK, Building, Opened
<1>1. CASE ~swept /\ RemoveOldQueues
  BY <1>1 DEF RemoveOldQueues, RemoveName
<1>2. ASSUME NEW h \in Handles, OpenSegment(h), UNCHANGED handleVars
      PROVE  NameOK'
  <2>1. CASE named # 0 BY <1>2, <2>1 DEF OpenSegment, handleVars
  <2>2. CASE named = 0
    <3>1. \A g \in Handles : fd[g] = 0 BY <2>2
    <3> QED BY <1>2, <2>2, <3>1 DEF OpenSegment, handleVars
  <2> QED BY <2>1, <2>2
<1>3. ASSUME NEW h \in Handles, Truncate(h), UNCHANGED handleVars
      PROVE  NameOK'
  BY <1>3 DEF Truncate, handleVars
<1>4. CASE UNCHANGED <<segments, named, sized, fd>> BY <1>4
<1> QED BY <1>1, <1>2, <1>3, <1>4
        DEF CarefulNext, CarefulConnect, Creating, Create, LookAtSize, MapNew,
            Map, Free, ZeroBuffer, LinkBlocks, CreateEvents, MapOld,
            CreateFails, Connect, Connected, ConnectFailed, Use, ClearQueue,
            Disconnect, Close, Destroy, vars, segmentVars, handleVars

(* Only the server is at work until it has come to an end.                  *)
LEMMA FirstNext ==
  ASSUME TypeOK, BusyOK, NameOK, ServerFirst, ServerOK, AfterServed, FlagsOK,
         [CarefulNext]_vars
  PROVE  ServerFirst'
<1> USE DEF TypeOK, Goto, At, Segments, NameOK, ServerFirst, ServerOK, BusyOK,
            Building, Opened, FlagsOK
<1>1. CASE ~swept /\ RemoveOldQueues
  BY <1>1 DEF RemoveOldQueues, RemoveName
<1>2. ASSUME NEW h \in Handles, CarefulConnect(h) PROVE ServerFirst'
  BY <1>2 DEF CarefulConnect, Connect, Idle, handleVars
<1>3. ASSUME NEW h \in Handles, Creating(h) PROVE ServerFirst'
  <2> USE DEF handleVars, Parts
  <2>1. UNCHANGED handleVars BY <1>3 DEF Creating
  <2>2. CASE OpenSegment(h) BY <2>1, <2>2 DEF OpenSegment
  <2>3. CASE LookAtSize(h) BY <2>1, <2>3 DEF LookAtSize
  <2>4. CASE Truncate(h) BY <2>1, <2>4 DEF Truncate
  <2>5. CASE MapNew(h) BY <2>1, <2>5 DEF MapNew, Map, Free
  <2>6. CASE ZeroBuffer(h) BY <2>1, <2>6 DEF ZeroBuffer
  <2>7. CASE LinkBlocks(h) BY <2>1, <2>7 DEF LinkBlocks
  <2>8. CASE CreateEvents(h) BY <2>1, <2>8 DEF CreateEvents
  <2>9. CASE MapOld(h) BY <2>1, <2>9 DEF MapOld, Map, Free
  <2>10. CASE CreateFails(h) BY <2>1, <2>10 DEF CreateFails, Free
  <2> QED BY <1>3, <2>2, <2>3, <2>4, <2>5, <2>6, <2>7, <2>8, <2>9, <2>10
          DEF Creating, Create
<1>4. ASSUME NEW h \in Handles, Connected(h) PROVE ServerFirst'
  BY <1>4 DEF Connected
<1>5. ASSUME NEW h \in Handles, ConnectFailed(h) PROVE ServerFirst'
  BY <1>5 DEF ConnectFailed
<1>6. ASSUME NEW h \in Handles, Use(h) PROVE ServerFirst'
  BY <1>6 DEF Use, Usable, Idle
<1>7. ASSUME NEW h \in Handles, ClearQueue(h) PROVE ServerFirst'
  BY <1>7 DEF ClearQueue, segmentVars
<1>8. ASSUME NEW h \in Handles, Disconnect(h) PROVE ServerFirst'
  BY <1>8 DEF Disconnect, Unmap, Idle
<1>9. ASSUME NEW h \in Handles, connected[h] /\ Close(h) PROVE ServerFirst'
  BY <1>9 DEF Close, Unmap, Idle
<1>10. ASSUME NEW h \in Handles, Destroy(h) PROVE ServerFirst'
  BY <1>10 DEF Destroy, Unmap, Idle
<1>11. CASE UNCHANGED vars BY <1>11 DEF vars, segmentVars, handleVars
<1> QED BY <1>1, <1>2, <1>3, <1>4, <1>5, <1>6, <1>7, <1>8, <1>9, <1>10, <1>11
        DEF CarefulNext, CarefulConnect, vars, segmentVars, handleVars

(* The server lays out the segment alone, in order.                         *)
LEMMA ServerNext ==
  ASSUME TypeOK, BusyOK, NameOK, ServerFirst, ServerOK, FlagsOK,
         [CarefulNext]_vars
  PROVE  ServerOK'
<1> USE DEF TypeOK, Goto, At, Segments, NameOK, ServerFirst, ServerOK, BusyOK,
            Building, Opened, FlagsOK, Finished
<1>1. ASSUME NEW h \in Handles, CarefulConnect(h) PROVE ServerOK'
  BY <1>1 DEF CarefulConnect, Connect, Idle, handleVars
<1>2. ASSUME NEW h \in Handles, Creating(h) PROVE ServerOK'
  <2> USE DEF handleVars, Parts
  <2>1. UNCHANGED handleVars BY <1>2 DEF Creating
  <2>2. CASE OpenSegment(h) BY <2>1, <2>2 DEF OpenSegment
  <2>3. CASE LookAtSize(h) BY <2>1, <2>3 DEF LookAtSize
  <2>4. CASE Truncate(h) BY <2>1, <2>4 DEF Truncate
  <2>5. CASE MapNew(h) BY <2>1, <2>5 DEF MapNew, Map, Free
  <2>6. CASE ZeroBuffer(h) BY <2>1, <2>6 DEF ZeroBuffer
  <2>7. CASE LinkBlocks(h) BY <2>1, <2>7 DEF LinkBlocks
  <2>8. CASE CreateEvents(h) BY <2>1, <2>8 DEF CreateEvents
  <2>9. CASE MapOld(h) BY <2>1, <2>9 DEF MapOld, Map, Free
  <2>10. CASE CreateFails(h) BY <2>1, <2>10 DEF CreateFails, Free
  <2> QED BY <1>2, <2>2, <2>3, <2>4, <2>5, <2>6, <2>7, <2>8, <2>9, <2>10
          DEF Creating, Create
<1>3. ASSUME NEW h \in Handles, Connected(h) PROVE ServerOK'
  BY <1>3 DEF Connected
<1>4. ASSUME NEW h \in Handles, ConnectFailed(h) PROVE ServerOK'
  BY <1>4 DEF ConnectFailed
<1>5. CASE UNCHANGED <<sized, ready, step, fd, served>> BY <1>5
<1> QED BY <1>1, <1>2, <1>3, <1>4, <1>5
        DEF CarefulNext, CarefulConnect, RemoveOldQueues, RemoveName, Use,
            ClearQueue, Disconnect, Close, Destroy, vars, segmentVars,
            handleVars

(* A segment that is finished stays finished: with its size set, LookAtSize *)
(* leads nobody into the branch that lays it out.                           *)
LEMMA AfterNext ==
  ASSUME TypeOK, BusyOK, NameOK, ServerFirst, ServerOK, AfterServed,
         [CarefulNext]_vars
  PROVE  AfterServed'
<1> USE DEF TypeOK, Goto, At, Segments, NameOK, ServerFirst, ServerOK, BusyOK,
            Building, Opened, AfterServed, Finished
<1>1. CASE ~swept /\ RemoveOldQueues
  BY <1>1 DEF RemoveOldQueues, RemoveName
<1>2. ASSUME NEW h \in Handles, CarefulConnect(h) PROVE AfterServed'
  BY <1>2 DEF CarefulConnect, Connect, Idle, handleVars
<1>3. ASSUME NEW h \in Handles, Creating(h) PROVE AfterServed'
  <2> USE DEF handleVars, Parts
  <2>1. UNCHANGED handleVars BY <1>3 DEF Creating
  <2>2. CASE OpenSegment(h) BY <2>1, <2>2 DEF OpenSegment
  <2>3. CASE LookAtSize(h) BY <2>1, <2>3 DEF LookAtSize
  <2>4. CASE Truncate(h) BY <2>1, <2>4 DEF Truncate
  <2>5. CASE MapNew(h) BY <2>1, <2>5 DEF MapNew, Map, Free
  <2>6. CASE ZeroBuffer(h) BY <2>1, <2>6 DEF ZeroBuffer
  <2>7. CASE LinkBlocks(h) BY <2>1, <2>7 DEF LinkBlocks
  <2>8. CASE CreateEvents(h) BY <2>1, <2>8 DEF CreateEvents
  <2>9. CASE MapOld(h) BY <2>1, <2>9 DEF MapOld, Map, Free
  <2>10. CASE CreateFails(h) BY <2>1, <2>10 DEF CreateFails, Free
  <2> QED BY <1>3, <2>2, <2>3, <2>4, <2>5, <2>6, <2>7, <2>8, <2>9, <2>10
          DEF Creating, Create
<1>4. ASSUME NEW h \in Handles, Connected(h) PROVE AfterServed'
  BY <1>4 DEF Connected
<1>5. ASSUME NEW h \in Handles, ConnectFailed(h) PROVE AfterServed'
  BY <1>5 DEF ConnectFailed
<1>6. CASE UNCHANGED <<named, sized, ready, step, swept, served>> BY <1>6
<1> QED BY <1>1, <1>2, <1>3, <1>4, <1>5, <1>6
        DEF CarefulNext, CarefulConnect, Use, ClearQueue, Disconnect, Close,
            Destroy, vars, segmentVars, handleVars

(* munmap of the own address leaves the others theirs.                      *)
LEMMA UnmapOwn ==
  ASSUME TypeOK, PlacesOK, NEW h \in Handles, Live(h), step[h] = "done",
         Unmap(buffer[h]), UNCHANGED <<step, fd, base, buffer>>, ~Live(h)',
         \A g \in Handles : g # h => (Live(g)' <=> Live(g))
  PROVE  PlacesOK'
<1>1. /\ Has(h) /\ Place(h) = buffer[h] /\ buffer[h] \in Addresses /\ ~Has(h)'
      /\ mapping \in [Addresses -> 0 .. segments]
      /\ mapping' = [mapping EXCEPT ![buffer[h]] = 0]
  BY DEF Has, Place, Building, PlacesOK, Unmap, TypeOK
<1>2. ASSUME NEW g \in Handles, g # h
      PROVE  (Has(g)' <=> Has(g)) /\ Place(g)' = Place(g) /\ fd'[g] = fd[g]
  BY <1>2 DEF Has, Place
<1>3. ASSUME NEW g \in Handles, g # h, Has(g)
      PROVE  /\ Place(g) \in Addresses /\ fd[g] # 0
             /\ mapping'[Place(g)] = fd[g]
  BY <1>1, <1>3 DEF PlacesOK
<1>4. ASSUME NEW g \in Handles, Has(g)'
      PROVE  /\ Place(g)' \in Addresses /\ fd'[g] # 0
             /\ mapping'[Place(g)'] = fd'[g]
  BY <1>1, <1>2, <1>3, <1>4
<1>5. ASSUME NEW f \in Handles, NEW g \in Handles, f # g, Has(f)', Has(g)'
      PROVE  Place(f)' # Place(g)'
  BY <1>1, <1>2, <1>5 DEF PlacesOK
<1> QED BY <1>4, <1>5 DEF PlacesOK

(* mmap gives a free address, and only its own handle unmaps it.            *)
LEMMA PlacesNext ==
  ASSUME TypeOK, BusyOK, NameOK, FlagsOK, PlacesOK, ServerFirst, AfterServed,
         [CarefulNext]_vars
  PROVE  PlacesOK'
<1> USE DEF TypeOK, Goto, At, Segments, PlacesOK, FlagsOK, NameOK, ServerFirst,
            AfterServed, BusyOK, Building, Opened, Has, Place, Live
<1>1. ASSUME NEW h \in Handles, CarefulConnect(h) PROVE PlacesOK'
  BY <1>1 DEF CarefulConnect, Connect, Idle, handleVars
<1>2. ASSUME NEW h \in Handles, Creating(h) PROVE PlacesOK'
  <2> USE DEF handleVars, Parts
  <2>1. UNCHANGED handleVars BY <1>2 DEF Creating
  <2>2. CASE OpenSegment(h) BY <2>1, <2>2 DEF OpenSegment
  <2>3. CASE LookAtSize(h) BY <2>1, <2>3 DEF LookAtSize
  <2>4. CASE Truncate(h) BY <2>1, <2>4 DEF Truncate
  <2>5. CASE MapNew(h) BY <2>1, <2>5 DEF MapNew, Map, Free
  <2>6. CASE ZeroBuffer(h) BY <2>1, <2>6 DEF ZeroBuffer
  <2>7. CASE LinkBlocks(h) BY <2>1, <2>7 DEF LinkBlocks
  <2>8. CASE CreateEvents(h) BY <2>1, <2>8 DEF CreateEvents
  <2>9. CASE MapOld(h) BY <2>1, <2>9 DEF MapOld, Map, Free
  <2>10. CASE CreateFails(h) BY <2>1, <2>10 DEF CreateFails, Free
  <2> QED BY <1>2, <2>2, <2>3, <2>4, <2>5, <2>6, <2>7, <2>8, <2>9, <2>10
          DEF Creating, Create
<1>3. ASSUME NEW h \in Handles, Connected(h) PROVE PlacesOK'
  BY <1>3 DEF Connected
<1>4. ASSUME NEW h \in Handles, Disconnect(h) PROVE PlacesOK'
  <2>1. /\ Live(h) /\ step[h] = "done" /\ ~Live(h)' /\ Unmap(buffer[h])
        /\ UNCHANGED <<step, fd, base, buffer>>
        /\ \A g \in Handles : g # h => (Live(g)' <=> Live(g))
    BY <1>4 DEF Disconnect, Idle
  <2> HIDE DEF Live, Has, Place, PlacesOK, TypeOK
  <2> QED BY <2>1, UnmapOwn
<1>5. ASSUME NEW h \in Handles, connected[h] /\ Close(h) PROVE PlacesOK'
  <2>1. /\ Live(h) /\ step[h] = "done" /\ ~Live(h)' /\ Unmap(buffer[h])
        /\ UNCHANGED <<step, fd, base, buffer>>
        /\ \A g \in Handles : g # h => (Live(g)' <=> Live(g))
    BY <1>5 DEF Close, Idle
  <2> HIDE DEF Live, Has, Place, PlacesOK, TypeOK
  <2> QED BY <2>1, UnmapOwn
<1>6. ASSUME NEW h \in Handles, Destroy(h) PROVE PlacesOK'
  BY <1>6 DEF Destroy, Unmap, Idle
<1>7. ASSUME NEW h \in Handles, ConnectFailed(h) PROVE PlacesOK'
  BY <1>7 DEF ConnectFailed
<1>8. CASE UNCHANGED <<mapping, step, fd, base, connected, buffer, stage>>
  BY <1>8
<1> QED BY <1>1, <1>2, <1>3, <1>4, <1>5, <1>6, <1>7, <1>8
        DEF CarefulNext, CarefulConnect, RemoveOldQueues, RemoveName, Use,
            ClearQueue, vars, segmentVars, handleVars
-----------------------------------------------------------------------------
(* The invariant, and what it gives. *)

(* CarefulInv holds at first.                                               *)
LEMMA CarefulInit == Init => CarefulInv
<1> SUFFICES ASSUME Init PROVE CarefulInv OBVIOUS
<1>1. TypeOK /\ BusyOK BY TypeInit
<1>2. /\ \A h \in Handles : /\ step[h] = "done" /\ fd[h] = 0
                            /\ ~connected[h] /\ ~queue[h]
      /\ \A a \in Addresses : mapping[a] = 0
      /\ \A i \in Segments : ~traffic[i]
      /\ ~swept /\ ~served
      /\ \A h \in Handles : stage[h] = "new"
  BY DEF Init, SegmentInit
<1>3. \A i \in Segments : i > segments => ~sized[i]
  <2>1. PICK left \in 0 .. 1, s \in BOOLEAN :
          segments = left /\ sized = [i \in Segments |-> i = left /\ s]
    BY DEF Init, SegmentInit
  <2>2. ASSUME NEW i \in Segments, i > segments PROVE ~sized[i]
    <3>1. i # left BY <2>1, <2>2 DEF Segments
    <3> QED BY <2>1, <3>1
  <2> QED BY <2>2
<1> USE DEF Building, Live, Has
<1>4. NameOK BY <1>2, <1>3 DEF NameOK
<1>5. ServerFirst BY <1>2 DEF ServerFirst
<1>6. ServerOK BY <1>2 DEF ServerOK
<1>7. AfterServed BY <1>2 DEF AfterServed
<1>8. FlagsOK BY <1>2 DEF FlagsOK
<1>9. PlacesOK BY <1>2 DEF PlacesOK
<1> QED BY <1>1, <1>2, <1>4, <1>5, <1>6, <1>7, <1>8, <1>9
        DEF CarefulInv

(* Careful programs take steps of programs.                                 *)
LEMMA CarefulIsNext == [CarefulNext]_vars => [Next]_vars
BY DEF CarefulNext, Next

(* CarefulInv is kept by the steps that main.cpp takes.                     *)
LEMMA CarefulNextInv == CarefulInv /\ [CarefulNext]_vars => CarefulInv'
<1> SUFFICES ASSUME CarefulInv, [CarefulNext]_vars PROVE CarefulInv' OBVIOUS
<1>1. TypeOK' /\ BusyOK' BY CarefulIsNext, TypeNext DEF CarefulInv
<1>2. NameOK' /\ ServerFirst' /\ ServerOK' /\ AfterServed'
  BY NameNext, FirstNext, ServerNext, AfterNext DEF CarefulInv
<1>3. FlagsOK' /\ PlacesOK' BY FlagsNext, PlacesNext DEF CarefulInv
<1> QED BY <1>1, <1>2, <1>3 DEF CarefulInv

(* In the order main.cpp keeps to, handles that are connected share the     *)
(* one segment that the server has finished, and nobody maps anything       *)
(* else.                                                                    *)
THEOREM CarefulCorrect == CarefulSpec => []CarefulInv
<1> QED BY CarefulInit, CarefulNextInv, PTL DEF CarefulSpec

(* Careful programs behave as programs: what is proved of Spec holds.       *)
THEOREM CarefulIsSpec == CarefulSpec => Spec
<1> QED BY CarefulIsNext, PTL DEF CarefulSpec, Spec

(* CarefulInv says so of every connected handle.                            *)
LEMMA ReadySuffices == CarefulInv => ReadyWhenConnected
<1> SUFFICES ASSUME CarefulInv, NEW h \in Handles, Live(h)
             PROVE  /\ Usable(h) /\ mapping[buffer[h]] = fd[h]
                    /\ sized[fd[h]] /\ ready[fd[h]] = Parts
  BY DEF ReadyWhenConnected
<1> USE DEF CarefulInv
<1>1. step[h] = "done" /\ queue[h] BY DEF FlagsOK, Live
<1>2. buffer[h] \in Addresses /\ mapping[buffer[h]] = fd[h] /\ fd[h] # 0
  BY <1>1 DEF PlacesOK, Has, Place, Building
<1>3. served BY DEF ServerFirst, Live
<1>4. fd[h] = named /\ Finished(named)
  BY <1>2, <1>3 DEF NameOK, AfterServed
<1> QED BY <1>1, <1>2, <1>4 DEF Usable, Finished

(* CarefulInv leaves one segment to be connected to.                        *)
LEMMA OneQueueSuffices == CarefulInv => OneQueue
<1> SUFFICES ASSUME CarefulInv, NEW g \in Handles, NEW h \in Handles,
                    Live(g), Live(h), g # h
             PROVE  /\ mapping[buffer[g]] = mapping[buffer[h]]
                    /\ buffer[g] # buffer[h]
  BY DEF OneQueue
<1>1. step[g] = "done" /\ step[h] = "done" BY DEF CarefulInv, FlagsOK, Live
<1> QED BY <1>1 DEF CarefulInv, PlacesOK, NameOK, Has, Place, Building

(* A handle that is connected has a segment that create() has finished,     *)
(* though create() decides by the size alone who lays it out and a process  *)
(* may have died in it (shmIPC.h:476), whoever's opens and maps fail: it is *)
(* enough that clients wait for the server's connect to return 0.           *)
THEOREM ReadyCorrect == CarefulSpec => []ReadyWhenConnected
<1> QED BY CarefulCorrect, ReadySuffices, PTL

(* They all have the one segment, and no disconnect or close unmaps what    *)
(* another handle of the process uses, though disconnect() keeps the        *)
(* pointer of what it has unmapped (shmIPC.h:568-580).                      *)
THEOREM OneQueueCorrect == CarefulSpec => []OneQueue
<1> QED BY CarefulCorrect, OneQueueSuffices, PTL

(* No step lays out a segment that has been used.                           *)
LEMMA TrafficStep ==
  CarefulInv /\ [CarefulNext]_vars
    => [\A i \in Segments : traffic[i] => traffic'[i]]_vars
<1> SUFFICES ASSUME CarefulInv, [CarefulNext]_vars,
                    NEW i \in Segments, traffic[i]
             PROVE  traffic'[i]
  OBVIOUS
<1> USE DEF CarefulInv, TypeOK
<1>1. served BY DEF ServerFirst
<1>2. ASSUME NEW h \in Handles, Creating(h) PROVE traffic'[i]
  <2>1. step[h] # "zero" BY <1>1 DEF AfterServed
  <2> QED BY <1>2, <2>1 DEF Creating, Create, OpenSegment, LookAtSize, Truncate,
             MapNew, MapOld, Map, ZeroBuffer, LinkBlocks, CreateEvents,
             CreateFails, At
<1>3. ASSUME NEW h \in Handles, Use(h) PROVE traffic'[i]
  BY <1>3 DEF Use, Segments
<1>4. CASE UNCHANGED traffic BY <1>4
<1> QED BY <1>2, <1>3, <1>4
        DEF CarefulNext, RemoveOldQueues, RemoveName, Connect, Connected,
            ConnectFailed, ClearQueue, Disconnect, Close, Destroy, segmentVars,
            vars

(* A segment that messages were sent through is never zeroed and linked     *)
(* again: of create()'s two branches (shmIPC.h:476-560) only the one that   *)
(* leaves the blocks alone is taken once a client can have a queue.         *)
THEOREM TrafficCorrect == CarefulSpec => TrafficKept
<1> QED BY CarefulCorrect, TrafficStep, PTL DEF CarefulSpec, TrafficKept
=============================================================================
