--------------------------- MODULE EarlierProofs ----------------------------
(***************************************************************************)
(* Proof that the earlier versions of the ring implement the mailbox too,  *)
(* under the scheduling assumptions of today's ring.                       *)
(*                                                                         *)
(* Most of their steps are steps of Ring, which keep the invariants of     *)
(* RingMailbox whatever state they start from.  What is left are the steps *)
(* that the versions have of their own (OwnStep and ImplSetDoneRead), the  *)
(* ring that create() lays out, and the emptiness check of "impl".         *)
(***************************************************************************)
EXTENDS Earlier, RingMailbox

USE RingAssumption, VersionsAssumption
    DEF RingAssumption, VersionsAssumption
-----------------------------------------------------------------------------
(* The ring that create() lays out: one message, blank, visible.            *)

(* Everything is in place in it.                                            *)
LEMMA EarlierPlaceInit == EarlierInit => PlaceInv /\ ContentsOK
<1> SUFFICES ASSUME EarlierInit PROVE PlaceInv /\ ContentsOK OBVIOUS
<1>1. /\ Slot(0) = 0 /\ Slot(1) = 1 /\ 0 \in Blocks /\ 1 \in Blocks
  <2>1. 0 \in Blocks /\ 1 \in Blocks BY DEF Blocks
  <2>2. Slot(0) = 0 BY <2>1, SlotIs, 0 \in Int, 0 = BlockCount * 0 + 0
  <2>3. Slot(1) = 1 BY <2>1, SlotIs, 0 \in Int, 1 \in Int,
                       1 = BlockCount * 0 + 1
  <2> QED BY <2>1, <2>2, <2>3
<1>2. sent = <<BlankMessage>> /\ BlankMessage \in Message
  BY DEF EarlierInit, BlankMessage, Message
<1>3. TypeOK
  <2>1. SharedOK BY <1>1 DEF EarlierInit, SharedOK
  <2>2. LabelsOK /\ LocalsOK
    BY <1>1 DEF EarlierInit, LabelsOK, LocalsOK, WriterLabels, ReaderLabels,
                Threads
  <2>3. HistoryOK
    <3>1. sent \in Seq(Message) BY <1>2
    <3>2. inbox \in [Readers -> Seq(Message)] BY DEF EarlierInit
    <3> QED BY <3>1, <3>2 DEF EarlierInit, HistoryOK
  <2> QED BY <2>1, <2>2, <2>3 DEF TypeOK
<1>4. CallsOK BY DEF EarlierInit, CallsOK, Threads
<1>5. CursorsOK BY <1>1, <1>2 DEF EarlierInit, CursorsOK
<1>6. WindowsOK BY DEF EarlierInit, WindowsOK, WindowOK, InWindow
<1>7. FillersOK /\ UsersOK
  BY DEF EarlierInit, FillersOK, UsersOK, Filling, Using, Keeping, Threads
<1>8. MoversOK /\ RetirersOK BY DEF EarlierInit, MoversOK, RetirersOK, Threads
<1>9. WriteFlagsOK /\ ReadFlagsOK
  BY DEF EarlierInit, WriteFlagsOK, ReadFlagsOK
<1>10. ContentsOK
  <2>1. returned = 0 /\ claims = 1 BY DEF EarlierInit
  <2>2. \A k \in returned .. claims - 1 : k = 0 BY <2>1
  <2>3. Intact(0)
    BY <1>1, <1>2 DEF EarlierInit, Intact, BlankMessage
  <2> QED BY <2>2, <2>3 DEF EarlierInit, ContentsOK, Threads
<1> QED BY <1>3, <1>4, <1>5, <1>6, <1>7, <1>8, <1>9, <1>10 DEF PlaceInv

(* To the callers it is an empty mailbox.                                   *)
LEMMA EarlierInitMaps == EarlierInit => Unblanked!MailInit
<1> SUFFICES ASSUME EarlierInit PROVE Unblanked!MailInit OBVIOUS
<1>1. sent = <<BlankMessage>> BY DEF EarlierInit
<1>2. Tail(sent) = <<>> BY <1>1
<1>3. \A r \in Readers : Held(r) = 0 BY DEF EarlierInit, Held, Threads
<1> QED BY <1>2, <1>3 DEF EarlierInit, Unblanked!MailInit, Less
-----------------------------------------------------------------------------
(* The steps that these versions have of their own. *)

(* Where a thread goes that only looks at a cursor or a flag.               *)
OwnMove(t) ==
  \/ t \in Writers /\ pc[t] = "consume" /\ pc'[t] = "idle"
  \/ t \in Readers /\ pc[t] = "unmark" /\ pc'[t] \in {"idle", "take"}
  \/ t \in Readers /\ pc[t] = "avail" /\ pc'[t] = "await"
  \/ /\ t \in Readers /\ pc[t] = "avail" /\ pc'[t] = "grab"
     /\ lap[t] = taken => taken + 1 < published

(* At most one thread goes on, and nothing else changes but the counter.    *)
OwnStep ==
  /\ UNCHANGED <<cursors, blocks, idx, own, len, early, calls, moves, ticket,
                 lap, sent, inbox>>
  /\ msgCount' \in 0 .. CountMod - 1
  /\ \/ pc' = pc
     \/ \E t \in Threads : /\ pc' = [pc EXCEPT ![t] = pc'[t]]
                           /\ OwnMove(t)

(* Such a step takes nobody to, and nobody from, a block.                   *)
LEMMA OwnLabels ==
  ASSUME PInv, OwnStep
  PROVE  /\ LabelsOK'
         /\ \A t \in Threads :
              pc'[t] \in {"room", "cas", "claim", "fill", "post", "move", "size",
                          "copy", "release", "clear", "retire", "consume",
                          "unmark", "avail"}
                => pc'[t] = pc[t]
         /\ \A t \in Threads :
              pc[t] \in {"fill", "post", "move", "size", "copy", "release",
                         "clear", "retire"}
                => pc'[t] = pc[t]
         /\ \A t \in Threads :
              pc'[t] = "await" /\ t \in Writers => pc[t] = "await"
<1>1. LabelsOK /\ Readers \cap Writers = {}
  BY DEF PInv, PlaceInv, TypeOK
<1>2. CASE pc' = pc BY <1>1, <1>2 DEF LabelsOK
<1>3. ASSUME NEW t \in Threads, pc' = [pc EXCEPT ![t] = pc'[t]], OwnMove(t)
      PROVE  /\ LabelsOK'
             /\ pc'[t] \in {"idle", "take", "await", "grab"}
             /\ pc[t] \in {"consume", "unmark", "avail"}
             /\ t \in Writers => pc'[t] = "idle"
             /\ \A u \in Threads \ {t} : pc'[u] = pc[u]
  BY <1>1, <1>3 DEF OwnMove, LabelsOK, WriterLabels, ReaderLabels, Threads
<1> QED BY <1>2, <1>3 DEF OwnStep

(* An own step keeps everybody in place, and what the blocks hold.          *)
LEMMA OwnKeeps == PInv /\ ContentsOK /\ OwnStep => (PlaceInv /\ ContentsOK)'
<1> SUFFICES ASSUME PInv, ContentsOK, OwnStep
             PROVE  (PlaceInv /\ ContentsOK)'
  OBVIOUS
<1> USE DEF cursors, blocks, moves
<1>1. PlaceInv /\ TypeOK BY DEF PInv, PlaceInv
<1>2. LabelsOK' BY OwnLabels
<1>3. SharedOK' /\ LocalsOK' /\ HistoryOK'
  BY <1>1 DEF OwnStep, TypeOK, SharedOK, LocalsOK, HistoryOK
<1>4. CallsOK'
  BY <1>1, OwnLabels DEF OwnStep, PlaceInv, CallsOK, Threads
<1>5. CursorsOK' BY <1>1 DEF OwnStep, PlaceInv, CursorsOK, Slot
<1>6. WindowsOK'
  <2> SUFFICES ASSUME NEW t \in Threads PROVE WindowOK(t)'
    BY DEF WindowsOK
  <2>1. WindowOK(t) BY <1>1 DEF PlaceInv, WindowsOK
  <2>2. CASE pc'[t] = pc[t]
    BY <2>1, <2>2 DEF OwnStep, WindowOK, InWindow, Slot
  <2>3. CASE pc'[t] # pc[t]
    <3>1. OwnMove(t) BY <1>1, <2>3 DEF OwnStep, TypeOK, LabelsOK
    <3>2. ~early[t] BY <2>1, <3>1 DEF WindowOK, OwnMove
    <3>3. taken \in Nat /\ published \in Nat BY Numbers
    <3> QED BY <2>1, <3>1, <3>2, <3>3
            DEF OwnMove, OwnStep, WindowOK, InWindow, Slot
  <2> QED BY <2>2, <2>3
<1>7. FillersOK'
  BY <1>1, OwnLabels DEF OwnStep, PlaceInv, FillersOK, Filling, Slot, Threads
<1>8. UsersOK'
  BY <1>1, OwnLabels
     DEF OwnStep, PlaceInv, UsersOK, Using, Keeping, Slot, Threads
<1>9. MoversOK'
  BY <1>1, OwnLabels DEF OwnStep, PlaceInv, MoversOK, Filling, Slot, Threads
<1>10. RetirersOK'
  BY <1>1, OwnLabels DEF OwnStep, PlaceInv, RetirersOK, Using, Slot, Threads
<1>11. WriteFlagsOK' /\ ReadFlagsOK'
  BY <1>1 DEF OwnStep, PlaceInv, WriteFlagsOK, ReadFlagsOK, Slot
<1>12. ContentsOK'
  BY OwnLabels
     DEF OwnStep, ContentsOK, Settled, Intact, Slot, Threads
<1> QED BY <1>2, <1>3, <1>4, <1>5, <1>6, <1>7, <1>8, <1>9, <1>10, <1>11,
           <1>12 DEF PlaceInv, TypeOK

(* It is invisible to the callers.                                          *)
LEMMA OwnMaps == PInv /\ OwnStep => UNCHANGED Mailbox!mailVars
<1> SUFFICES ASSUME PInv, OwnStep PROVE UNCHANGED Mailbox!mailVars OBVIOUS
<1>1. \A r \in Readers : Held(r)' = Held(r)
  BY OwnLabels DEF OwnStep, Held, Threads
<1> QED BY <1>1 DEF OwnStep, moves, Mailbox!mailVars

(* Setting doneRead and no more gives a block back as today's code does.    *)
LEMMA GiveBackKeeps ==
  ASSUME PInv, ContentsOK, NEW r \in Readers, ImplSetDoneRead(r)
  PROVE  (PlaceInv /\ ContentsOK)' /\ UNCHANGED Mailbox!mailVars
<1> USE DEF cursors, blocks, moves
<1>1. PlaceInv /\ TypeOK BY DEF PInv, PlaceInv
<1>2. /\ r \in Threads /\ own[r] \in Blocks
      /\ pc \in [Threads -> WriterLabels \cup ReaderLabels]
      /\ early \in [Threads -> BOOLEAN]
      /\ doneRead \in [Blocks -> BOOLEAN]
  BY <1>1 DEF TypeOK, LabelsOK, LocalsOK, SharedOK, Threads
<1>3. /\ pc[r] = "release" /\ pc'[r] \in {"reclaim", "unmark"}
      /\ early[r] <=> pc'[r] = "unmark"
      /\ ~early'[r]
      /\ \A u \in Threads \ {r} : pc'[u] = pc[u] /\ early'[u] = early[u]
      /\ doneRead' = [doneRead EXCEPT ![own[r]] = TRUE]
  BY <1>2 DEF ImplSetDoneRead, Goto
<1>4. TypeOK'
  <2>1. LabelsOK'
    BY <1>1, <1>2, <1>3
       DEF TypeOK, LabelsOK, WriterLabels, ReaderLabels, ImplSetDoneRead, Goto,
           Threads
  <2>2. SharedOK' /\ LocalsOK' /\ HistoryOK'
    BY <1>1, <1>2 DEF TypeOK, SharedOK, LocalsOK, HistoryOK, ImplSetDoneRead
  <2> QED BY <2>1, <2>2 DEF TypeOK
<1>5. /\ \A w \in Writers : w # r /\ w \in Threads /\ pc'[w] = pc[w]
      /\ \A q \in Readers : q \in Threads
  BY <1>3 DEF Threads
<1>6. CallsOK' BY <1>1, <1>5 DEF PlaceInv, CallsOK, ImplSetDoneRead
<1>7. CursorsOK' BY <1>1 DEF PlaceInv, CursorsOK, Slot, ImplSetDoneRead
<1>8. WindowsOK'
  <2> SUFFICES ASSUME NEW t \in Threads PROVE WindowOK(t)'
    BY DEF WindowsOK
  <2>1. WindowOK(t) BY <1>1 DEF PlaceInv, WindowsOK
  <2>2. CASE t # r
    BY <1>3, <2>1, <2>2 DEF ImplSetDoneRead, WindowOK, InWindow, Slot
  <2>3. CASE t = r
    BY <1>3, <2>1, <2>3 DEF ImplSetDoneRead, WindowOK, InWindow, Slot
  <2> QED BY <2>2, <2>3
<1>9. FillersOK' /\ MoversOK' /\ WriteFlagsOK'
  BY <1>1, <1>5
     DEF ImplSetDoneRead, PlaceInv, FillersOK, MoversOK, WriteFlagsOK, Filling,
         Slot
<1>10. /\ own[r] = Slot(ticket[r]) /\ ticket[r] < taken
       /\ returned <= ticket[r] /\ Keeping(r) /\ Using(r)
       /\ ticket[r] \in Nat /\ taken \in Nat /\ returned \in Nat
  BY <1>1, <1>2, <1>3
     DEF PlaceInv, UsersOK, Keeping, Using, TypeOK, HistoryOK
<1>11. ASSUME NEW q \in Readers, q # r, Using(q) PROVE own[q] # own[r]
  <2>1. Holds(q) /\ Holds(r) BY <1>3, <1>11 DEF Holds, Using
  <2> QED BY <1>2, <1>5, <1>11, <2>1, HolderTickets
<1>12. UsersOK'
  BY <1>1, <1>2, <1>3, <1>5, <1>10, <1>11
     DEF ImplSetDoneRead, PlaceInv, UsersOK, Using, Keeping, Slot
<1>13. RetirersOK'
  <2> SUFFICES ASSUME NEW q \in Readers, pc'[q] = "retire"
               PROVE  /\ lap[q] = returned /\ returned < taken
                      /\ ~doneRead'[Slot(returned)]
                      /\ \A p \in Readers : Using(p)' => ticket[p] # returned
                      /\ \A p \in Readers : pc'[p] = "retire" => p = q
    BY DEF ImplSetDoneRead, RetirersOK, Slot
  <2>1. q # r /\ pc[q] = "retire" BY <1>3, <1>5
  <2>2. /\ lap[q] = returned /\ returned < taken
        /\ ~doneRead[Slot(returned)]
        /\ \A p \in Readers : Using(p) => ticket[p] # returned
        /\ \A p \in Readers : pc[p] = "retire" => p = q
    BY <1>1, <2>1 DEF PlaceInv, RetirersOK
  <2>3. ticket[r] # returned BY <1>10, <2>2
  <2>4. Slot(returned) # own[r]
    <3>1. /\ taken <= claims /\ claims < returned + BlockCount
          /\ claims \in Nat
      BY <1>1, Numbers
    <3>2. Slot(returned) \in Blocks BY <1>10, SlotType
    <3> QED BY <1>10, <2>3, <3>1, SlotInj
  <2>5. ~doneRead'[Slot(returned)]
    BY <1>2, <1>3, <1>10, <2>2, <2>4, SlotType
  <2> QED BY <1>3, <1>5, <2>2, <2>5 DEF Using, ImplSetDoneRead
<1>14. ReadFlagsOK'
  <2> SUFFICES ASSUME NEW b \in Blocks, doneRead'[b]
               PROVE  \E k \in returned .. taken - 1 : b = Slot(k)
    BY DEF ReadFlagsOK, ImplSetDoneRead, Slot
  <2>1. CASE b = own[r] BY <1>10, <2>1
  <2>2. CASE b # own[r]
    BY <1>1, <1>2, <1>3, <2>2 DEF PlaceInv, ReadFlagsOK
  <2> QED BY <2>1, <2>2
<1>15. ContentsOK'
  BY <1>3, <1>5 DEF ImplSetDoneRead, ContentsOK, Settled, Intact, Slot
<1>16. UNCHANGED Mailbox!mailVars
  <2>1. \A q \in Readers : Held(q)' = Held(q)
    BY <1>3, <1>5 DEF Held, ImplSetDoneRead
  <2> QED BY <2>1 DEF ImplSetDoneRead, Mailbox!mailVars
<1> QED BY <1>4, <1>6, <1>7, <1>8, <1>9, <1>12, <1>13, <1>14, <1>15, <1>16
        DEF PlaceInv
-----------------------------------------------------------------------------
(* The steps of the two versions. *)

(* What "impl" adds: it does not clear a block, and hands out none but when *)
(* there is another behind it.                                              *)
ImplOK ==
  version = "impl" =>
    /\ taken < published
    /\ \A r \in Readers :
         /\ pc[r] # "clear"
         /\ pc[r] = "grab" /\ lap[r] = taken => taken + 1 < published

(* The actions of a reader that both versions take as they are.             *)
CommonReader(r) ==
  \/ StartRead(r) \/ LoadReadStart(r) \/ AwaitData(r) \/ TakeBlock(r)
  \/ TakeLost(r) \/ ReadAmount(r) \/ Copy(r) \/ ClearAmount(r)
  \/ EarlyLoadReadEnd(r) \/ LoadReadEnd(r) \/ ConsumeDoneRead(r)
  \/ MoveReadEnd(r)

(* "impl" sees a second block behind the one that it is about to take.      *)
LEMMA ImplSees ==
  ASSUME PInv, ImplOK, version = "impl", NEW r \in Readers,
         ImplCheckAvail(r), lap[r] = taken, pc'[r] = "grab"
  PROVE  taken + 1 < published
<1>1. /\ r \in Threads /\ pc \in [Threads -> WriterLabels \cup ReaderLabels]
      /\ taken \in Nat /\ published \in Nat /\ taken < published
  BY Numbers DEF ImplOK
<1>2. Next1(idx[r]) # writeEnd BY <1>1 DEF ImplCheckAvail, Goto
<1>3. idx[r] = Slot(taken)
  BY <1>1 DEF ImplCheckAvail, PInv, PlaceInv, WindowsOK, WindowOK, InWindow
<1>4. Next1(idx[r]) = Slot(taken + 1) BY <1>1, <1>3, SlotNext
<1>5. writeEnd = Slot(published) BY DEF PInv, PlaceInv, CursorsOK
<1> QED BY <1>1, <1>2, <1>4, <1>5

(* A step is one of today's ring, or one of the versions' own.              *)
LEMMA EarlierSteps ==
  ASSUME PInv, ImplOK, EarlierNext
  PROVE  /\ version' = version
         /\ \/ \E w \in Writers : Writer(w)
            \/ \E r \in Readers :
                 \/ CommonReader(r)
                 \/ version # "impl" /\ (CheckAvail(r) \/ SetDoneRead(r))
                 \/ version = "impl" /\ ImplSetDoneRead(r)
            \/ OwnStep
            \/ UNCHANGED vars
<1>1. /\ pc \in [Threads -> WriterLabels \cup ReaderLabels]
      /\ Writers \subseteq Threads /\ Readers \subseteq Threads
      /\ CountMod \in Nat /\ CountMod > 0
      /\ msgCount \in 0 .. CountMod - 1
  <2>1. CountMod \in Nat /\ CountMod > 0 OBVIOUS
  <2>2. msgCount \in 0 .. CountMod - 1
    BY DEF PInv, PlaceInv, TypeOK, SharedOK
  <2> QED BY <2>1, <2>2, Numbers
<1>2. ASSUME NEW w \in Writers, EarlierWriter(w)
      PROVE  version' = version /\ (Writer(w) \/ OwnStep)
  <2>1. CASE WriterRings(w) /\ ~PostEnds(w) /\ UNCHANGED version
    BY <2>1 DEF WriterRings, Writer
  <2>2. CASE PostEnds(w) /\ UNCHANGED version
    BY <1>1, <2>2 DEF PostEnds, OwnStep, OwnMove, Goto
  <2>3. CASE (MoveWriteEnd(w) \/ AwaitRoom(w)) /\ UNCHANGED version
    BY <2>3 DEF Writer
  <2> QED BY <1>2, <2>1, <2>2, <2>3 DEF EarlierWriter, WaitRoom
<1>3. ASSUME NEW r \in Readers, EarlierReader(r)
      PROVE  /\ version' = version
             /\ \/ CommonReader(r) \/ OwnStep
                \/ version # "impl" /\ (CheckAvail(r) \/ SetDoneRead(r))
                \/ version = "impl" /\ ImplSetDoneRead(r)
  <2>1. CASE LookForData(r) /\ UNCHANGED version
    <3>1. CASE version # "impl" BY <2>1, <3>1 DEF LookForData
    <3>2. CASE version = "impl"
      <4>1. ImplCheckAvail(r) BY <2>1, <3>2 DEF LookForData
      <4>2. pc'[r] \in {"await", "grab"}
        BY <1>1, <4>1 DEF ImplCheckAvail, Goto
      <4>3. OwnMove(r)
        BY <3>2, <4>1, <4>2, ImplSees DEF OwnMove, ImplCheckAvail
      <4>4. /\ pc' = [pc EXCEPT ![r] = pc'[r]]
            /\ UNCHANGED <<cursors, blocks, idx, own, len, early, calls,
                           moves, ticket, lap, sent, inbox, msgCount>>
        BY <1>1, <4>1 DEF ImplCheckAvail, Goto
      <4> QED BY <1>1, <2>1, <4>3, <4>4 DEF OwnStep
    <3> QED BY <3>1, <3>2
  <2>2. CASE GiveBack(r) /\ UNCHANGED version BY <2>2 DEF GiveBack
  <2>3. CASE ReturnEnds(r) /\ UNCHANGED version
    <3>1. pc'[r] \in {"idle", "take"} BY <1>1, <2>3 DEF ReturnEnds, Goto
    <3>2. OwnMove(r) BY <2>3, <3>1 DEF OwnMove, ReturnEnds
    <3>3. /\ pc' = [pc EXCEPT ![r] = pc'[r]]
          /\ UNCHANGED <<cursors, blocks, idx, own, len, early, calls,
                         moves, ticket, lap, sent, inbox, msgCount>>
      BY <1>1, <2>3 DEF ReturnEnds, Goto
    <3> QED BY <1>1, <2>3, <3>2, <3>3 DEF OwnStep
  <2>4. CASE /\ \/ MoveReadEnd(r) \/ AwaitData(r)
                \/ ReaderRings(r) /\ ~LookForData(r) /\ ~GiveBack(r)
                                  /\ ~ReturnEnds(r)
             /\ UNCHANGED version
    BY <2>4 DEF ReaderRings, CommonReader
  <2> QED BY <1>3, <2>1, <2>2, <2>3, <2>4 DEF EarlierReader, WaitData
<1>4. ASSUME NEW t \in Threads, Discharge(t)
      PROVE  version' = version /\ (OwnStep \/ UNCHANGED vars)
  <2>1. CASE GuardSignal(t) \/ Signal(t) \/ ResetEvent(t)
    BY <2>1 DEF GuardSignal, Signal, ResetEvent
  <2>2. CASE Count(t)
    BY <1>1, <2>2 DEF Count, OwnStep
  <2> QED BY <1>4, <2>1, <2>2 DEF Discharge
<1> QED BY <1>2, <1>3, <1>4 DEF EarlierNext

(* "impl" always keeps a block in hand.                                     *)
LEMMA ImplKept == PInv /\ ImplOK /\ EarlierNext => ImplOK'
<1> SUFFICES ASSUME PInv, ImplOK, EarlierNext, version = "impl"
             PROVE  /\ taken' < published'
                    /\ \A q \in Readers :
                         /\ pc'[q] # "clear"
                         /\ pc'[q] = "grab" /\ lap'[q] = taken'
                              => taken' + 1 < published'
  BY EarlierSteps DEF ImplOK
<1>1. /\ TypeInd /\ Writers \subseteq Threads /\ Readers \subseteq Threads
      /\ \A w \in Writers : w \notin Readers
      /\ taken \in Nat /\ published \in Nat
      /\ pc \in [Threads -> WriterLabels \cup ReaderLabels]
      /\ \A t \in Threads : lap[t] \in Nat
  BY Numbers DEF TypeInd, PInv, PlaceInv
<1>2. /\ taken < published
      /\ \A q \in Readers :
           /\ pc[q] # "clear"
           /\ pc[q] = "grab" /\ lap[q] = taken => taken + 1 < published
  BY DEF ImplOK
<1>3. ASSUME NEW w \in Writers, Writer(w)
      PROVE  /\ \A q \in Readers : pc'[q] = pc[q] /\ lap'[q] = lap[q]
             /\ taken' = taken /\ published' \in Nat
             /\ published' >= published
  BY <1>1, <1>3, WriterAlone, MovesForward DEF Next, Same
<1>4. ASSUME NEW r \in Readers, CommonReader(r)
      PROVE  /\ \A q \in Readers \ {r} : pc'[q] = pc[q] /\ lap'[q] = lap[q]
             /\ pc'[r] \notin {"clear", "grab"} \/ pc'[r] = pc[r]
             /\ lap'[r] = lap[r] \/ pc'[r] # "grab"
             /\ published' = published
             /\ \/ taken' = taken
                \/ taken' = taken + 1 /\ taken + 1 < published
  <2>1. Reader(r) BY <1>4 DEF CommonReader, Reader
  <2>2. /\ \A q \in Readers \ {r} : pc'[q] = pc[q] /\ lap'[q] = lap[q]
        /\ published' = published
    BY <1>1, <2>1, ReaderAlone DEF Same
  <2>3. CASE TakeBlock(r)
    <3>1. lap[r] = taken /\ pc[r] = "grab"
      BY <2>3, FreshTake DEF TakeBlock
    <3>2. taken' = taken + 1 /\ pc'[r] = "size"
      BY <1>1, <2>3 DEF TakeBlock, Goto
    <3> QED BY <1>2, <2>2, <3>1, <3>2
  <2>4. CASE StartRead(r) \/ LoadReadStart(r) \/ AwaitData(r) \/ TakeLost(r)
               \/ ReadAmount(r) \/ Copy(r)
    <3>1. pc'[r] \notin {"clear", "grab"} /\ taken' = taken
      BY <1>1, <2>4 DEF StartRead, LoadReadStart, AwaitData, TakeLost,
         ReadAmount, Copy, Goto, moves
    <3> QED BY <2>2, <3>1
  <2>5. CASE ClearAmount(r) \/ EarlyLoadReadEnd(r) \/ LoadReadEnd(r)
               \/ ConsumeDoneRead(r) \/ MoveReadEnd(r)
    <3>1. /\ pc'[r] \notin {"clear", "grab"} \/ pc'[r] = pc[r]
          /\ pc'[r] # "grab" /\ taken' = taken
      BY <1>1, <2>5 DEF ClearAmount, EarlyLoadReadEnd, LoadReadEnd,
         ConsumeDoneRead, MoveReadEnd, Goto, moves
    <3> QED BY <2>2, <3>1
  <2> QED BY <1>4, <2>3, <2>4, <2>5 DEF CommonReader
<1>5. ASSUME NEW r \in Readers, ImplSetDoneRead(r)
      PROVE  /\ \A q \in Readers \ {r} : pc'[q] = pc[q]
             /\ pc'[r] \notin {"clear", "grab"}
             /\ UNCHANGED <<lap, taken, published>>
  BY <1>1, <1>5 DEF ImplSetDoneRead, Goto, moves
<1>6. ASSUME OwnStep
      PROVE  /\ \A q \in Readers :
                  \/ pc'[q] = pc[q] \/ pc'[q] \notin {"clear", "grab"}
                  \/ pc'[q] = "grab" /\ (lap[q] = taken
                                         => taken + 1 < published)
             /\ UNCHANGED <<lap, taken, published>>
  <2>1. ASSUME NEW t \in Threads, pc' = [pc EXCEPT ![t] = pc'[t]],
               OwnMove(t)
        PROVE  \A q \in Readers :
                  \/ pc'[q] = pc[q] \/ pc'[q] \notin {"clear", "grab"}
                  \/ pc'[q] = "grab" /\ (lap[q] = taken
                                         => taken + 1 < published)
    BY <1>1, <2>1 DEF OwnMove
  <2> QED BY <1>6, <2>1 DEF OwnStep, moves
<1>7. ASSUME UNCHANGED vars PROVE UNCHANGED <<pc, lap, taken, published>>
  BY <1>7 DEF vars, moves
<1>8. CASE \E w \in Writers : Writer(w) BY <1>1, <1>2, <1>3, <1>8
<1>9. ASSUME NEW r \in Readers, CommonReader(r), NEW q \in Readers
      PROVE  /\ taken' < published' /\ pc'[q] # "clear"
             /\ pc'[q] = "grab" /\ lap'[q] = taken'
                  => taken' + 1 < published'
  <2>1. /\ pc'[q] \notin {"clear", "grab"} \/ pc'[q] = pc[q]
        /\ lap'[q] = lap[q] \/ pc'[q] # "grab"
        /\ published' = published
        /\ \/ taken' = taken
           \/ taken' = taken + 1 /\ taken + 1 < published
    BY <1>4, <1>9
  <2>2. /\ taken < published /\ pc[q] # "clear"
        /\ pc[q] = "grab" /\ lap[q] = taken => taken + 1 < published
    BY <1>2
  <2>3. q \in Threads BY <1>1
  <2>4. pc[q] = "grab" => lap[q] <= taken
    BY <2>3 DEF PInv, PlaceInv, WindowsOK, WindowOK
  <2> QED BY <1>1, <2>1, <2>2, <2>3, <2>4
<1>10. CASE \E r \in Readers : ImplSetDoneRead(r) BY <1>2, <1>5, <1>10
<1>11. CASE OwnStep
  <2>1. lap' = lap /\ taken' = taken /\ published' = published
    BY <1>6, <1>11
  <2>2. ASSUME NEW q \in Readers
        PROVE  /\ pc'[q] # "clear"
               /\ pc'[q] = "grab" /\ lap[q] = taken => taken + 1 < published
    BY <1>2, <1>6, <1>11, <2>2
  <2> QED BY <1>2, <2>1, <2>2
<1>12. CASE UNCHANGED vars BY <1>2, <1>7, <1>12
<1> QED BY <1>8, <1>9, <1>10, <1>11, <1>12, EarlierSteps
-----------------------------------------------------------------------------
(* The theorems. *)

EInv == MInv /\ ImplOK /\ version \in Versions

(* The steps of the versions keep everybody in place and the blocks'        *)
(* contents, and are steps of the mailbox or invisible there.               *)
LEMMA EarlierKeeps ==
  ASSUME EInv, [EarlierNext]_earlierVars
  PROVE  /\ (PlaceInv /\ ContentsOK)' /\ ImplOK' /\ version' = version
         /\ [Mailbox!MailNext]_Mailbox!mailVars
<1>1. MInv /\ PInv /\ ContentsOK /\ ImplOK BY DEF EInv, MInv
<1> DEFINE Keeps == /\ (PlaceInv /\ ContentsOK)'
                    /\ \/ [Mailbox!MailNext]_Mailbox!mailVars
                       \/ UNCHANGED Mailbox!mailVars
<1>2. ASSUME [Next]_vars PROVE Keeps
  BY <1>1, <1>2, PNext, ContentsNext, StepMaps
<1>3. ASSUME OwnStep PROVE Keeps BY <1>1, <1>3, OwnKeeps, OwnMaps
<1>4. ASSUME NEW r \in Readers, ImplSetDoneRead(r) PROVE Keeps
  BY <1>1, <1>4, GiveBackKeeps
<1>5. CASE EarlierNext
  <2>1. \/ [Next]_vars \/ OwnStep \/ \E r \in Readers : ImplSetDoneRead(r)
    BY <1>1, <1>5, EarlierSteps DEF Next, Reader, CommonReader
  <2>2. ImplOK' BY <1>1, <1>5, ImplKept
  <2>3. version' = version BY <1>1, <1>5, EarlierSteps
  <2>4. Keeps BY <1>2, <1>3, <1>4, <2>1
  <2> QED BY <2>2, <2>3, <2>4
<1>6. CASE UNCHANGED earlierVars
  <2>1. ImplOK' BY <1>1, <1>6 DEF earlierVars, vars, moves, ImplOK
  <2>2. [Next]_vars /\ version' = version BY <1>6 DEF earlierVars
  <2>3. Keeps BY <1>2, <2>2
  <2> QED BY <2>1, <2>2, <2>3
<1> QED BY <1>5, <1>6

(* The first message is the blank one, and it is visible.                   *)
BlankFirst ==
  /\ Len(sent) >= 1 /\ sent[1].len = 0 /\ published >= 1

(* A step of the mailbox is one of the mailbox without its first message,   *)
(* or it is about that one and invisible.                                   *)
LEMMA UnblankedStep ==
  ASSUME EInv, BlankFirst, [Mailbox!MailNext]_Mailbox!mailVars
  PROVE  [Unblanked!MailNext]_Unblanked!mailVars /\ BlankFirst'
<1>1. /\ claims \in Nat /\ published \in Nat /\ taken \in Nat
      /\ returned \in Nat /\ returned <= taken /\ taken <= published
      /\ published <= Len(sent) /\ sent \in Seq(Message)
      /\ Len(sent) \in Nat
  BY Numbers DEF EInv, MInv
<1>2. \A r \in Readers : Held(r) \in 0 .. taken
  <2>1. UsersOK /\ \A r \in Readers : ticket[r] \in Nat
    BY Numbers DEF EInv, MInv, PInv, PlaceInv
  <2> QED BY <1>1, <2>1 DEF UsersOK, Keeping, Held
<1>3. Len(sent) >= 1 /\ sent[1].len = 0 /\ published >= 1
  BY DEF BlankFirst
<1>4. /\ Len(Tail(sent)) = Len(sent) - 1
      /\ \A k \in 1 .. Len(sent) - 1 : Tail(sent)[k] = sent[k + 1]
  BY <1>1, <1>3
<1> USE DEF Less
<1>5. ASSUME NEW w \in Writers, NEW n \in 0 .. BlockSize,
             Mailbox!Accept(w, n)
      PROVE  Unblanked!Accept(w, n) /\ BlankFirst'
  <2> DEFINE m == [payload |-> <<w, calls[w] + 1>>, len |-> n]
  <2>1. /\ Len(sent) - returned < BlockCount - 1
        /\ calls' = [calls EXCEPT ![w] = @ + 1]
        /\ sent' = Append(sent, m)
        /\ UNCHANGED <<published, taken, returned, inbox>>
        /\ [r \in Readers |-> Held(r)]' = [r \in Readers |-> Held(r)]
    BY <1>5 DEF Mailbox!Accept
  <2>2. \A r \in Readers : Held(r)' = Held(r) BY <2>1
  <2> HIDE DEF m
  <2>3. Tail(sent') = Append(Tail(sent), m) BY <1>1, <1>3, <2>1
  <2>4. Len(Tail(sent)) - Less(returned) < BlockCount - 1
    <3>1. Less(returned) \in Nat /\ Less(returned) >= returned - 1
      BY <1>1
    <3>2. Len(Tail(sent)) = Len(sent) - 1 BY <1>4
    <3> HIDE DEF Less
    <3> QED BY <1>1, <2>1, <3>1, <3>2
  <2>5. BlankFirst' BY <1>1, <1>3, <2>1 DEF BlankFirst
  <2>6. [r \in Readers |-> Less(Held(r))]' = [r \in Readers |-> Less(Held(r))]
    BY <2>2
  <2> QED BY <2>1, <2>3, <2>4, <2>5, <2>6 DEF Unblanked!Accept, m
<1>6. ASSUME Mailbox!Publish PROVE Unblanked!Publish /\ BlankFirst'
  <2>1. /\ published < Len(sent) /\ published' = published + 1
        /\ UNCHANGED <<sent, calls, taken, returned, inbox>>
        /\ [r \in Readers |-> Held(r)]' = [r \in Readers |-> Held(r)]
    BY <1>6 DEF Mailbox!Publish
  <2>2. \A r \in Readers : Held(r)' = Held(r) BY <2>1
  <2>3. [r \in Readers |-> Less(Held(r))]' = [r \in Readers |-> Less(Held(r))]
    BY <2>2
  <2> QED BY <1>1, <1>3, <1>4, <2>1, <2>3 DEF Unblanked!Publish, BlankFirst
<1>7. ASSUME NEW r \in Readers, Mailbox!Take(r)
      PROVE  /\ Unblanked!Take(r) \/ UNCHANGED Unblanked!mailVars
             /\ BlankFirst'
  <2>1. /\ Held(r) = 0 /\ taken < published /\ taken' = taken + 1
        /\ UNCHANGED <<sent, calls, published, returned, inbox>>
        /\ [q \in Readers |-> Held(q)]'
             = [[q \in Readers |-> Held(q)] EXCEPT ![r] = taken + 1]
    BY <1>7 DEF Mailbox!Take
  <2>2. \A q \in Readers :
          Held(q)' = IF q = r THEN taken + 1 ELSE Held(q)
    BY <2>1
  <2>3. BlankFirst' BY <1>3, <2>1 DEF BlankFirst
  <2>4. CASE taken = 0
    <3>1. [q \in Readers |-> Less(Held(q))]'
            = [q \in Readers |-> Less(Held(q))]
      BY <2>1, <2>2, <2>4
    <3> QED BY <2>1, <2>3, <2>4, <3>1 DEF Unblanked!mailVars
  <2>5. CASE taken # 0
    <3>1. [q \in Readers |-> Less(Held(q))]'
            = [[q \in Readers |-> Less(Held(q))]
                 EXCEPT ![r] = Less(taken) + 1]
      <4>1. Less(taken + 1) = Less(taken) + 1 BY <1>1, <2>5
      <4> QED BY <2>2, <4>1
    <3> QED BY <1>1, <1>3, <2>1, <2>3, <2>5, <3>1 DEF Unblanked!Take
  <2> QED BY <2>4, <2>5
<1>8. ASSUME NEW r \in Readers, Mailbox!Deliver(r)
      PROVE  /\ Unblanked!Deliver(r) \/ UNCHANGED Unblanked!mailVars
             /\ BlankFirst'
  <2>1. /\ Held(r) # 0
        /\ IF sent[Held(r)].len = 0
             THEN UNCHANGED inbox
             ELSE inbox' = [inbox EXCEPT ![r] = Append(@, sent[Held(r)])]
        /\ UNCHANGED <<sent, calls, published, taken, returned>>
        /\ [q \in Readers |-> Held(q)]'
             = [[q \in Readers |-> Held(q)] EXCEPT ![r] = 0]
    BY <1>8 DEF Mailbox!Deliver
  <2>2. \A q \in Readers : Held(q)' = IF q = r THEN 0 ELSE Held(q)
    BY <2>1
  <2>3. BlankFirst' BY <1>3, <2>1 DEF BlankFirst
  <2>4. CASE Held(r) = 1
    <3>1. [q \in Readers |-> Less(Held(q))]'
            = [q \in Readers |-> Less(Held(q))]
      BY <2>2, <2>4
    <3> QED BY <1>3, <2>1, <2>3, <2>4, <3>1 DEF Unblanked!mailVars
  <2>5. CASE Held(r) # 1
    <3>1. [q \in Readers |-> Less(Held(q))]'
            = [[q \in Readers |-> Less(Held(q))] EXCEPT ![r] = 0]
      BY <2>2
    <3>2. Held(r) - 1 \in 1 .. Len(sent) - 1 BY <1>1, <1>2, <2>1, <2>5
    <3>3. Tail(sent)[Less(Held(r))] = sent[Held(r)] /\ Less(Held(r)) # 0
      BY <1>2, <1>4, <2>1, <3>2
    <3> QED BY <2>1, <2>3, <3>1, <3>3 DEF Unblanked!Deliver
  <2> QED BY <2>4, <2>5
<1>9. ASSUME Mailbox!Free
      PROVE  /\ Unblanked!Free \/ UNCHANGED Unblanked!mailVars
             /\ BlankFirst'
  <2>1. /\ returned < taken /\ returned' = returned + 1
        /\ \A r \in Readers : Held(r) # returned + 1
        /\ UNCHANGED <<sent, calls, published, taken, inbox>>
        /\ [r \in Readers |-> Held(r)]' = [r \in Readers |-> Held(r)]
    BY <1>9 DEF Mailbox!Free
  <2>2. \A r \in Readers : Held(r)' = Held(r) BY <2>1
  <2>3. [r \in Readers |-> Less(Held(r))]' = [r \in Readers |-> Less(Held(r))]
    BY <2>2
  <2>4. BlankFirst' BY <1>3, <2>1 DEF BlankFirst
  <2>5. CASE returned = 0
    BY <2>1, <2>3, <2>4, <2>5 DEF Unblanked!mailVars
  <2>6. CASE returned # 0
    <3>1. \A r \in Readers : Less(Held(r)) # Less(returned) + 1
      BY <1>1, <1>2, <2>1, <2>6
    <3> QED BY <1>1, <2>1, <2>3, <2>4, <2>6, <3>1 DEF Unblanked!Free
  <2> QED BY <2>5, <2>6
<1>10. ASSUME UNCHANGED Mailbox!mailVars
       PROVE  UNCHANGED Unblanked!mailVars /\ BlankFirst'
  <2>1. \A r \in Readers : Held(r)' = Held(r)
    <3>1. [r \in Readers |-> Held(r)]' = [r \in Readers |-> Held(r)]
      BY <1>10 DEF Mailbox!mailVars
    <3> QED BY <3>1
  <2> QED BY <1>3, <1>10, <2>1
          DEF Mailbox!mailVars, Unblanked!mailVars, BlankFirst
<1> QED BY <1>5, <1>6, <1>7, <1>8, <1>9, <1>10
        DEF Mailbox!MailNext, Unblanked!MailNext

(* While threads are timely both earlier versions keep everybody in place,  *)
(* with the contents of their blocks.                                       *)
THEOREM EarlierPlaceCorrect == EarlierSpec => []EInv
<1>1. EarlierInit => EInv
  <2>1. ASSUME EarlierInit
        PROVE  Prompt /\ ClearsInTime /\ ImplOK /\ version \in Versions
    BY <2>1 DEF EarlierInit, Prompt, Overtaken, ClearsInTime, ImplOK, Threads
  <2> QED BY <2>1, EarlierPlaceInit DEF EInv, MInv, PInv
<1>2. EInv /\ [EarlierNext /\ EarlierTimely']_earlierVars => EInv'
  <2> SUFFICES ASSUME EInv, [EarlierNext /\ EarlierTimely']_earlierVars
               PROVE  EInv'
    OBVIOUS
  <2>1. (PlaceInv /\ ContentsOK)' /\ ImplOK' /\ version' = version
    BY EarlierKeeps
  <2>2. (Prompt /\ ClearsInTime)'
    <3>1. CASE UNCHANGED earlierVars
      BY <3>1 DEF EInv, MInv, PInv, Prompt, Overtaken, ClearsInTime,
         earlierVars, vars, moves
    <3>2. CASE EarlierTimely' /\ version' = "before"
      BY <3>2 DEF EarlierTimely
    <3>3. CASE EarlierTimely' /\ version' = "impl"
      BY <2>1, <3>3 DEF EarlierTimely, ImplOK, ClearsInTime
    <3>4. version' \in {"before", "impl"} BY <2>1 DEF EInv
    <3> QED BY <3>1, <3>2, <3>3, <3>4
  <2> QED BY <2>1, <2>2 DEF EInv, MInv, PInv
<1> QED BY <1>1, <1>2, PTL DEF EarlierSpec

(* While threads are timely every variable of both versions keeps its type. *)
THEOREM EarlierTypeCorrect == EarlierSpec => []EarlierTypeOK
<1> DEFINE WaitsOK == /\ signal \in Nat /\ avail \in Nat
                      /\ duty \in [Threads -> Duties]
<1>1. EarlierInit => WaitsOK BY DEF EarlierInit, Duties
<1>2. WaitsOK /\ [EarlierNext]_earlierVars => WaitsOK'
  <2> SUFFICES ASSUME WaitsOK, [EarlierNext]_earlierVars PROVE WaitsOK'
    OBVIOUS
  <2>1. ASSUME NEW w \in Writers, EarlierWriter(w) PROVE WaitsOK'
    <3>1. CASE WaitRoom(w)
      BY <3>1 DEF WaitRoom, Woken, TimedOut, Lowered, Owe, Duties
    <3> QED BY <2>1, <3>1 DEF EarlierWriter, Owe, Duties, waits
  <2>2. ASSUME NEW r \in Readers, EarlierReader(r) PROVE WaitsOK'
    <3>1. CASE WaitData(r)
      BY <3>1 DEF WaitData, Woken, TimedOut, Lowered, Owe, Duties
    <3> QED BY <2>2, <3>1 DEF EarlierReader, Owe, Duties, waits
  <2>3. ASSUME NEW t \in Threads, Discharge(t) PROVE WaitsOK'
    BY <2>3 DEF Discharge, GuardSignal, Signal, Count, ResetEvent, Raised,
       Owe, Duties, waits
  <2>4. CASE UNCHANGED earlierVars BY <2>4 DEF earlierVars, waits
  <2> QED BY <2>1, <2>2, <2>3, <2>4 DEF EarlierNext
<1>3. EInv /\ WaitsOK => EarlierTypeOK
  BY DEF EInv, MInv, PInv, PlaceInv, EarlierTypeOK
<1>4. [EarlierNext /\ EarlierTimely']_earlierVars
        => [EarlierNext]_earlierVars
  OBVIOUS
<1> QED BY <1>1, <1>2, <1>3, <1>4, EarlierPlaceCorrect, PTL DEF EarlierSpec

(* While threads are prompt, and those of "before" clear in time, no two    *)
(* of them hold one block.                                                  *)
THEOREM EarlierExclusion == EarlierSpec => []Exclusive
<1>1. EInv => Exclusive BY HolderTickets DEF EInv, MInv, Exclusive
<1> QED BY <1>1, EarlierPlaceCorrect, PTL

(* And callers of both versions see a mailbox: messages in order, each      *)
(* taken by one reader, unmodified, and no space reused before it has been  *)
(* read.  The blank block goes round unseen.                                *)
THEOREM EarlierImplementsCorrect == EarlierSpec => EarlierImplements
<1>1. EarlierInit => BlankFirst
  BY DEF EarlierInit, BlankFirst, BlankMessage
<1>2. EInv /\ BlankFirst /\ [EarlierNext /\ EarlierTimely']_earlierVars
        => BlankFirst' /\ [Unblanked!MailNext]_Unblanked!mailVars
  BY EarlierKeeps, UnblankedStep
<1> QED BY <1>1, <1>2, EarlierInitMaps, EarlierPlaceCorrect, PTL
        DEF EarlierSpec, EarlierImplements, Unblanked!MailSpec

(* What that means to them (module MailboxProofs).                          *)
EarlierMails == INSTANCE MailboxProofs WITH
  Capacity <- BlockCount - 1,
  MaxLen   <- BlockSize,
  sent     <- Tail(sent),
  visible  <- Less(published),
  taken    <- Less(taken),
  freed    <- Less(returned),
  holding  <- [r \in Readers |-> Less(Held(r))]

(* While threads are timely, read() of both versions delivers every message *)
(* that it takes once and unmodified, the blank one never, and the messages *)
(* of each caller of write() in the order of its calls.                     *)
THEOREM EarlierDelivery ==
  EarlierSpec => [](Unblanked!ExactlyOnce /\ Unblanked!WriterOrder)
<1>1. EarlierImplements => EarlierMails!MailSpec
  <2>1. Unblanked!MailInit => EarlierMails!MailInit
    BY DEF Unblanked!MailInit, EarlierMails!MailInit
  <2>2. [Unblanked!MailNext]_(Unblanked!mailVars)
          => [EarlierMails!MailNext]_(EarlierMails!mailVars)
    BY DEF Unblanked!MailNext, EarlierMails!MailNext, Unblanked!mailVars,
       EarlierMails!mailVars, Unblanked!Accept, EarlierMails!Accept,
       Unblanked!Publish, EarlierMails!Publish, Unblanked!Take,
       EarlierMails!Take, Unblanked!Deliver, EarlierMails!Deliver,
       Unblanked!Free, EarlierMails!Free
  <2> QED BY <2>1, <2>2, PTL
          DEF EarlierImplements, Unblanked!MailSpec, EarlierMails!MailSpec
<1>2. EarlierMails!MailSpec
        => [](EarlierMails!ExactlyOnce /\ EarlierMails!WriterOrder)
  BY EarlierMails!MailCorrect
<1>3. EarlierMails!ExactlyOnce => Unblanked!ExactlyOnce
  BY DEF EarlierMails!ExactlyOnce, Unblanked!ExactlyOnce
<1>4. EarlierMails!WriterOrder => Unblanked!WriterOrder
  BY DEF EarlierMails!WriterOrder, Unblanked!WriterOrder
<1> QED BY <1>1, <1>2, <1>3, <1>4, EarlierImplementsCorrect, PTL
=============================================================================
