---------------------------- MODULE RingExclusion ---------------------------
(***************************************************************************)
(* Proof that under the scheduling assumption Prompt no two threads hold   *)
(* one block, for any number of writers and readers, any ring and every    *)
(* outcome of the store buffer.                                            *)
(*                                                                         *)
(* The argument: an index that a compare-and-swap finds unchanged is that   *)
(* of the same move of the cursor, since the thread was not overtaken (the *)
(* Fresh lemmas); so the tickets under which blocks are held are distinct  *)
(* and less than a lap apart, and such tickets name different blocks.      *)
(***************************************************************************)
EXTENDS RingInv, TLAPS

USE RingAssumption DEF RingAssumption
-----------------------------------------------------------------------------
(* Arithmetic of the ring.                                                  *)

(* A remainder is smaller than its divisor.                                 *)
LEMMA DivMod ==
  ASSUME NEW n \in Nat \ {0}, NEW k \in Int
  PROVE  /\ k % n \in 0 .. n - 1
         /\ k \div n \in Int
         /\ k = n * (k \div n) + (k % n)
OBVIOUS

(* Quotient and remainder are unique.                                       *)
LEMMA Uniq ==
  ASSUME NEW q \in Int, NEW p \in Int,
         NEW r \in Blocks, NEW s \in Blocks,
         BlockCount * q + r = BlockCount * p + s
  PROVE  q = p /\ r = s
<1>1. ASSUME NEW x \in Int, NEW y \in Int, NEW u \in Blocks, NEW v \in Blocks,
             BlockCount * x + u = BlockCount * y + v, x < y
      PROVE  FALSE
  <2>1. y - x - 1 \in Nat BY <1>1
  <2>2. BlockCount * (y - x - 1) >= 0 BY <2>1
  <2>3. BlockCount * y = BlockCount * x + BlockCount
                           + BlockCount * (y - x - 1)
    BY <2>1
  <2> QED BY <1>1, <2>2, <2>3 DEF Blocks
<1>2. ~(q < p) BY <1>1
<1>3. ~(p < q) BY <1>1
<1> QED BY <1>2, <1>3 DEF Blocks

(* The block after a block is a block.                                      *)
LEMMA NextBlock == ASSUME NEW b \in Blocks PROVE Next1(b) \in Blocks
BY DEF Next1, Blocks

(* A clamped length fits a block.                                           *)
LEMMA Clamped ==
  ASSUME NEW n \in Nat PROVE Least(n, BlockSize) \in 0 .. BlockSize
BY DEF Least

(* A move number is a whole number of laps and a slot, which is a block.    *)
LEMMA SlotDiv ==
  ASSUME NEW k \in Int
  PROVE  Slot(k) \in Blocks /\ \E q \in Int : k = BlockCount * q + Slot(k)
<1>1. /\ k % BlockCount \in 0 .. BlockCount - 1
      /\ k \div BlockCount \in Int
      /\ k = BlockCount * (k \div BlockCount) + (k % BlockCount)
  BY ONLY DivMod, BlockCount \in Nat \ {0}, k \in Int
<1>2. Slot(k) \in Blocks /\ k = BlockCount * (k \div BlockCount) + Slot(k)
  BY <1>1 DEF Slot, Blocks
<1> QED BY <1>1, <1>2

(* A slot is a block.                                                       *)
LEMMA SlotType == ASSUME NEW k \in Int PROVE Slot(k) \in Blocks
BY SlotDiv

(* Moves that are the same number of blocks into a lap leave the same block.*)
LEMMA SlotIs ==
  ASSUME NEW k \in Int, NEW q \in Int, NEW b \in Blocks,
         k = BlockCount * q + b
  PROVE  Slot(k) = b
<1>1. PICK p \in Int : k = BlockCount * p + Slot(k) BY SlotDiv, k \in Int
<1>2. Slot(k) \in Blocks BY SlotDiv
<1>3. BlockCount * q + b = BlockCount * p + Slot(k) BY <1>1
<1> QED BY ONLY <1>2, <1>3, Uniq

(* block::Next follows the slots: each move of a cursor goes one slot on.   *)
LEMMA SlotNext ==
  ASSUME NEW k \in Nat PROVE Slot(k + 1) = Next1(Slot(k))
<1>1. PICK q \in Int : k = BlockCount * q + Slot(k) BY SlotDiv, k \in Int
<1>2. Slot(k) \in Blocks BY SlotDiv
<1>3. CASE Slot(k) = BlockCount - 1
  <2>1. k + 1 = BlockCount * (q + 1) + 0 BY <1>1, <1>3
  <2>2. 0 \in Blocks /\ q + 1 \in Int /\ k + 1 \in Int BY DEF Blocks
  <2> QED BY <2>1, <2>2, <1>3, SlotIs DEF Next1
<1>4. CASE Slot(k) # BlockCount - 1
  <2>1. k + 1 = BlockCount * q + (Slot(k) + 1) BY <1>1, <1>2 DEF Blocks
  <2>2. Slot(k) + 1 \in Blocks /\ k + 1 \in Int BY <1>2, <1>4 DEF Blocks
  <2>3. Slot(k + 1) = Slot(k) + 1 BY ONLY <2>1, <2>2, SlotIs, q \in Int
  <2> QED BY <2>3, <1>4 DEF Next1
<1> QED BY <1>3, <1>4

(* A move a whole lap later leaves the same block.                          *)
LEMMA SlotLap ==
  ASSUME NEW k \in Nat PROVE Slot(k + BlockCount) = Slot(k)
<1>1. PICK q \in Int : k = BlockCount * q + Slot(k) BY SlotDiv, k \in Int
<1>2. Slot(k) \in Blocks BY SlotDiv
<1>3. k + BlockCount = BlockCount * (q + 1) + Slot(k)
  BY <1>1, <1>2 DEF Blocks
<1>4. q + 1 \in Int /\ k + BlockCount \in Int OBVIOUS
<1> QED BY ONLY <1>2, <1>3, <1>4, SlotIs

(* Within a lap different moves leave different blocks.                     *)
LEMMA SlotInj ==
  ASSUME NEW j \in Nat, NEW k \in Nat, Slot(j) = Slot(k),
         j < k + BlockCount, k < j + BlockCount
  PROVE  j = k
<1>1. ASSUME NEW x \in Nat, NEW y \in Nat, Slot(x) = Slot(y),
             x <= y, y < x + BlockCount
      PROVE  x = y
  <2>1. PICK p \in Int : x = BlockCount * p + Slot(x) BY SlotDiv, x \in Int
  <2>2. PICK q \in Int : y = BlockCount * q + Slot(y) BY SlotDiv, y \in Int
  <2>3. Slot(x) \in Blocks BY SlotDiv
  <2>4. y - x \in Blocks /\ 0 \in Blocks BY <1>1 DEF Blocks
  <2>5. BlockCount * q + 0 = BlockCount * p + (y - x)
    BY <2>1, <2>2, <2>3, <1>1 DEF Blocks
  <2>6. q = p /\ 0 = y - x BY ONLY <2>4, <2>5, Uniq, p \in Int, q \in Int
  <2> QED BY <2>6
<1>2. CASE j <= k BY <1>1, <1>2
<1>3. CASE k <= j BY <1>1, <1>3
<1> QED BY <1>2, <1>3
-----------------------------------------------------------------------------
(* Type correctness.                                                        *)

TypeInd == TypeOK /\ CallsOK

(* What create() leaves in shared memory, and an idle thread, are well typed.*)
LEMMA TypeInit == Init => TypeInd
BY DEF Init, TypeInd, TypeOK, SharedOK, LabelsOK, LocalsOK, HistoryOK,
       CallsOK, Threads, Blocks, WriterLabels, ReaderLabels

(* The cursors, blocks and counter keep their types: an index stays an index. *)
LEMMA SharedNext ==
  ASSUME TypeInd, [Next]_vars
  PROVE  SharedOK'
<1> USE DEF TypeInd, TypeOK, SharedOK, Threads, Goto, cursors, blocks, moves
<1>1. ASSUME NEW w \in Writers, StartWrite(w) \/ LoadWriteStart(w) \/
              CheckRoom(w) \/ AwaitRoom(w) \/ ClaimLost(w) \/
              EarlyLoadWriteEnd(w) \/ LoadWriteEnd(w) \/ PostReturns(w)
      PROVE  SharedOK'
  BY <1>1 DEF StartWrite, LoadWriteStart, CheckRoom, AwaitRoom, ClaimLost,
     EarlyLoadWriteEnd, LoadWriteEnd, PostReturns
<1>2. ASSUME NEW w \in Writers, ClaimBlock(w) PROVE SharedOK'
  BY <1>2, NextBlock DEF ClaimBlock
<1>3. ASSUME NEW w \in Writers, Fill(w) PROVE SharedOK'
  <2>1. <<w, calls[w]>> \in Payload
    BY <1>3 DEF Fill, Payload, CallsOK, LabelsOK, HistoryOK
  <2> QED BY <1>3, <2>1 DEF Fill, LocalsOK
<1>4. ASSUME NEW w \in Writers, SetDoneWrite(w) PROVE SharedOK'
  BY <1>4 DEF SetDoneWrite
<1>5. ASSUME NEW w \in Writers, ConsumeDoneWrite(w) PROVE SharedOK'
  BY <1>5 DEF ConsumeDoneWrite
<1>6. ASSUME NEW w \in Writers, MoveWriteEnd(w) PROVE SharedOK'
  BY <1>6, NextBlock DEF MoveWriteEnd
<1>7. ASSUME NEW w \in Writers, IncrementCount(w) PROVE SharedOK'
  BY <1>7, DivMod DEF IncrementCount
<1>8. ASSUME NEW r \in Readers, StartRead(r) \/ LoadReadStart(r) \/
              CheckAvail(r) \/ AwaitData(r) \/ TakeLost(r) \/ ReadAmount(r)
              \/ Copy(r) \/ EarlyLoadReadEnd(r) \/ LoadReadEnd(r) \/
              ReturnReturns(r)
      PROVE  SharedOK'
  BY <1>8 DEF StartRead, LoadReadStart, CheckAvail, AwaitData, TakeLost,
     ReadAmount, Copy, EarlyLoadReadEnd, LoadReadEnd, ReturnReturns
<1>9. ASSUME NEW r \in Readers, TakeBlock(r) PROVE SharedOK'
  BY <1>9, NextBlock DEF TakeBlock
<1>10. ASSUME NEW r \in Readers, SetDoneRead(r) PROVE SharedOK'
  BY <1>10 DEF SetDoneRead
<1>11. ASSUME NEW r \in Readers, ClearAmount(r) PROVE SharedOK'
  BY <1>11 DEF ClearAmount, LocalsOK
<1>12. ASSUME NEW r \in Readers, ConsumeDoneRead(r) PROVE SharedOK'
  BY <1>12 DEF ConsumeDoneRead
<1>13. ASSUME NEW r \in Readers, MoveReadEnd(r) PROVE SharedOK'
  BY <1>13, NextBlock DEF MoveReadEnd
<1>14. ASSUME NEW r \in Readers, DecrementCount(r) PROVE SharedOK'
  BY <1>14, DivMod DEF DecrementCount
<1>15. ASSUME UNCHANGED vars PROVE SharedOK'
  BY <1>15 DEF vars
<1> QED
  BY <1>1, <1>2, <1>3, <1>4, <1>5, <1>6, <1>7, <1>8, <1>9, <1>10, <1>11,
     <1>12, <1>13, <1>14, <1>15 DEF Next, Writer, Reader

(* No step leaves the program of its thread, nor claims beyond the bound.   *)
LEMMA LabelsNext ==
  ASSUME TypeInd, [Next]_vars
  PROVE  (LabelsOK /\ CallsOK)'
<1> USE DEF TypeInd, TypeOK, LabelsOK, CallsOK, WriterLabels, ReaderLabels,
        Threads, Goto, cursors, blocks, moves
<1>1. ASSUME NEW w \in Writers, StartWrite(w) PROVE (LabelsOK /\ CallsOK)'
  BY <1>1 DEF StartWrite
<1>2. ASSUME NEW w \in Writers, LoadWriteStart(w) PROVE (LabelsOK /\ CallsOK)'
  BY <1>2 DEF LoadWriteStart
<1>3. ASSUME NEW w \in Writers, CheckRoom(w) PROVE (LabelsOK /\ CallsOK)'
  BY <1>3 DEF CheckRoom
<1>4. ASSUME NEW w \in Writers, AwaitRoom(w) PROVE (LabelsOK /\ CallsOK)'
  BY <1>4 DEF AwaitRoom
<1>5. ASSUME NEW w \in Writers, ClaimBlock(w) PROVE (LabelsOK /\ CallsOK)'
  <2>1. LabelsOK' BY <1>5 DEF ClaimBlock
  <2>2. calls[w] + 1 >= 1 BY DEF HistoryOK
  <2>3. CallsOK' BY <1>5, <2>2 DEF ClaimBlock, HistoryOK
  <2> QED BY <2>1, <2>3
<1>6. ASSUME NEW w \in Writers, ClaimLost(w) PROVE (LabelsOK /\ CallsOK)'
  BY <1>6 DEF ClaimLost
<1>7. ASSUME NEW w \in Writers, Fill(w) PROVE (LabelsOK /\ CallsOK)'
  BY <1>7 DEF Fill
<1>8. ASSUME NEW w \in Writers, SetDoneWrite(w) PROVE (LabelsOK /\ CallsOK)'
  BY <1>8 DEF SetDoneWrite
<1>9. ASSUME NEW w \in Writers, EarlyLoadWriteEnd(w)
      PROVE (LabelsOK /\ CallsOK)'
  BY <1>9 DEF EarlyLoadWriteEnd
<1>10. ASSUME NEW w \in Writers, LoadWriteEnd(w) PROVE (LabelsOK /\ CallsOK)'
  BY <1>10 DEF LoadWriteEnd
<1>11. ASSUME NEW w \in Writers, ConsumeDoneWrite(w)
      PROVE (LabelsOK /\ CallsOK)'
  BY <1>11 DEF ConsumeDoneWrite
<1>12. ASSUME NEW w \in Writers, PostReturns(w) PROVE (LabelsOK /\ CallsOK)'
  BY <1>12 DEF PostReturns
<1>13. ASSUME NEW w \in Writers, MoveWriteEnd(w) PROVE (LabelsOK /\ CallsOK)'
  BY <1>13 DEF MoveWriteEnd
<1>14. ASSUME NEW w \in Writers, IncrementCount(w) PROVE (LabelsOK /\ CallsOK)'
  BY <1>14 DEF IncrementCount
<1>15. ASSUME NEW r \in Readers, StartRead(r) PROVE (LabelsOK /\ CallsOK)'
  BY <1>15 DEF StartRead
<1>16. ASSUME NEW r \in Readers, LoadReadStart(r) PROVE (LabelsOK /\ CallsOK)'
  BY <1>16 DEF LoadReadStart
<1>17. ASSUME NEW r \in Readers, CheckAvail(r) PROVE (LabelsOK /\ CallsOK)'
  BY <1>17 DEF CheckAvail
<1>18. ASSUME NEW r \in Readers, AwaitData(r) PROVE (LabelsOK /\ CallsOK)'
  BY <1>18 DEF AwaitData
<1>19. ASSUME NEW r \in Readers, TakeBlock(r) PROVE (LabelsOK /\ CallsOK)'
  BY <1>19 DEF TakeBlock
<1>20. ASSUME NEW r \in Readers, TakeLost(r) PROVE (LabelsOK /\ CallsOK)'
  BY <1>20 DEF TakeLost
<1>21. ASSUME NEW r \in Readers, ReadAmount(r) PROVE (LabelsOK /\ CallsOK)'
  BY <1>21 DEF ReadAmount
<1>22. ASSUME NEW r \in Readers, Copy(r) PROVE (LabelsOK /\ CallsOK)'
  BY <1>22 DEF Copy
<1>23. ASSUME NEW r \in Readers, SetDoneRead(r) PROVE (LabelsOK /\ CallsOK)'
  BY <1>23 DEF SetDoneRead
<1>24. ASSUME NEW r \in Readers, ClearAmount(r) PROVE (LabelsOK /\ CallsOK)'
  BY <1>24 DEF ClearAmount
<1>25. ASSUME NEW r \in Readers, EarlyLoadReadEnd(r)
      PROVE (LabelsOK /\ CallsOK)'
  BY <1>25 DEF EarlyLoadReadEnd
<1>26. ASSUME NEW r \in Readers, LoadReadEnd(r) PROVE (LabelsOK /\ CallsOK)'
  BY <1>26 DEF LoadReadEnd
<1>27. ASSUME NEW r \in Readers, ConsumeDoneRead(r) PROVE (LabelsOK /\ CallsOK)'
  BY <1>27 DEF ConsumeDoneRead
<1>28. ASSUME NEW r \in Readers, ReturnReturns(r) PROVE (LabelsOK /\ CallsOK)'
  BY <1>28 DEF ReturnReturns
<1>29. ASSUME NEW r \in Readers, MoveReadEnd(r) PROVE (LabelsOK /\ CallsOK)'
  BY <1>29 DEF MoveReadEnd
<1>30. ASSUME NEW r \in Readers, DecrementCount(r) PROVE (LabelsOK /\ CallsOK)'
  BY <1>30 DEF DecrementCount
<1>31. ASSUME UNCHANGED vars PROVE (LabelsOK /\ CallsOK)'
  BY <1>31 DEF vars
<1> QED
  BY <1>1, <1>2, <1>3, <1>4, <1>5, <1>6, <1>7, <1>8, <1>9, <1>10, <1>11,
     <1>12, <1>13, <1>14, <1>15, <1>16, <1>17, <1>18, <1>19, <1>20, <1>21,
     <1>22, <1>23, <1>24, <1>25, <1>26, <1>27, <1>28, <1>29, <1>30, <1>31
     DEF Next, Writer, Reader

(* What a call remembers keeps its type.                                    *)
LEMMA LocalsNext ==
  ASSUME TypeInd, [Next]_vars
  PROVE  LocalsOK'
<1> USE DEF TypeInd, TypeOK, LocalsOK, Threads, Goto, cursors, blocks, moves
<1>1. ASSUME NEW w \in Writers, CheckRoom(w) \/ AwaitRoom(w) \/ ClaimLost(w)
              \/ Fill(w) \/ ConsumeDoneWrite(w) \/ PostReturns(w) \/
              MoveWriteEnd(w) \/ IncrementCount(w)
      PROVE  LocalsOK'
  BY <1>1 DEF CheckRoom, AwaitRoom, ClaimLost, Fill, ConsumeDoneWrite,
     PostReturns, MoveWriteEnd, IncrementCount
<1>2. ASSUME NEW w \in Writers, StartWrite(w) PROVE LocalsOK'
  BY <1>2, Clamped DEF StartWrite
<1>3. ASSUME NEW w \in Writers, LoadWriteStart(w) PROVE LocalsOK'
  BY <1>3 DEF LoadWriteStart, SharedOK
<1>4. ASSUME NEW w \in Writers, ClaimBlock(w) PROVE LocalsOK'
  BY <1>4 DEF ClaimBlock
<1>5. ASSUME NEW w \in Writers, SetDoneWrite(w) PROVE LocalsOK'
  BY <1>5 DEF SetDoneWrite
<1>6. ASSUME NEW w \in Writers, EarlyLoadWriteEnd(w) PROVE LocalsOK'
  BY <1>6 DEF EarlyLoadWriteEnd, SharedOK
<1>7. ASSUME NEW w \in Writers, LoadWriteEnd(w) PROVE LocalsOK'
  BY <1>7 DEF LoadWriteEnd, SharedOK
<1>8. ASSUME NEW r \in Readers, StartRead(r) \/ CheckAvail(r) \/
              AwaitData(r) \/ TakeLost(r) \/ Copy(r) \/ SetDoneRead(r) \/
              ConsumeDoneRead(r) \/ ReturnReturns(r) \/ MoveReadEnd(r) \/
              DecrementCount(r)
      PROVE  LocalsOK'
  BY <1>8 DEF StartRead, CheckAvail, AwaitData, TakeLost, Copy, SetDoneRead,
     ConsumeDoneRead, ReturnReturns, MoveReadEnd, DecrementCount
<1>9. ASSUME NEW r \in Readers, LoadReadStart(r) PROVE LocalsOK'
  BY <1>9 DEF LoadReadStart, SharedOK
<1>10. ASSUME NEW r \in Readers, TakeBlock(r) PROVE LocalsOK'
  BY <1>10 DEF TakeBlock
<1>11. ASSUME NEW r \in Readers, ReadAmount(r) PROVE LocalsOK'
  BY <1>11 DEF ReadAmount, SharedOK
<1>12. ASSUME NEW r \in Readers, ClearAmount(r) PROVE LocalsOK'
  BY <1>12 DEF ClearAmount
<1>13. ASSUME NEW r \in Readers, EarlyLoadReadEnd(r) PROVE LocalsOK'
  BY <1>13 DEF EarlyLoadReadEnd, SharedOK
<1>14. ASSUME NEW r \in Readers, LoadReadEnd(r) PROVE LocalsOK'
  BY <1>14 DEF LoadReadEnd, SharedOK
<1>15. ASSUME UNCHANGED vars PROVE LocalsOK'
  BY <1>15 DEF vars
<1> QED
  BY <1>1, <1>2, <1>3, <1>4, <1>5, <1>6, <1>7, <1>8, <1>9, <1>10, <1>11,
     <1>12, <1>13, <1>14, <1>15 DEF Next, Writer, Reader

(* The history variables keep their types.                                  *)
LEMMA HistoryNext ==
  ASSUME TypeInd, [Next]_vars
  PROVE  HistoryOK'
<1> USE DEF TypeInd, TypeOK, HistoryOK, Threads, Goto, cursors, blocks, moves
<1>1. ASSUME NEW w \in Writers, StartWrite(w) \/ CheckRoom(w) \/
              AwaitRoom(w) \/ ClaimLost(w) \/ Fill(w) \/ SetDoneWrite(w) \/
              ConsumeDoneWrite(w) \/ PostReturns(w) \/ IncrementCount(w)
      PROVE  HistoryOK'
  BY <1>1 DEF StartWrite, CheckRoom, AwaitRoom, ClaimLost, Fill,
     SetDoneWrite, ConsumeDoneWrite, PostReturns, IncrementCount
<1>2. ASSUME NEW w \in Writers, LoadWriteStart(w) PROVE HistoryOK'
  BY <1>2 DEF LoadWriteStart
<1>3. ASSUME NEW w \in Writers, ClaimBlock(w) PROVE HistoryOK'
  <2>1. calls[w] + 1 \in 1 .. MaxWrites BY <1>3 DEF ClaimBlock, CallsOK
  <2>2. [payload |-> <<w, calls[w] + 1>>, len |-> len[w]] \in Message
    BY <1>3, <2>1 DEF ClaimBlock, Message, Payload, LocalsOK
  <2>3. sent' \in Seq(Message) BY <1>3, <2>2 DEF ClaimBlock
  <2>4. calls' \in [Writers -> 0 .. MaxWrites] BY <1>3, <2>1 DEF ClaimBlock
  <2>5. claims' \in Nat BY <1>3 DEF ClaimBlock
  <2>6. ticket' \in [Threads -> Nat] BY <1>3 DEF ClaimBlock
  <2> QED BY <1>3, <2>3, <2>4, <2>5, <2>6 DEF ClaimBlock
<1>4. ASSUME NEW w \in Writers, EarlyLoadWriteEnd(w) PROVE HistoryOK'
  BY <1>4 DEF EarlyLoadWriteEnd
<1>5. ASSUME NEW w \in Writers, LoadWriteEnd(w) PROVE HistoryOK'
  BY <1>5 DEF LoadWriteEnd
<1>6. ASSUME NEW w \in Writers, MoveWriteEnd(w) PROVE HistoryOK'
  <2>1. published' \in Nat BY <1>6 DEF MoveWriteEnd
  <2> QED BY <1>6, <2>1 DEF MoveWriteEnd
<1>7. ASSUME NEW r \in Readers, StartRead(r) \/ CheckAvail(r) \/
              AwaitData(r) \/ TakeLost(r) \/ ReadAmount(r) \/ SetDoneRead(r)
              \/ ClearAmount(r) \/ ConsumeDoneRead(r) \/ ReturnReturns(r) \/
              DecrementCount(r)
      PROVE  HistoryOK'
  BY <1>7 DEF StartRead, CheckAvail, AwaitData, TakeLost, ReadAmount,
     SetDoneRead, ClearAmount, ConsumeDoneRead, ReturnReturns,
     DecrementCount
<1>8. ASSUME NEW r \in Readers, LoadReadStart(r) PROVE HistoryOK'
  BY <1>8 DEF LoadReadStart
<1>9. ASSUME NEW r \in Readers, TakeBlock(r) PROVE HistoryOK'
  <2>1. taken' \in Nat BY <1>9 DEF TakeBlock
  <2> QED BY <1>9, <2>1 DEF TakeBlock
<1>10. ASSUME NEW r \in Readers, Copy(r) PROVE HistoryOK'
  <2>1. ASSUME NEW n \in {len[r], amount[own[r]]}
        PROVE  [payload |-> data[own[r]], len |-> Least(n, BlockSize)]
                 \in Message
    <3>1. n \in Nat BY <2>1 DEF SharedOK, LocalsOK
    <3>2. Least(n, BlockSize) \in 0 .. BlockSize BY <3>1, Clamped
    <3>3. data[own[r]] \in Payload \cup {Blank} BY DEF SharedOK, LocalsOK
    <3> QED BY <3>2, <3>3 DEF Message
  <2>2. PICK n \in {len[r], amount[own[r]]} :
          inbox' = [inbox EXCEPT ![r] =
                      Append(@, [payload |-> data[own[r]],
                                 len |-> Least(n, BlockSize)])]
    BY <1>10 DEF Copy
  <2>3. inbox' \in [Readers -> Seq(Message)]
    <3> DEFINE m == [payload |-> data[own[r]], len |-> Least(n, BlockSize)]
    <3>1. m \in Message BY <2>1
    <3> HIDE DEF m
    <3>2. Append(inbox[r], m) \in Seq(Message) BY <3>1
    <3>3. inbox' = [inbox EXCEPT ![r] = Append(@, m)] BY <2>2 DEF m
    <3> QED BY <3>2, <3>3
  <2> QED BY <1>10, <2>3 DEF Copy
<1>11. ASSUME NEW r \in Readers, EarlyLoadReadEnd(r) PROVE HistoryOK'
  BY <1>11 DEF EarlyLoadReadEnd
<1>12. ASSUME NEW r \in Readers, LoadReadEnd(r) PROVE HistoryOK'
  BY <1>12 DEF LoadReadEnd
<1>13. ASSUME NEW r \in Readers, MoveReadEnd(r) PROVE HistoryOK'
  <2>1. returned' \in Nat BY <1>13 DEF MoveReadEnd
  <2> QED BY <1>13, <2>1 DEF MoveReadEnd
<1>14. ASSUME UNCHANGED vars PROVE HistoryOK'
  BY <1>14 DEF vars
<1> QED
  BY <1>1, <1>2, <1>3, <1>4, <1>5, <1>6, <1>7, <1>8, <1>9, <1>10, <1>11,
     <1>12, <1>13, <1>14 DEF Next, Writer, Reader

(* Spec keeps every variable in its type.                                   *)
THEOREM TypeCorrect == Spec => []TypeOK
<1>1. TypeInd /\ [Next]_vars => TypeInd'
  BY SharedNext, LabelsNext, LocalsNext, HistoryNext DEF TypeInd, TypeOK
<1>2. TypeInd => TypeOK
  BY DEF TypeInd
<1> QED
  BY TypeInit, <1>1, <1>2, PTL DEF Spec
-----------------------------------------------------------------------------
(* No two threads hold one block.                                           *)

PInv == PlaceInv /\ Prompt

(* Nothing of what thread u remembers changes.                              *)
Same(u) ==
  /\ pc'[u] = pc[u] /\ idx'[u] = idx[u] /\ own'[u] = own[u]
  /\ len'[u] = len[u] /\ early'[u] = early[u]
  /\ ticket'[u] = ticket[u] /\ lap'[u] = lap[u]

(* A step of a writer changes no other thread's memory and no cursor or     *)
(* flag of the readers' side.                                               *)
LEMMA WriterAlone ==
  ASSUME TypeInd, NEW w \in Writers, Writer(w)
  PROVE  /\ \A u \in Threads \ {w} : Same(u)
         /\ UNCHANGED <<readStart, readEnd, doneRead, taken, returned>>
<1> USE DEF TypeInd, TypeOK, LabelsOK, LocalsOK, HistoryOK, Threads, Goto,
            cursors, blocks, moves, Same
<1>1. CASE StartWrite(w) \/ LoadWriteStart(w) \/ CheckRoom(w) \/
          AwaitRoom(w)
  BY <1>1 DEF StartWrite, LoadWriteStart, CheckRoom, AwaitRoom
<1>2. CASE ClaimBlock(w) \/ ClaimLost(w) \/ Fill(w) \/ SetDoneWrite(w)
  BY <1>2 DEF ClaimBlock, ClaimLost, Fill, SetDoneWrite
<1>3. CASE EarlyLoadWriteEnd(w) \/ LoadWriteEnd(w) \/ ConsumeDoneWrite(w) \/
          PostReturns(w)
  BY <1>3 DEF EarlyLoadWriteEnd, LoadWriteEnd, ConsumeDoneWrite, PostReturns
<1>4. CASE MoveWriteEnd(w) \/ IncrementCount(w)
  BY <1>4 DEF MoveWriteEnd, IncrementCount
<1> QED BY <1>1, <1>2, <1>3, <1>4 DEF Writer

(* Likewise a step of a reader.                                             *)
LEMMA ReaderAlone ==
  ASSUME TypeInd, NEW r \in Readers, Reader(r)
  PROVE  /\ \A u \in Threads \ {r} : Same(u)
         /\ UNCHANGED <<writeStart, writeEnd, doneWrite, claims, published,
                        calls, sent>>
<1> USE DEF TypeInd, TypeOK, LabelsOK, LocalsOK, HistoryOK, Threads, Goto,
            cursors, blocks, moves, Same
<1>1. CASE StartRead(r) \/ LoadReadStart(r) \/ CheckAvail(r) \/ AwaitData(r)
  BY <1>1 DEF StartRead, LoadReadStart, CheckAvail, AwaitData
<1>2. CASE TakeBlock(r) \/ TakeLost(r) \/ ReadAmount(r) \/ Copy(r)
  BY <1>2 DEF TakeBlock, TakeLost, ReadAmount, Copy
<1>3. CASE SetDoneRead(r) \/ ClearAmount(r) \/ EarlyLoadReadEnd(r) \/
          LoadReadEnd(r)
  BY <1>3 DEF SetDoneRead, ClearAmount, EarlyLoadReadEnd, LoadReadEnd
<1>4. CASE ConsumeDoneRead(r) \/ ReturnReturns(r) \/ MoveReadEnd(r) \/
          DecrementCount(r)
  BY <1>4 DEF ConsumeDoneRead, ReturnReturns, MoveReadEnd, DecrementCount
<1> QED BY <1>1, <1>2, <1>3, <1>4 DEF Reader
-----------------------------------------------------------------------------
(* Fresh indexes: a compare-and-swap that succeeds compares with an index   *)
(* of the present lap.                                                      *)

(* The room that get_block_write saw is still there when it claims.         *)
LEMMA FreshClaim ==
  ASSUME PInv, NEW w \in Writers, pc[w] = "cas", writeStart = idx[w]
  PROVE  lap[w] = claims /\ claims + 1 < returned + BlockCount
<1>1. idx[w] = Slot(lap[w]) /\ lap[w] <= claims
  BY DEF PInv, PlaceInv, WindowsOK, WindowOK, InWindow, Threads
<1>2. claims < lap[w] + BlockCount
  BY DEF PInv, Prompt, Overtaken, Threads, PlaceInv, TypeOK, HistoryOK
<1>3. lap[w] \in Nat /\ claims \in Nat
  BY DEF PInv, PlaceInv, TypeOK, HistoryOK, Threads
<1>4. Slot(lap[w]) = Slot(claims)
  BY <1>1 DEF PInv, PlaceInv, CursorsOK
<1>5. lap[w] = claims
  BY <1>1, <1>2, <1>3, <1>4, SlotInj
<1> QED BY <1>5 DEF PInv, PlaceInv, WindowsOK, WindowOK, Threads

(* The message that get_block_read saw is still there when it takes.        *)
LEMMA FreshTake ==
  ASSUME PInv, NEW r \in Readers, pc[r] = "grab", readStart = idx[r]
  PROVE  lap[r] = taken /\ taken < published
<1>1. idx[r] = Slot(lap[r]) /\ lap[r] <= taken
  BY DEF PInv, PlaceInv, WindowsOK, WindowOK, InWindow, Threads
<1>2. taken < lap[r] + BlockCount
  BY DEF PInv, Prompt, Overtaken, Threads, PlaceInv, TypeOK, HistoryOK
<1>3. lap[r] \in Nat /\ claims \in Nat /\ taken \in Nat /\ published \in Nat
  BY DEF PInv, PlaceInv, TypeOK, HistoryOK, Threads
<1>4. Slot(lap[r]) = Slot(taken)
  BY <1>1 DEF PInv, PlaceInv, CursorsOK
<1>5. lap[r] = taken
  BY <1>1, <1>2, <1>3, <1>4, SlotInj
<1> QED BY <1>5 DEF PInv, PlaceInv, WindowsOK, WindowOK, Threads

(* The flag that post_block consumes is that of the block under m_writeEnd. *)
LEMMA FreshConsume ==
  ASSUME PInv, NEW w \in Writers, pc[w] = "consume", doneWrite[idx[w]]
  PROVE  /\ lap[w] = published /\ published < claims
         /\ idx[w] = Slot(published)
<1>1. idx[w] = Slot(lap[w]) /\ lap[w] <= published
  BY DEF PInv, PlaceInv, WindowsOK, WindowOK, InWindow, Threads
<1>2. claims <= lap[w] + BlockCount
  BY DEF PInv, Prompt, Overtaken, Threads, PlaceInv, TypeOK, HistoryOK
<1>3. /\ lap[w] \in Nat /\ claims \in Nat /\ published \in Nat
      /\ idx[w] \in Blocks
  BY DEF PInv, PlaceInv, TypeOK, HistoryOK, LocalsOK, Threads
<1>4. PICK k \in published .. claims - 1 : idx[w] = Slot(k)
  BY <1>3 DEF PInv, PlaceInv, WriteFlagsOK
<1>5. k \in Nat /\ published <= k /\ k < claims BY <1>3
<1>6. lap[w] < k + BlockCount /\ k < lap[w] + BlockCount
  BY <1>1, <1>2, <1>3, <1>5
<1>7. lap[w] = k BY <1>1, <1>3, <1>4, <1>5, <1>6, SlotInj
<1> QED BY <1>1, <1>3, <1>4, <1>5, <1>7

(* The flag that return_block consumes is that of the block under m_readEnd.*)
LEMMA FreshUnmark ==
  ASSUME PInv, NEW r \in Readers, pc[r] = "unmark", doneRead[idx[r]]
  PROVE  /\ lap[r] = returned /\ returned < taken
         /\ idx[r] = Slot(returned)
<1>1. idx[r] = Slot(lap[r]) /\ lap[r] <= returned
  BY DEF PInv, PlaceInv, WindowsOK, WindowOK, InWindow, Threads
<1>2. taken <= lap[r] + BlockCount
  BY DEF PInv, Prompt, Overtaken, Threads, PlaceInv, TypeOK, HistoryOK
<1>3. /\ lap[r] \in Nat /\ claims \in Nat /\ returned \in Nat
      /\ taken \in Nat /\ published \in Nat /\ idx[r] \in Blocks
  BY DEF PInv, PlaceInv, TypeOK, HistoryOK, LocalsOK, Threads
<1>4. PICK k \in returned .. taken - 1 : idx[r] = Slot(k)
  BY <1>3 DEF PInv, PlaceInv, ReadFlagsOK
<1>5. k \in Nat /\ returned <= k /\ k < taken BY <1>3
<1>6. lap[r] < k + BlockCount /\ k < lap[r] + BlockCount
  BY <1>1, <1>2, <1>3, <1>5
<1>7. lap[r] = k BY <1>1, <1>3, <1>4, <1>5, <1>6, SlotInj
<1> QED BY <1>1, <1>3, <1>4, <1>5, <1>7

(* Whoever has consumed a flag finds its cursor where it loaded it.         *)
LEMMA MoverMoves ==
  ASSUME PInv
  PROVE  /\ \A w \in Writers : pc[w] = "move" => writeEnd = idx[w]
         /\ \A r \in Readers : pc[r] = "retire" => readEnd = idx[r]
BY DEF PInv, PlaceInv, CursorsOK, MoversOK, RetirersOK, WindowsOK, WindowOK,
       InWindow, Threads
-----------------------------------------------------------------------------
(* The cursors.                                                             *)

ClaimMove ==
  /\ claims' = claims + 1 /\ claims + 1 < returned + BlockCount
  /\ writeStart' = Next1(writeStart) /\ Len(sent') = Len(sent) + 1
  /\ UNCHANGED <<writeEnd, readStart, readEnd, published, taken, returned>>
PublishMove ==
  /\ published' = published + 1 /\ published < claims
  /\ writeEnd' = Next1(writeEnd)
  /\ UNCHANGED <<writeStart, readStart, readEnd, claims, taken, returned,
                 sent>>
TakeMove ==
  /\ taken' = taken + 1 /\ taken < published
  /\ readStart' = Next1(readStart)
  /\ UNCHANGED <<writeStart, writeEnd, readEnd, claims, published, returned,
                 sent>>
ReturnMove ==
  /\ returned' = returned + 1 /\ returned < taken
  /\ readEnd' = Next1(readEnd)
  /\ UNCHANGED <<writeStart, writeEnd, readStart, claims, published, taken,
                 sent>>
NoMove == UNCHANGED <<cursors, moves, sent>>

(* A step moves at most one cursor, by one block, where there is room.      *)
LEMMA OneMove ==
  ASSUME PInv, Next
  PROVE  ClaimMove \/ PublishMove \/ TakeMove \/ ReturnMove \/ NoMove
<1>1. ASSUME NEW w \in Writers, ClaimBlock(w) PROVE ClaimMove
  <2>1. claims + 1 < returned + BlockCount
    BY <1>1, FreshClaim DEF ClaimBlock
  <2>2. Len(sent') = Len(sent) + 1
    BY <1>1 DEF ClaimBlock, PInv, PlaceInv, TypeOK, HistoryOK
  <2> QED BY <1>1, <2>1, <2>2 DEF ClaimBlock, ClaimMove
<1>2. ASSUME NEW w \in Writers, MoveWriteEnd(w) PROVE PublishMove
  <2>1. writeEnd = idx[w] BY <1>2, MoverMoves DEF MoveWriteEnd
  <2>2. published < claims
    BY <1>2 DEF MoveWriteEnd, PInv, PlaceInv, MoversOK
  <2> QED BY <1>2, <2>1, <2>2 DEF MoveWriteEnd, PublishMove
<1>3. ASSUME NEW r \in Readers, TakeBlock(r) PROVE TakeMove
  <2>1. taken < published BY <1>3, FreshTake DEF TakeBlock
  <2> QED BY <1>3, <2>1 DEF TakeBlock, TakeMove
<1>4. ASSUME NEW r \in Readers, MoveReadEnd(r) PROVE ReturnMove
  <2>1. readEnd = idx[r] BY <1>4, MoverMoves DEF MoveReadEnd
  <2>2. returned < taken
    BY <1>4 DEF MoveReadEnd, PInv, PlaceInv, RetirersOK
  <2> QED BY <1>4, <2>1, <2>2 DEF MoveReadEnd, ReturnMove
<1>5. ASSUME NEW w \in Writers, StartWrite(w) \/ LoadWriteStart(w) \/
              CheckRoom(w) \/ AwaitRoom(w) \/ ClaimLost(w) \/ Fill(w) \/
              SetDoneWrite(w) \/ EarlyLoadWriteEnd(w) \/ LoadWriteEnd(w) \/
              ConsumeDoneWrite(w) \/ PostReturns(w) \/ IncrementCount(w)
      PROVE  NoMove
  BY <1>5 DEF NoMove, cursors, moves, StartWrite, LoadWriteStart, CheckRoom,
     AwaitRoom, ClaimLost, Fill, SetDoneWrite, EarlyLoadWriteEnd,
     LoadWriteEnd, ConsumeDoneWrite, PostReturns, IncrementCount
<1>6. ASSUME NEW r \in Readers, StartRead(r) \/ LoadReadStart(r) \/
              CheckAvail(r) \/ AwaitData(r) \/ TakeLost(r) \/ ReadAmount(r)
              \/ Copy(r) \/ SetDoneRead(r) \/ ClearAmount(r) \/
              EarlyLoadReadEnd(r) \/ LoadReadEnd(r) \/ ConsumeDoneRead(r) \/
              ReturnReturns(r) \/ DecrementCount(r)
      PROVE  NoMove
  BY <1>6 DEF NoMove, cursors, moves, StartRead, LoadReadStart, CheckAvail,
     AwaitData, TakeLost, ReadAmount, Copy, SetDoneRead, ClearAmount,
     EarlyLoadReadEnd, LoadReadEnd, ConsumeDoneRead, ReturnReturns,
     DecrementCount
<1> QED
  BY <1>1, <1>2, <1>3, <1>4, <1>5, <1>6 DEF Next, Writer, Reader

(* Numbers of moves never decrease, and the room for a claim never shrinks  *)
(* without one.                                                             *)
LEMMA MovesForward ==
  ASSUME PInv, Next
  PROVE  /\ claims' >= claims /\ published' >= published
         /\ taken' >= taken /\ returned' >= returned
         /\ claims' \in Nat /\ published' \in Nat
         /\ taken' \in Nat /\ returned' \in Nat
<1>1. claims \in Nat /\ published \in Nat /\ taken \in Nat /\ returned \in Nat
  BY DEF PInv, PlaceInv, TypeOK, HistoryOK
<1> QED
  BY <1>1, OneMove DEF ClaimMove, PublishMove, TakeMove, ReturnMove, NoMove,
     moves

(* The cursors stay where their numbers of moves put them.                  *)
LEMMA CursorsNext ==
  ASSUME PInv, Next PROVE CursorsOK'
<1> USE DEF CursorsOK
<1>1. CursorsOK /\ claims \in Nat /\ published \in Nat /\ taken \in Nat
        /\ returned \in Nat
  BY DEF PInv, PlaceInv, TypeOK, HistoryOK
<1>2. CASE ClaimMove
  <2>1. writeStart' = Slot(claims + 1) BY <1>1, <1>2, SlotNext DEF ClaimMove
  <2> QED BY <1>1, <1>2, <2>1 DEF ClaimMove, Slot
<1>3. CASE PublishMove
  <2>1. writeEnd' = Slot(published + 1)
    BY <1>1, <1>3, SlotNext DEF PublishMove
  <2> QED BY <1>1, <1>3, <2>1 DEF PublishMove, Slot
<1>4. CASE TakeMove
  <2>1. readStart' = Slot(taken + 1) BY <1>1, <1>4, SlotNext DEF TakeMove
  <2> QED BY <1>1, <1>4, <2>1 DEF TakeMove, Slot
<1>5. CASE ReturnMove
  <2>1. readEnd' = Slot(returned + 1) BY <1>1, <1>5, SlotNext DEF ReturnMove
  <2> QED BY <1>1, <1>5, <2>1 DEF ReturnMove, Slot
<1>6. CASE NoMove
  BY <1>1, <1>6 DEF NoMove, cursors, moves, Slot
<1> QED BY <1>2, <1>3, <1>4, <1>5, <1>6, OneMove
-----------------------------------------------------------------------------
(* The windows.                                                             *)

(* What holds of a thread's index still holds when others move the cursors: *)
(* an index that was the cursor's value is then out of date.                *)
LEMMA WindowKept ==
  ASSUME PInv, Next, NEW u \in Threads, Same(u)
  PROVE  WindowOK(u)'
<1>1. /\ claims \in Nat /\ published \in Nat /\ taken \in Nat
      /\ returned \in Nat /\ lap[u] \in Nat
  BY DEF PInv, PlaceInv, TypeOK, HistoryOK
<1>2. WindowOK(u)
  BY DEF PInv, PlaceInv, WindowsOK
<1> USE DEF Same, WindowOK, InWindow, Slot
<1>3. CASE ClaimMove BY <1>1, <1>2, <1>3 DEF ClaimMove
<1>4. CASE PublishMove BY <1>1, <1>2, <1>4 DEF PublishMove
<1>5. CASE TakeMove BY <1>1, <1>2, <1>5 DEF TakeMove
<1>6. CASE ReturnMove BY <1>1, <1>2, <1>6 DEF ReturnMove
<1>7. CASE NoMove BY <1>1, <1>2, <1>7 DEF NoMove, moves
<1> QED BY <1>3, <1>4, <1>5, <1>6, <1>7, OneMove

(* What a writer checks about its index holds when it has checked it.       *)
LEMMA WriterWindow ==
  ASSUME PInv, NEW w \in Writers, Writer(w)
  PROVE  WindowOK(w)'
<1>1. /\ claims \in Nat /\ published \in Nat /\ taken \in Nat
      /\ returned \in Nat /\ lap[w] \in Nat /\ w \in Threads
      /\ idx[w] \in Blocks
      /\ pc \in [Threads -> WriterLabels \cup ReaderLabels]
      /\ early \in [Threads -> BOOLEAN]
      /\ idx \in [Threads -> Blocks] /\ lap \in [Threads -> Nat]
  BY DEF PInv, PlaceInv, TypeOK, LabelsOK, HistoryOK, LocalsOK, Threads
<1>2. WindowOK(w) /\ CursorsOK
  BY <1>1 DEF PInv, PlaceInv, WindowsOK
<1> USE DEF WindowOK, InWindow, Goto, cursors, moves, Slot
<1>3. CASE StartWrite(w)
  BY <1>1, <1>2, <1>3 DEF StartWrite
<1>4. CASE LoadWriteStart(w)
  BY <1>1, <1>2, <1>4 DEF LoadWriteStart, CursorsOK
<1>5. CASE CheckRoom(w)
  <2>1. Slot(claims + 1) = Next1(Slot(claims)) BY <1>1, SlotNext
  <2>2. Slot(returned + BlockCount) = Slot(returned) BY <1>1, SlotLap
  <2>3. lap[w] = claims /\ Next1(idx[w]) # readEnd
          => claims + 1 < returned + BlockCount
    <3> HIDE DEF Slot
    <3> QED BY <1>1, <1>2, <1>5, <2>1, <2>2 DEF CheckRoom, CursorsOK
  <2> QED BY <1>1, <1>2, <1>5, <2>3 DEF CheckRoom
<1>6. CASE AwaitRoom(w)
  BY <1>1, <1>2, <1>6 DEF AwaitRoom
<1>7. CASE ClaimBlock(w)
  BY <1>1, <1>2, <1>7 DEF ClaimBlock
<1>8. CASE ClaimLost(w)
  BY <1>1, <1>2, <1>8 DEF ClaimLost
<1>9. CASE Fill(w)
  BY <1>1, <1>2, <1>9 DEF Fill
<1>10. CASE SetDoneWrite(w)
  BY <1>1, <1>2, <1>10 DEF SetDoneWrite
<1>11. CASE EarlyLoadWriteEnd(w)
  BY <1>1, <1>2, <1>11 DEF EarlyLoadWriteEnd, CursorsOK
<1>12. CASE LoadWriteEnd(w)
  BY <1>1, <1>2, <1>12 DEF LoadWriteEnd, CursorsOK
<1>13. CASE ConsumeDoneWrite(w)
  BY <1>1, <1>2, <1>13 DEF ConsumeDoneWrite
<1>14. CASE PostReturns(w)
  BY <1>1, <1>2, <1>14 DEF PostReturns
<1>15. CASE MoveWriteEnd(w)
  BY <1>1, <1>2, <1>15 DEF MoveWriteEnd
<1>16. CASE IncrementCount(w)
  BY <1>1, <1>2, <1>16 DEF IncrementCount
<1> QED BY <1>3, <1>4, <1>5, <1>6, <1>7, <1>8, <1>9, <1>10, <1>11, <1>12,
     <1>13, <1>14, <1>15, <1>16 DEF Writer

(* What a reader checks about its index holds when it has checked it.       *)
LEMMA ReaderWindow ==
  ASSUME PInv, NEW r \in Readers, Reader(r)
  PROVE  WindowOK(r)'
<1>1. /\ claims \in Nat /\ published \in Nat /\ taken \in Nat
      /\ returned \in Nat /\ lap[r] \in Nat /\ r \in Threads
      /\ idx[r] \in Blocks
      /\ pc \in [Threads -> WriterLabels \cup ReaderLabels]
      /\ early \in [Threads -> BOOLEAN]
      /\ idx \in [Threads -> Blocks] /\ lap \in [Threads -> Nat]
  BY DEF PInv, PlaceInv, TypeOK, LabelsOK, HistoryOK, LocalsOK, Threads
<1>2. WindowOK(r) /\ CursorsOK
  BY <1>1 DEF PInv, PlaceInv, WindowsOK
<1> USE DEF WindowOK, InWindow, Goto, cursors, moves, Slot
<1>3. CASE StartRead(r)
  BY <1>1, <1>2, <1>3 DEF StartRead
<1>4. CASE LoadReadStart(r)
  BY <1>1, <1>2, <1>4 DEF LoadReadStart, CursorsOK
<1>5. CASE CheckAvail(r)
  BY <1>1, <1>2, <1>5 DEF CheckAvail, CursorsOK
<1>6. CASE AwaitData(r)
  BY <1>1, <1>2, <1>6 DEF AwaitData
<1>7. CASE TakeBlock(r)
  BY <1>1, <1>2, <1>7 DEF TakeBlock
<1>8. CASE TakeLost(r)
  BY <1>1, <1>2, <1>8 DEF TakeLost
<1>9. CASE ReadAmount(r)
  BY <1>1, <1>2, <1>9 DEF ReadAmount
<1>10. CASE Copy(r)
  BY <1>1, <1>2, <1>10 DEF Copy
<1>11. CASE SetDoneRead(r)
  BY <1>1, <1>2, <1>11 DEF SetDoneRead
<1>12. CASE ClearAmount(r)
  BY <1>1, <1>2, <1>12 DEF ClearAmount
<1>13. CASE EarlyLoadReadEnd(r)
  BY <1>1, <1>2, <1>13 DEF EarlyLoadReadEnd, CursorsOK
<1>14. CASE LoadReadEnd(r)
  BY <1>1, <1>2, <1>14 DEF LoadReadEnd, CursorsOK
<1>15. CASE ConsumeDoneRead(r)
  BY <1>1, <1>2, <1>15 DEF ConsumeDoneRead
<1>16. CASE ReturnReturns(r)
  BY <1>1, <1>2, <1>16 DEF ReturnReturns
<1>17. CASE MoveReadEnd(r)
  BY <1>1, <1>2, <1>17 DEF MoveReadEnd
<1>18. CASE DecrementCount(r)
  BY <1>1, <1>2, <1>18 DEF DecrementCount
<1> QED BY <1>3, <1>4, <1>5, <1>6, <1>7, <1>8, <1>9, <1>10, <1>11, <1>12,
     <1>13, <1>14, <1>15, <1>16, <1>17, <1>18 DEF Reader

(* The two together.                                                        *)
LEMMA WindowsNext ==
  ASSUME PInv, Next PROVE WindowsOK'
<1>1. TypeInd
  BY DEF PInv, PlaceInv, TypeInd
<1>2. ASSUME NEW w \in Writers, Writer(w) PROVE WindowsOK'
  <2>1. WindowOK(w)' BY <1>2, WriterWindow
  <2>2. \A u \in Threads \ {w} : WindowOK(u)'
    BY <1>1, <1>2, WriterAlone, WindowKept
  <2> QED BY <2>1, <2>2 DEF WindowsOK
<1>3. ASSUME NEW r \in Readers, Reader(r) PROVE WindowsOK'
  <2>1. WindowOK(r)' BY <1>3, ReaderWindow
  <2>2. \A u \in Threads \ {r} : WindowOK(u)'
    BY <1>1, <1>3, ReaderAlone, WindowKept
  <2> QED BY <2>1, <2>2 DEF WindowsOK
<1> QED BY <1>2, <1>3 DEF Next
-----------------------------------------------------------------------------
(* The blocks in the hands of writers.                                      *)

(* A step that takes no block, finishes none and moves no end cursor.       *)
QuietWriter(w) ==
  /\ \A u \in Writers \ {w} : Same(u)
  /\ UNCHANGED <<doneWrite, published, claims>>
  /\ own'[w] = own[w] /\ ticket'[w] = ticket[w]
  /\ Filling(w)' => Filling(w)
  /\ pc'[w] # "move" /\ pc[w] # "move"

(* Every other step of a writer is quiet.                                   *)
LEMMA WriterActs ==
  ASSUME TypeInd, NEW w \in Writers, Writer(w)
  PROVE  \/ ClaimBlock(w) \/ SetDoneWrite(w) \/ ConsumeDoneWrite(w)
         \/ MoveWriteEnd(w) \/ QuietWriter(w)
<1>1. w \in Threads /\ pc \in [Threads -> WriterLabels \cup ReaderLabels]
  BY DEF TypeInd, TypeOK, LabelsOK, Threads
<1>2. \A u \in Writers \ {w} : Same(u)
  BY WriterAlone DEF Threads
<1>3. ASSUME StartWrite(w) \/ LoadWriteStart(w) \/ CheckRoom(w) \/
             AwaitRoom(w) \/ ClaimLost(w) \/ Fill(w) \/ EarlyLoadWriteEnd(w)
             \/ LoadWriteEnd(w) \/ PostReturns(w) \/ IncrementCount(w)
      PROVE  QuietWriter(w)
  BY <1>1, <1>2, <1>3 DEF QuietWriter, Filling, Goto, cursors, blocks,
     moves, StartWrite, LoadWriteStart, CheckRoom, AwaitRoom, ClaimLost,
     Fill, EarlyLoadWriteEnd, LoadWriteEnd, PostReturns, IncrementCount
<1> QED BY <1>3 DEF Writer

(* What a reader does leaves the writers' side alone.                       *)
LEMMA ReaderKeepsWriters ==
  ASSUME PInv, NEW r \in Readers, Reader(r)
  PROVE  (FillersOK /\ MoversOK /\ WriteFlagsOK)'
<1>1. FillersOK /\ MoversOK /\ WriteFlagsOK /\ TypeInd
  BY DEF PInv, PlaceInv, TypeInd
<1>2. /\ \A u \in Writers : Same(u)
      /\ UNCHANGED <<doneWrite, claims, published>>
  BY <1>1, ReaderAlone DEF Threads
<1> USE DEF Same, Filling, Slot
<1>3. FillersOK' BY <1>1, <1>2 DEF FillersOK
<1>4. MoversOK' BY <1>1, <1>2 DEF MoversOK
<1>5. WriteFlagsOK' BY <1>1, <1>2 DEF WriteFlagsOK
<1> QED BY <1>3, <1>4, <1>5

(* Tickets of filling writers name different blocks, and none of them is    *)
(* the block of a move that has not been claimed.                           *)
LEMMA FillerSlots ==
  ASSUME PInv, NEW k \in Nat, published <= k, k <= claims
  PROVE  /\ \A w \in Writers :
              Filling(w) /\ own[w] = Slot(k) => ticket[w] = k
         /\ k = claims => ~doneWrite[Slot(k)]
<1>1. /\ claims \in Nat /\ published \in Nat /\ taken \in Nat
      /\ returned \in Nat /\ \A w \in Writers : ticket[w] \in Nat
  BY DEF PInv, PlaceInv, TypeOK, HistoryOK, Threads
<1>2. claims < published + BlockCount
  BY <1>1 DEF PInv, PlaceInv, CursorsOK
<1>3. ASSUME NEW w \in Writers, Filling(w), own[w] = Slot(k)
      PROVE  ticket[w] = k
  <2>1. /\ Slot(ticket[w]) = Slot(k)
        /\ published <= ticket[w] /\ ticket[w] < claims
    BY <1>3 DEF PInv, PlaceInv, FillersOK
  <2> QED BY <1>1, <1>2, <2>1, SlotInj
<1>4. ASSUME k = claims, doneWrite[Slot(k)] PROVE FALSE
  <2>1. PICK j \in published .. claims - 1 : Slot(k) = Slot(j)
    BY <1>1, <1>4, SlotType DEF PInv, PlaceInv, WriteFlagsOK
  <2>2. j \in Nat /\ published <= j /\ j < claims BY <1>1
  <2>3. k < j + BlockCount /\ j < k + BlockCount BY <1>1, <1>2, <1>4, <2>2
  <2>4. j = k BY <2>1, <2>2, <2>3, SlotInj
  <2> QED BY <1>4, <2>2, <2>4
<1> QED BY <1>3, <1>4

(* A writer step keeps the tickets of filling writers apart and in bounds.  *)
LEMMA FillersNext ==
  ASSUME PInv, NEW w \in Writers, Writer(w)
  PROVE  FillersOK'
<1>1. FillersOK /\ MoversOK /\ TypeInd
  BY DEF PInv, PlaceInv, TypeInd
<1>2. /\ claims \in Nat /\ published \in Nat /\ published <= claims
      /\ w \in Threads
      /\ pc \in [Threads -> WriterLabels \cup ReaderLabels]
      /\ own \in [Threads -> Blocks] /\ ticket \in [Threads -> Nat]
      /\ doneWrite \in [Blocks -> BOOLEAN]
      /\ \A v \in Writers : ticket[v] \in Nat /\ own[v] \in Blocks
  BY DEF PInv, PlaceInv, TypeOK, SharedOK, LabelsOK, LocalsOK, HistoryOK,
         CursorsOK, Threads
<1>3. \A u \in Writers \ {w} : Same(u)
  BY <1>1, WriterAlone DEF Threads
<1> USE DEF FillersOK, Filling, Same, Goto, blocks, moves
<1>4. CASE ClaimBlock(w)
  <2>1. idx[w] = Slot(claims)
    BY <1>4 DEF ClaimBlock, PInv, PlaceInv, CursorsOK
  <2>2. ~doneWrite[Slot(claims)] BY <1>2, FillerSlots
  <2>3. /\ own'[w] = Slot(claims) /\ ticket'[w] = claims
        /\ claims' = claims + 1 /\ UNCHANGED <<doneWrite, published>>
    BY <1>2, <1>4, <2>1 DEF ClaimBlock
  <2> QED BY <1>1, <1>2, <1>3, <2>2, <2>3 DEF Slot
<1>5. CASE SetDoneWrite(w)
  <2>1. /\ pc'[w] \notin {"fill", "post"} /\ Filling(w)
        /\ doneWrite' = [doneWrite EXCEPT ![own[w]] = TRUE]
        /\ UNCHANGED <<claims, published>>
    BY <1>2, <1>5 DEF SetDoneWrite
  <2>2. ASSUME NEW v \in Writers \ {w}, Filling(v)
        PROVE  own[v] # own[w]
    BY <1>1, <1>2, <2>1, <2>2, FillerSlots
  <2> QED BY <1>1, <1>2, <1>3, <2>1, <2>2 DEF Slot
<1>6. CASE ConsumeDoneWrite(w)
  <2>1. /\ pc'[w] = "move" /\ idx[w] \in Blocks
        /\ doneWrite' = [doneWrite EXCEPT ![idx[w]] = FALSE]
        /\ UNCHANGED <<claims, published>>
    BY <1>2, <1>6 DEF ConsumeDoneWrite, PInv, PlaceInv, TypeOK, LocalsOK
  <2> QED BY <1>1, <1>2, <1>3, <2>1 DEF Slot
<1>7. CASE MoveWriteEnd(w)
  <2>1. /\ pc[w] = "move" /\ pc'[w] = "advance"
        /\ published' = published + 1
        /\ UNCHANGED <<doneWrite, claims>>
    BY <1>2, <1>7, MoverMoves DEF MoveWriteEnd
  <2>2. \A v \in Writers : Filling(v) => ticket[v] # published
    BY <1>1, <2>1 DEF MoversOK
  <2> QED BY <1>1, <1>2, <1>3, <2>1, <2>2 DEF Slot
<1>8. CASE QuietWriter(w)
  BY <1>1, <1>2, <1>8 DEF QuietWriter, Slot
<1> QED BY <1>1, <1>4, <1>5, <1>6, <1>7, <1>8, WriterActs

(* A writer step keeps the mover alone.                                     *)
LEMMA MoversNext ==
  ASSUME PInv, NEW w \in Writers, Writer(w)
  PROVE  MoversOK'
<1>1. FillersOK /\ MoversOK /\ TypeInd
  BY DEF PInv, PlaceInv, TypeInd
<1>2. /\ claims \in Nat /\ published \in Nat /\ published <= claims
      /\ w \in Threads
      /\ pc \in [Threads -> WriterLabels \cup ReaderLabels]
      /\ own \in [Threads -> Blocks] /\ ticket \in [Threads -> Nat]
      /\ lap \in [Threads -> Nat]
      /\ doneWrite \in [Blocks -> BOOLEAN] /\ Slot(published) \in Blocks
      /\ \A v \in Writers : ticket[v] \in Nat /\ own[v] \in Blocks
  BY SlotType
     DEF PInv, PlaceInv, TypeOK, SharedOK, LabelsOK, LocalsOK, HistoryOK,
         CursorsOK, Threads
<1>3. \A u \in Writers \ {w} : Same(u)
  BY <1>1, WriterAlone DEF Threads
<1> USE DEF MoversOK, Filling, Same, Goto, blocks, moves
<1>4. CASE ClaimBlock(w)
  <2>1. /\ pc'[w] = "fill" /\ ticket'[w] = claims
        /\ claims' = claims + 1 /\ UNCHANGED <<doneWrite, published>>
    BY <1>2, <1>4 DEF ClaimBlock
  <2> QED BY <1>1, <1>2, <1>3, <2>1 DEF Slot
<1>5. CASE SetDoneWrite(w)
  <2>1. /\ pc'[w] \notin {"fill", "post", "move"} /\ Filling(w)
        /\ doneWrite' = [doneWrite EXCEPT ![own[w]] = TRUE]
        /\ UNCHANGED <<claims, published>>
    BY <1>2, <1>5 DEF SetDoneWrite
  <2>2. ticket[w] # published => own[w] # Slot(published)
    BY <1>2, <2>1, FillerSlots
  <2> QED BY <1>1, <1>2, <1>3, <2>1, <2>2 DEF Slot
<1>6. CASE ConsumeDoneWrite(w)
  <2>1. lap[w] = published /\ published < claims /\ idx[w] = Slot(published)
    BY <1>6, FreshConsume DEF ConsumeDoneWrite
  <2>2. /\ pc[w] = "consume" /\ pc'[w] = "move" /\ lap'[w] = lap[w]
        /\ doneWrite[Slot(published)]
        /\ doneWrite' = [doneWrite EXCEPT ![Slot(published)] = FALSE]
        /\ UNCHANGED <<claims, published>>
    BY <1>2, <1>6, <2>1 DEF ConsumeDoneWrite
  <2>3. \A v \in Writers : Filling(v) => ticket[v] # published
    BY <1>1, <2>2 DEF FillersOK
  <2>4. \A v \in Writers : pc[v] # "move"
    BY <1>1, <2>2
  <2> QED BY <1>1, <1>2, <1>3, <2>1, <2>2, <2>3, <2>4 DEF Slot
<1>7. CASE MoveWriteEnd(w)
  <2>1. pc[w] = "move" /\ pc'[w] = "advance"
    BY <1>2, <1>7 DEF MoveWriteEnd
  <2> QED BY <1>1, <1>3, <2>1
<1>8. CASE QuietWriter(w)
  BY <1>1, <1>2, <1>8 DEF QuietWriter, Slot
<1> QED BY <1>1, <1>4, <1>5, <1>6, <1>7, <1>8, WriterActs

(* A writer step raises and leaves flags only on claimed, unpublished blocks.*)
LEMMA WriteFlagsNext ==
  ASSUME PInv, NEW w \in Writers, Writer(w)
  PROVE  WriteFlagsOK'
<1>1. FillersOK /\ MoversOK /\ WriteFlagsOK /\ TypeInd
  BY DEF PInv, PlaceInv, TypeInd
<1>2. /\ claims \in Nat /\ published \in Nat
      /\ doneWrite \in [Blocks -> BOOLEAN] /\ ticket[w] \in Nat
  BY DEF PInv, PlaceInv, TypeOK, SharedOK, HistoryOK, Threads
<1>3. ASSUME claims' \in Nat, published' \in Nat,
             \A b \in Blocks : doneWrite'[b] =>
               \E k \in published' .. claims' - 1 : b = Slot(k)
      PROVE  WriteFlagsOK'
  BY <1>3 DEF WriteFlagsOK, Slot
<1> USE DEF WriteFlagsOK, blocks, moves
<1>4. CASE ClaimBlock(w)
  <2>1. claims' = claims + 1 /\ UNCHANGED <<doneWrite, published>>
    BY <1>4 DEF ClaimBlock
  <2>2. \A k \in published .. claims - 1 : k \in published' .. claims' - 1
    BY <1>2, <2>1
  <2> QED BY <1>1, <1>2, <1>3, <2>1, <2>2
<1>5. CASE SetDoneWrite(w)
  <2>1. /\ own[w] = Slot(ticket[w])
        /\ published <= ticket[w] /\ ticket[w] < claims
    BY <1>1, <1>5 DEF SetDoneWrite, FillersOK, Filling
  <2>2. ticket[w] \in published .. claims - 1 BY <1>2, <2>1
  <2>3. /\ doneWrite' = [doneWrite EXCEPT ![own[w]] = TRUE]
        /\ UNCHANGED <<claims, published>>
    BY <1>5 DEF SetDoneWrite
  <2> QED BY <1>1, <1>2, <1>3, <2>1, <2>2, <2>3
<1>6. CASE ConsumeDoneWrite(w)
  BY <1>1, <1>2, <1>6 DEF ConsumeDoneWrite, Slot
<1>7. CASE MoveWriteEnd(w)
  <2>1. ~doneWrite[Slot(published)]
    BY <1>1, <1>7 DEF MoveWriteEnd, MoversOK
  <2>2. published' = published + 1 /\ UNCHANGED <<doneWrite, claims>>
    BY <1>7, MoverMoves DEF MoveWriteEnd
  <2>3. \A k \in published .. claims - 1 :
          k # published => k \in published' .. claims' - 1
    BY <1>2, <2>2
  <2> QED BY <1>1, <1>2, <1>3, <2>1, <2>2, <2>3
<1>8. CASE QuietWriter(w)
  BY <1>1, <1>2, <1>8 DEF QuietWriter, Slot
<1> QED BY <1>1, <1>4, <1>5, <1>6, <1>7, <1>8, WriterActs
-----------------------------------------------------------------------------
(* The blocks in the hands of readers.                                      *)

(* A step that takes no block, finishes none and moves no end cursor.       *)
QuietReader(r) ==
  /\ \A u \in Readers \ {r} : Same(u)
  /\ UNCHANGED <<doneRead, taken, returned>>
  /\ own'[r] = own[r] /\ ticket'[r] = ticket[r]
  /\ (Using(r)' => Using(r)) /\ (Keeping(r)' => Keeping(r))
  /\ pc'[r] # "retire" /\ pc[r] # "retire"

(* Every other step of a reader is quiet.                                   *)
LEMMA ReaderActs ==
  ASSUME TypeInd, NEW r \in Readers, Reader(r)
  PROVE  \/ TakeBlock(r) \/ SetDoneRead(r) \/ ConsumeDoneRead(r)
         \/ MoveReadEnd(r) \/ QuietReader(r)
<1>1. r \in Threads /\ pc \in [Threads -> WriterLabels \cup ReaderLabels]
  BY DEF TypeInd, TypeOK, LabelsOK, Threads
<1>2. \A u \in Readers \ {r} : Same(u)
  BY ReaderAlone DEF Threads
<1>3. ASSUME StartRead(r) \/ LoadReadStart(r) \/ CheckAvail(r) \/
             AwaitData(r) \/ TakeLost(r) \/ ReadAmount(r) \/ Copy(r) \/
             ClearAmount(r) \/ EarlyLoadReadEnd(r) \/ LoadReadEnd(r) \/
             ReturnReturns(r) \/ DecrementCount(r)
      PROVE  QuietReader(r)
  BY <1>1, <1>2, <1>3 DEF QuietReader, Using, Keeping, Goto, cursors,
     blocks, moves, StartRead, LoadReadStart, CheckAvail, AwaitData,
     TakeLost, ReadAmount, Copy, ClearAmount, EarlyLoadReadEnd, LoadReadEnd,
     ReturnReturns, DecrementCount
<1> QED BY <1>3 DEF Reader

(* What a writer does leaves the readers' side alone.                       *)
LEMMA WriterKeepsReaders ==
  ASSUME PInv, NEW w \in Writers, Writer(w)
  PROVE  (UsersOK /\ RetirersOK /\ ReadFlagsOK)'
<1>1. UsersOK /\ RetirersOK /\ ReadFlagsOK /\ TypeInd
  BY DEF PInv, PlaceInv, TypeInd
<1>2. /\ \A u \in Readers : Same(u)
      /\ UNCHANGED <<doneRead, taken, returned>>
  BY <1>1, WriterAlone DEF Threads
<1> USE DEF Same, Using, Keeping, Slot
<1>3. UsersOK' BY <1>1, <1>2 DEF UsersOK
<1>4. RetirersOK' BY <1>1, <1>2 DEF RetirersOK
<1>5. ReadFlagsOK' BY <1>1, <1>2 DEF ReadFlagsOK
<1> QED BY <1>3, <1>4, <1>5

(* Tickets of using readers name different blocks, and none of them is the  *)
(* block of a move that has not been taken.                                 *)
LEMMA UserSlots ==
  ASSUME PInv, NEW k \in Nat, returned <= k, k <= taken
  PROVE  /\ \A r \in Readers :
              Using(r) /\ own[r] = Slot(k) => ticket[r] = k
         /\ k = taken => ~doneRead[Slot(k)]
<1>1. /\ claims \in Nat /\ published \in Nat /\ taken \in Nat
      /\ returned \in Nat /\ \A r \in Readers : ticket[r] \in Nat
  BY DEF PInv, PlaceInv, TypeOK, HistoryOK, Threads
<1>2. taken < returned + BlockCount
  BY <1>1 DEF PInv, PlaceInv, CursorsOK
<1>3. ASSUME NEW r \in Readers, Using(r), own[r] = Slot(k)
      PROVE  ticket[r] = k
  <2>1. /\ Slot(ticket[r]) = Slot(k)
        /\ returned <= ticket[r] /\ ticket[r] < taken
    BY <1>3 DEF PInv, PlaceInv, UsersOK, Using, Keeping
  <2> QED BY <1>1, <1>2, <2>1, SlotInj
<1>4. ASSUME k = taken, doneRead[Slot(k)] PROVE FALSE
  <2>1. PICK j \in returned .. taken - 1 : Slot(k) = Slot(j)
    BY <1>1, <1>4, SlotType DEF PInv, PlaceInv, ReadFlagsOK
  <2>2. j \in Nat /\ returned <= j /\ j < taken BY <1>1
  <2>3. k < j + BlockCount /\ j < k + BlockCount BY <1>1, <1>2, <1>4, <2>2
  <2>4. j = k BY <2>1, <2>2, <2>3, SlotInj
  <2> QED BY <1>4, <2>2, <2>4
<1> QED BY <1>3, <1>4

(* A reader step keeps the tickets of readers apart and in bounds.          *)
LEMMA UsersNext ==
  ASSUME PInv, NEW r \in Readers, Reader(r)
  PROVE  UsersOK'
<1>1. UsersOK /\ RetirersOK /\ TypeInd
  BY DEF PInv, PlaceInv, TypeInd
<1>2. /\ taken \in Nat /\ returned \in Nat /\ returned <= taken
      /\ r \in Threads
      /\ pc \in [Threads -> WriterLabels \cup ReaderLabels]
      /\ own \in [Threads -> Blocks] /\ ticket \in [Threads -> Nat]
      /\ doneRead \in [Blocks -> BOOLEAN]
      /\ \A q \in Readers : ticket[q] \in Nat /\ own[q] \in Blocks
  BY DEF PInv, PlaceInv, TypeOK, SharedOK, LabelsOK, LocalsOK, HistoryOK,
         CursorsOK, Threads
<1>3. \A u \in Readers \ {r} : Same(u)
  BY <1>1, ReaderAlone DEF Threads
<1> USE DEF UsersOK, Using, Keeping, Same, Goto, blocks, moves
<1>4. CASE TakeBlock(r)
  <2>1. idx[r] = Slot(taken)
    BY <1>4 DEF TakeBlock, PInv, PlaceInv, CursorsOK
  <2>2. ~doneRead[Slot(taken)] BY <1>2, UserSlots
  <2>3. /\ own'[r] = Slot(taken) /\ ticket'[r] = taken
        /\ taken' = taken + 1 /\ UNCHANGED <<doneRead, returned>>
    BY <1>2, <1>4, <2>1 DEF TakeBlock
  <2> QED BY <1>1, <1>2, <1>3, <2>2, <2>3 DEF Slot
<1>5. CASE SetDoneRead(r)
  <2>1. /\ pc'[r] = "clear" /\ pc[r] = "release"
        /\ doneRead' = [doneRead EXCEPT ![own[r]] = TRUE]
        /\ UNCHANGED <<taken, returned, own, ticket>>
    BY <1>2, <1>5 DEF SetDoneRead
  <2>2. ASSUME NEW q \in Readers \ {r}, Using(q)
        PROVE  own[q] # own[r]
    BY <1>1, <1>2, <2>1, <2>2, UserSlots
  <2> QED BY <1>1, <1>2, <1>3, <2>1, <2>2 DEF Slot
<1>6. CASE ConsumeDoneRead(r)
  <2>1. /\ pc'[r] = "retire" /\ idx[r] \in Blocks
        /\ doneRead' = [doneRead EXCEPT ![idx[r]] = FALSE]
        /\ UNCHANGED <<taken, returned>>
    BY <1>2, <1>6 DEF ConsumeDoneRead, PInv, PlaceInv, TypeOK, LocalsOK
  <2> QED BY <1>1, <1>2, <1>3, <2>1 DEF Slot
<1>7. CASE MoveReadEnd(r)
  <2>1. /\ pc[r] = "retire" /\ pc'[r] = "reclaim"
        /\ returned' = returned + 1
        /\ UNCHANGED <<doneRead, taken>>
    BY <1>2, <1>7, MoverMoves DEF MoveReadEnd
  <2>2. \A q \in Readers : Using(q) => ticket[q] # returned
    BY <1>1, <2>1 DEF RetirersOK
  <2> QED BY <1>1, <1>2, <1>3, <2>1, <2>2 DEF Slot
<1>8. CASE QuietReader(r)
  BY <1>1, <1>2, <1>8 DEF QuietReader, Slot
<1> QED BY <1>1, <1>4, <1>5, <1>6, <1>7, <1>8, ReaderActs

(* A reader step keeps the mover of m_readEnd alone.                        *)
LEMMA RetirersNext ==
  ASSUME PInv, NEW r \in Readers, Reader(r)
  PROVE  RetirersOK'
<1>1. UsersOK /\ RetirersOK /\ TypeInd
  BY DEF PInv, PlaceInv, TypeInd
<1>2. /\ taken \in Nat /\ returned \in Nat /\ returned <= taken
      /\ r \in Threads
      /\ pc \in [Threads -> WriterLabels \cup ReaderLabels]
      /\ own \in [Threads -> Blocks] /\ ticket \in [Threads -> Nat]
      /\ lap \in [Threads -> Nat]
      /\ doneRead \in [Blocks -> BOOLEAN] /\ Slot(returned) \in Blocks
      /\ \A q \in Readers : ticket[q] \in Nat /\ own[q] \in Blocks
  BY SlotType
     DEF PInv, PlaceInv, TypeOK, SharedOK, LabelsOK, LocalsOK, HistoryOK,
         CursorsOK, Threads
<1>3. \A u \in Readers \ {r} : Same(u)
  BY <1>1, ReaderAlone DEF Threads
<1> USE DEF RetirersOK, Using, Same, Goto, blocks, moves
<1>4. CASE TakeBlock(r)
  <2>1. /\ pc'[r] = "size" /\ ticket'[r] = taken
        /\ taken' = taken + 1 /\ UNCHANGED <<doneRead, returned>>
    BY <1>2, <1>4 DEF TakeBlock
  <2> QED BY <1>1, <1>2, <1>3, <2>1 DEF Slot
<1>5. CASE SetDoneRead(r)
  <2>1. /\ pc'[r] = "clear" /\ Using(r)
        /\ doneRead' = [doneRead EXCEPT ![own[r]] = TRUE]
        /\ UNCHANGED <<taken, returned>>
    BY <1>2, <1>5 DEF SetDoneRead
  <2>2. ticket[r] # returned => own[r] # Slot(returned)
    BY <1>2, <2>1, UserSlots
  <2> QED BY <1>1, <1>2, <1>3, <2>1, <2>2 DEF Slot
<1>6. CASE ConsumeDoneRead(r)
  <2>1. lap[r] = returned /\ returned < taken /\ idx[r] = Slot(returned)
    BY <1>6, FreshUnmark DEF ConsumeDoneRead
  <2>2. /\ pc[r] = "unmark" /\ pc'[r] = "retire" /\ lap'[r] = lap[r]
        /\ doneRead[Slot(returned)]
        /\ doneRead' = [doneRead EXCEPT ![Slot(returned)] = FALSE]
        /\ UNCHANGED <<taken, returned>>
    BY <1>2, <1>6, <2>1 DEF ConsumeDoneRead
  <2>3. \A q \in Readers : Using(q) => ticket[q] # returned
    BY <1>1, <2>2 DEF UsersOK, Keeping
  <2>4. \A q \in Readers : pc[q] # "retire"
    BY <1>1, <2>2
  <2> QED BY <1>1, <1>2, <1>3, <2>1, <2>2, <2>3, <2>4 DEF Slot
<1>7. CASE MoveReadEnd(r)
  <2>1. pc[r] = "retire" /\ pc'[r] = "reclaim"
    BY <1>2, <1>7 DEF MoveReadEnd
  <2> QED BY <1>1, <1>3, <2>1
<1>8. CASE QuietReader(r)
  BY <1>1, <1>2, <1>8 DEF QuietReader, Slot
<1> QED BY <1>1, <1>4, <1>5, <1>6, <1>7, <1>8, ReaderActs

(* A reader step raises and leaves flags only on taken blocks not yet free. *)
LEMMA ReadFlagsNext ==
  ASSUME PInv, NEW r \in Readers, Reader(r)
  PROVE  ReadFlagsOK'
<1>1. UsersOK /\ RetirersOK /\ ReadFlagsOK /\ TypeInd
  BY DEF PInv, PlaceInv, TypeInd
<1>2. /\ taken \in Nat /\ returned \in Nat
      /\ doneRead \in [Blocks -> BOOLEAN] /\ ticket[r] \in Nat
  BY DEF PInv, PlaceInv, TypeOK, SharedOK, HistoryOK, Threads
<1>3. ASSUME taken' \in Nat, returned' \in Nat,
             \A b \in Blocks : doneRead'[b] =>
               \E k \in returned' .. taken' - 1 : b = Slot(k)
      PROVE  ReadFlagsOK'
  BY <1>3 DEF ReadFlagsOK, Slot
<1> USE DEF ReadFlagsOK, blocks, moves
<1>4. CASE TakeBlock(r)
  <2>1. taken' = taken + 1 /\ UNCHANGED <<doneRead, returned>>
    BY <1>4 DEF TakeBlock
  <2>2. \A k \in returned .. taken - 1 : k \in returned' .. taken' - 1
    BY <1>2, <2>1
  <2> QED BY <1>1, <1>2, <1>3, <2>1, <2>2
<1>5. CASE SetDoneRead(r)
  <2>1. /\ own[r] = Slot(ticket[r])
        /\ returned <= ticket[r] /\ ticket[r] < taken
    BY <1>1, <1>5 DEF SetDoneRead, UsersOK, Using, Keeping
  <2>2. ticket[r] \in returned .. taken - 1 BY <1>2, <2>1
  <2>3. /\ doneRead' = [doneRead EXCEPT ![own[r]] = TRUE]
        /\ UNCHANGED <<taken, returned>>
    BY <1>5 DEF SetDoneRead
  <2> QED BY <1>1, <1>2, <1>3, <2>1, <2>2, <2>3
<1>6. CASE ConsumeDoneRead(r)
  BY <1>1, <1>2, <1>6 DEF ConsumeDoneRead, Slot
<1>7. CASE MoveReadEnd(r)
  <2>1. ~doneRead[Slot(returned)]
    BY <1>1, <1>7 DEF MoveReadEnd, RetirersOK
  <2>2. returned' = returned + 1 /\ UNCHANGED <<doneRead, taken>>
    BY <1>7, MoverMoves DEF MoveReadEnd
  <2>3. \A k \in returned .. taken - 1 :
          k # returned => k \in returned' .. taken' - 1
    BY <1>2, <2>2
  <2> QED BY <1>1, <1>2, <1>3, <2>1, <2>2, <2>3
<1>8. CASE QuietReader(r)
  BY <1>1, <1>2, <1>8 DEF QuietReader, Slot
<1> QED BY <1>1, <1>4, <1>5, <1>6, <1>7, <1>8, ReaderActs
-----------------------------------------------------------------------------
(* The theorems.                                                            *)

(* The ring that create() lays out has everybody in place.                  *)
LEMMA PInit == Init => PlaceInv
<1> SUFFICES ASSUME Init PROVE PlaceInv
  OBVIOUS
<1>1. TypeInd BY TypeInit
<1>2. Slot(0) = 0
  BY SlotIs, 0 \in Int, 0 \in Blocks, 0 = BlockCount * 0 + 0 DEF Blocks
<1>3. CursorsOK BY <1>2 DEF Init, CursorsOK
<1>4. WindowsOK BY DEF Init, WindowsOK, WindowOK, InWindow
<1>5. FillersOK /\ UsersOK
  BY DEF Init, FillersOK, UsersOK, Filling, Using, Keeping, Threads
<1>6. MoversOK /\ RetirersOK BY DEF Init, MoversOK, RetirersOK, Threads
<1>7. WriteFlagsOK /\ ReadFlagsOK BY DEF Init, WriteFlagsOK, ReadFlagsOK
<1> QED BY <1>1, <1>3, <1>4, <1>5, <1>6, <1>7 DEF PlaceInv, TypeInd

(* A step taken from a state in which threads are prompt keeps everybody in  *)
(* place.                                                                   *)
LEMMA PNext == PInv /\ [Next]_vars => PlaceInv'
<1> SUFFICES ASSUME PInv, [Next]_vars PROVE PlaceInv'
  OBVIOUS
<1>1. TypeInd BY DEF PInv, PlaceInv, TypeInd
<1>2. TypeInd'
  BY <1>1, SharedNext, LabelsNext, LocalsNext, HistoryNext DEF TypeInd, TypeOK
<1>3. CASE Next
  <2>1. CursorsOK' /\ WindowsOK' BY <1>3, CursorsNext, WindowsNext
  <2>2. CASE \E w \in Writers : Writer(w)
    BY <1>2, <2>1, <2>2, FillersNext, MoversNext, WriteFlagsNext,
       WriterKeepsReaders DEF PlaceInv, TypeInd
  <2>3. CASE \E r \in Readers : Reader(r)
    BY <1>2, <2>1, <2>3, UsersNext, RetirersNext, ReadFlagsNext,
       ReaderKeepsWriters DEF PlaceInv, TypeInd
  <2> QED BY <1>3, <2>2, <2>3 DEF Next
<1>4. CASE UNCHANGED vars
  <2> USE <1>4 DEF PInv, PlaceInv, vars, cursors, blocks, moves
  <2>1. CursorsOK' BY DEF CursorsOK, Slot
  <2>2. WindowsOK' BY DEF WindowsOK, WindowOK, InWindow, Slot
  <2>3. FillersOK' BY DEF FillersOK, Filling, Slot
  <2>4. UsersOK' BY DEF UsersOK, Using, Keeping, Slot
  <2>5. MoversOK' BY DEF MoversOK, Filling, Slot
  <2>6. RetirersOK' BY DEF RetirersOK, Using, Slot
  <2>7. WriteFlagsOK' BY DEF WriteFlagsOK, Slot
  <2>8. ReadFlagsOK' BY DEF ReadFlagsOK, Slot
  <2> QED
    BY <1>2, <2>1, <2>2, <2>3, <2>4, <2>5, <2>6, <2>7, <2>8 DEF TypeInd
<1> QED BY <1>3, <1>4

(* Threads that hold blocks hold them under distinct tickets, less than a   *)
(* lap apart.                                                               *)
LEMMA HolderTickets ==
  ASSUME PInv, NEW s \in Threads, NEW t \in Threads, s # t,
         Holds(s), Holds(t)
  PROVE  own[s] # own[t]
<1>1. /\ claims \in Nat /\ published \in Nat /\ taken \in Nat
      /\ returned \in Nat /\ taken <= published
      /\ claims < returned + BlockCount /\ published <= claims
      /\ returned <= taken
  BY DEF PInv, PlaceInv, TypeOK, HistoryOK, CursorsOK
<1>2. ASSUME NEW u \in Threads, Holds(u)
      PROVE  /\ own[u] = Slot(ticket[u]) /\ ticket[u] \in Nat
             /\ ticket[u] < claims /\ claims < ticket[u] + BlockCount
  <2>1. ticket[u] \in Nat BY DEF PInv, PlaceInv, TypeOK, HistoryOK
  <2>2. CASE u \in Writers
    <3>1. Filling(u)
      BY <1>2, <2>2
         DEF Holds, Filling, PInv, PlaceInv, TypeOK, LabelsOK, WriterLabels
    <3> QED
      BY <1>1, <2>1, <2>2, <3>1 DEF PInv, PlaceInv, FillersOK
  <2>3. CASE u \in Readers
    <3>1. Keeping(u) /\ Using(u)
      BY <1>2, <2>3
         DEF Holds, Using, Keeping, PInv, PlaceInv, TypeOK, LabelsOK,
             ReaderLabels
    <3>2. own[u] = Slot(ticket[u]) /\ ticket[u] < taken
      BY <2>3, <3>1 DEF PInv, PlaceInv, UsersOK
    <3>3. returned <= ticket[u]
      BY <2>3, <3>1 DEF PInv, PlaceInv, UsersOK
    <3> QED BY <1>1, <2>1, <3>2, <3>3
  <2> QED BY <2>2, <2>3 DEF Threads
<1>3. ticket[s] # ticket[t]
  <2>1. ASSUME NEW w \in Writers, NEW r \in Readers, Holds(w), Holds(r)
        PROVE  ticket[w] # ticket[r]
    <3>1. Filling(w) /\ Keeping(r)
      BY <2>1 DEF Holds, Filling, Keeping, PInv, PlaceInv, TypeOK, LabelsOK,
                  WriterLabels, ReaderLabels
    <3>2. published <= ticket[w] /\ ticket[r] < taken
      BY <3>1 DEF PInv, PlaceInv, FillersOK, UsersOK
    <3>3. ticket[w] \in Nat /\ ticket[r] \in Nat BY <1>2, <2>1 DEF Threads
    <3> QED BY <1>1, <3>2, <3>3
  <2>2. ASSUME NEW v \in Writers, NEW w \in Writers, v # w,
               Holds(v), Holds(w)
        PROVE  ticket[v] # ticket[w]
    BY <2>2 DEF Holds, Filling, PInv, PlaceInv, TypeOK, LabelsOK,
                WriterLabels, FillersOK
  <2>3. ASSUME NEW q \in Readers, NEW r \in Readers, q # r,
               Holds(q), Holds(r)
        PROVE  ticket[q] # ticket[r]
    BY <2>3 DEF Holds, Keeping, PInv, PlaceInv, TypeOK, LabelsOK,
                ReaderLabels, UsersOK
  <2> QED BY <2>1, <2>2, <2>3 DEF Threads
<1>4. /\ own[s] = Slot(ticket[s]) /\ own[t] = Slot(ticket[t])
      /\ ticket[s] \in Nat /\ ticket[t] \in Nat
      /\ ticket[s] < ticket[t] + BlockCount
      /\ ticket[t] < ticket[s] + BlockCount
  <2>1. /\ own[s] = Slot(ticket[s]) /\ ticket[s] \in Nat
        /\ ticket[s] < claims /\ claims < ticket[s] + BlockCount
    BY <1>2
  <2>2. /\ own[t] = Slot(ticket[t]) /\ ticket[t] \in Nat
        /\ ticket[t] < claims /\ claims < ticket[t] + BlockCount
    BY <1>2
  <2> QED BY <1>1, <2>1, <2>2
<1> QED BY <1>3, <1>4, SlotInj

(* While threads are prompt everybody is where PlaceInv says.               *)
THEOREM PlaceCorrect == PromptSpec => []PInv
<1>1. Init => Prompt
  BY DEF Init, Prompt, Overtaken, Threads
<1>2. Prompt /\ [Next /\ Prompt']_vars => Prompt'
  <2>1. ASSUME Prompt, UNCHANGED vars PROVE Prompt'
    BY <2>1 DEF Prompt, Overtaken, vars, cursors, blocks, moves
  <2> QED BY <2>1
<1>3. PInv /\ [Next /\ Prompt']_vars => PInv'
  BY <1>2, PNext DEF PInv
<1> QED
  BY PInit, <1>1, <1>3, PTL DEF PromptSpec, PInv

(* While threads are prompt no two of them hold one block: get_block_write  *)
(* and get_block_read hand out blocks exclusively.                          *)
THEOREM ExclusionCorrect == PromptSpec => []Exclusive
<1>1. PInv => Exclusive
  BY HolderTickets DEF Exclusive
<1> QED BY <1>1, PlaceCorrect, PTL

(* A writer's check of the room is still true when it claims, while threads *)
(* are prompt: it never claims a block of a full ring.                      *)
THEOREM ClaimCorrect == PromptSpec => ClaimHasRoom
<1> DEFINE A == \A w \in Writers :
                  ClaimBlock(w) => Next1(writeStart) # readEnd
<1>1. ASSUME PInv, NEW w \in Writers, ClaimBlock(w)
      PROVE  Next1(writeStart) # readEnd
  <2>1. claims + 1 < returned + BlockCount
    BY <1>1, FreshClaim DEF ClaimBlock
  <2>2. /\ claims \in Nat /\ returned \in Nat /\ returned <= claims
        /\ writeStart = Slot(claims) /\ readEnd = Slot(returned)
    BY <1>1 DEF PInv, PlaceInv, TypeOK, HistoryOK, CursorsOK
  <2>3. Next1(writeStart) = Slot(claims + 1) BY <2>2, SlotNext
  <2>4. CASE Slot(claims + 1) = Slot(returned)
    BY <2>1, <2>2, <2>4, SlotInj, claims + 1 \in Int,
       returned < claims + 1 + BlockCount
  <2> QED BY <2>2, <2>3, <2>4
<1>2. PInv /\ [Next /\ Prompt']_vars => [A]_vars BY <1>1
<1> QED BY <1>2, PlaceCorrect, PTL DEF PromptSpec, ClaimHasRoom
=============================================================================
