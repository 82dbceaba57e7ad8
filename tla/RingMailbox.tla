----------------------------- MODULE RingMailbox ----------------------------
(***************************************************************************)
(* Proof that the ring implements the mailbox while threads are timely:    *)
(* every step of a thread is a step of the mailbox or invisible there.     *)
(*                                                                         *)
(* The cursors are RingExclusion's business.  What is added here is what   *)
(* the blocks hold: from the end of Fill until its reader has copied it, a *)
(* message is in its block unchanged, since nobody else has the block.     *)
(***************************************************************************)
EXTENDS RingExclusion

USE RingAssumption DEF RingAssumption

-----------------------------------------------------------------------------
(* One writer and one reader need no scheduling assumption: only the        *)
(* writer moves m_writeStart and m_writeEnd and only the reader moves the   *)
(* other two, so an index is the cursor's value until its thread uses it,   *)
(* and the block that is checked against cannot be passed.                  *)

Solo == /\ \A v, w \in Writers : v = w
        /\ \A q, r \in Readers : q = r

(* The index of a thread alone on its side is the cursor's value.           *)
WriterSolo(w) ==
  /\ pc[w] \in {"room", "cas"} => lap[w] = claims
  /\ pc[w] = "consume" \/ early[w] => lap[w] = published
ReaderSolo(r) ==
  /\ pc[r] \in {"avail", "grab"} => lap[r] = taken
  /\ pc[r] = "unmark" \/ early[r] => lap[r] = returned
  /\ pc[r] = "clear" => returned <= ticket[r]
SoloInv == /\ \A w \in Writers : WriterSolo(w)
           /\ \A r \in Readers : ReaderSolo(r)

(* So the threads are timely, however long they are suspended.              *)
LEMMA SoloIsTimely ==
  ASSUME PlaceInv, SoloInv PROVE Timely
<1>1. /\ claims \in Nat /\ published \in Nat /\ taken \in Nat
      /\ returned \in Nat /\ returned <= taken /\ taken <= published
      /\ published <= claims /\ claims < returned + BlockCount
      /\ \A t \in Threads : lap[t] \in Nat /\ ticket[t] \in Nat
  BY DEF PlaceInv, TypeOK, HistoryOK, CursorsOK
<1>2. ASSUME NEW w \in Writers PROVE ~Overtaken(w)
  <2>1. pc[w] \in WriterLabels /\ WriterSolo(w)
    BY DEF PlaceInv, TypeOK, LabelsOK, SoloInv
  <2> QED BY <1>1, <2>1 DEF Overtaken, WriterSolo, WriterLabels, Threads
<1>3. ASSUME NEW r \in Readers PROVE ~Overtaken(r)
  <2>1. pc[r] \in ReaderLabels /\ ReaderSolo(r)
    BY DEF PlaceInv, TypeOK, LabelsOK, SoloInv
  <2> QED BY <1>1, <2>1 DEF Overtaken, ReaderSolo, ReaderLabels, Threads
<1>4. ASSUME NEW r \in Readers, pc[r] = "clear"
      PROVE  claims <= ticket[r] + BlockCount
  BY <1>1, <1>4 DEF SoloInv, ReaderSolo, Threads
<1> QED BY <1>2, <1>3, <1>4 DEF Timely, Prompt, ClearsInTime, Threads

(* A step of the writer keeps its index the cursor's value.                 *)
LEMMA WriterSoloNext ==
  ASSUME PInv, SoloInv, NEW w \in Writers, Writer(w)
  PROVE  WriterSolo(w)'
<1>1. /\ w \in Threads /\ pc \in [Threads -> WriterLabels \cup ReaderLabels]
      /\ early \in [Threads -> BOOLEAN] /\ lap \in [Threads -> Nat]
      /\ WriterSolo(w) /\ WindowOK(w)
  BY DEF PInv, PlaceInv, TypeOK, LabelsOK, LocalsOK, HistoryOK, Threads,
         SoloInv, WindowsOK
<1> USE DEF WriterSolo, WindowOK, Goto, moves
<1>2. CASE StartWrite(w) \/ LoadWriteStart(w) \/ CheckRoom(w)
  BY <1>1, <1>2 DEF StartWrite, LoadWriteStart, CheckRoom
<1>3. CASE AwaitRoom(w) \/ ClaimBlock(w) \/ ClaimLost(w)
  BY <1>1, <1>3 DEF AwaitRoom, ClaimBlock, ClaimLost
<1>4. CASE Fill(w) \/ SetDoneWrite(w) \/ EarlyLoadWriteEnd(w)
  BY <1>1, <1>4 DEF Fill, SetDoneWrite, EarlyLoadWriteEnd
<1>5. CASE LoadWriteEnd(w) \/ ConsumeDoneWrite(w) \/ PostReturns(w)
  BY <1>1, <1>5 DEF LoadWriteEnd, ConsumeDoneWrite, PostReturns
<1>6. CASE MoveWriteEnd(w) \/ IncrementCount(w)
  BY <1>1, <1>6 DEF MoveWriteEnd, IncrementCount
<1> QED BY <1>2, <1>3, <1>4, <1>5, <1>6 DEF Writer

(* A step of the reader keeps its index the cursor's value, and its block   *)
(* from being free before it has cleared it.                                *)
LEMMA ReaderSoloNext ==
  ASSUME PInv, SoloInv, NEW r \in Readers, Reader(r)
  PROVE  ReaderSolo(r)'
<1>1. /\ r \in Threads /\ pc \in [Threads -> WriterLabels \cup ReaderLabels]
      /\ early \in [Threads -> BOOLEAN] /\ lap \in [Threads -> Nat]
      /\ ReaderSolo(r) /\ WindowOK(r)
      /\ Using(r) => returned <= ticket[r]
  BY DEF PInv, PlaceInv, TypeOK, LabelsOK, LocalsOK, HistoryOK, Threads,
         SoloInv, WindowsOK, UsersOK
<1> USE DEF ReaderSolo, WindowOK, Using, Goto, moves
<1>2. CASE StartRead(r) \/ LoadReadStart(r) \/ CheckAvail(r)
  BY <1>1, <1>2 DEF StartRead, LoadReadStart, CheckAvail
<1>3. CASE AwaitData(r) \/ TakeBlock(r) \/ TakeLost(r)
  BY <1>1, <1>3 DEF AwaitData, TakeBlock, TakeLost
<1>4. CASE ReadAmount(r) \/ Copy(r) \/ SetDoneRead(r)
  BY <1>1, <1>4 DEF ReadAmount, Copy, SetDoneRead
<1>5. CASE ClearAmount(r) \/ EarlyLoadReadEnd(r) \/ LoadReadEnd(r)
  BY <1>1, <1>5 DEF ClearAmount, EarlyLoadReadEnd, LoadReadEnd
<1>6. CASE ConsumeDoneRead(r) \/ ReturnReturns(r) \/ MoveReadEnd(r)
  BY <1>1, <1>6 DEF ConsumeDoneRead, ReturnReturns, MoveReadEnd
<1>7. CASE DecrementCount(r)
  BY <1>1, <1>7 DEF DecrementCount
<1> QED BY <1>2, <1>3, <1>4, <1>5, <1>6, <1>7 DEF Reader

(* A thread that is alone stays prompt.                                     *)
LEMMA SoloNext ==
  ASSUME Solo, PInv, SoloInv, [Next]_vars PROVE SoloInv'
<1>1. TypeInd BY DEF PInv, PlaceInv, TypeInd
<1> USE DEF SoloInv, WriterSolo, ReaderSolo, Same
<1>2. ASSUME NEW w \in Writers, Writer(w) PROVE SoloInv'
  <2>1. /\ \A r \in Readers : Same(r)
        /\ UNCHANGED <<taken, returned>>
    BY <1>1, <1>2, WriterAlone DEF Threads
  <2>2. \A r \in Readers : ReaderSolo(r)' BY <2>1
  <2>3. WriterSolo(w)' BY <1>2, WriterSoloNext
  <2> QED BY <2>2, <2>3 DEF Solo
<1>3. ASSUME NEW r \in Readers, Reader(r) PROVE SoloInv'
  <2>1. /\ \A w \in Writers : Same(w)
        /\ UNCHANGED <<claims, published>>
    BY <1>1, <1>3, ReaderAlone DEF Threads
  <2>2. \A w \in Writers : WriterSolo(w)' BY <2>1
  <2>3. ReaderSolo(r)' BY <1>3, ReaderSoloNext
  <2> QED BY <2>2, <2>3 DEF Solo
<1>4. ASSUME UNCHANGED vars PROVE SoloInv'
  BY <1>4 DEF vars, moves
<1> QED BY <1>2, <1>3, <1>4 DEF Next

(* One writer and one reader are always timely and never share a block,    *)
(* however they are scheduled: no index of theirs is ever overtaken.        *)
THEOREM SoloCorrect ==
  ASSUME Solo PROVE Spec => [](Timely /\ Exclusive)
<1> DEFINE Inv == PlaceInv /\ SoloInv
<1>1. Init => Inv
  BY PInit DEF Init, SoloInv, WriterSolo, ReaderSolo, Threads
<1>2. Inv /\ [Next]_vars => Inv'
  BY SoloIsTimely, SoloNext, PNext DEF PInv, Timely
<1>3. Inv => Timely /\ Exclusive
  BY SoloIsTimely, HolderTickets DEF PInv, Timely, Exclusive
<1> QED BY <1>1, <1>2, <1>3, PTL DEF Spec

-----------------------------------------------------------------------------
(* What the blocks hold. *)

MInv == PInv /\ ClearsInTime /\ ContentsOK

(* The types that every step below needs.                                   *)
LEMMA Numbers ==
  ASSUME PInv
  PROVE  /\ claims \in Nat /\ published \in Nat /\ taken \in Nat
         /\ returned \in Nat
         /\ returned <= taken /\ taken <= published /\ published <= claims
         /\ claims < returned + BlockCount
         /\ Len(sent) = claims /\ sent \in Seq(Message)
         /\ \A t \in Threads : /\ ticket[t] \in Nat /\ lap[t] \in Nat
                               /\ own[t] \in Blocks /\ idx[t] \in Blocks
                               /\ len[t] \in 0 .. BlockSize
         /\ ticket \in [Threads -> Nat] /\ own \in [Threads -> Blocks]
         /\ len \in [Threads -> 0 .. BlockSize]
         /\ pc \in [Threads -> WriterLabels \cup ReaderLabels]
         /\ doneWrite \in [Blocks -> BOOLEAN]
         /\ amount \in [Blocks -> 0 .. BlockSize]
         /\ data \in [Blocks -> Payload \cup {Blank}]
         /\ Writers \subseteq Threads /\ Readers \subseteq Threads
         /\ \A k \in Nat : Slot(k) \in Blocks
<1>1. \A k \in Nat : Slot(k) \in Blocks BY SlotType
<1>2. TypeOK /\ CursorsOK BY DEF PInv, PlaceInv
<1> QED BY <1>1, <1>2 DEF TypeOK, SharedOK, LabelsOK, LocalsOK, HistoryOK,
           CursorsOK, Threads
-----------------------------------------------------------------------------
(* Settled messages.                                                        *)

(* What settles a message after a step.                                     *)
LEMMA SettledThen ==
  ASSUME NEW k \in Nat, Settled(k)'
  PROVE  \/ \E w \in Writers : pc'[w] = "post" /\ ticket'[w] = k
         \/ published' <= k /\ k < claims' /\ doneWrite'[Slot(k)]
         \/ k = published' /\ \E w \in Writers : pc'[w] = "move"
         \/ taken' <= k /\ k < published'
         \/ \E r \in Readers : pc'[r] \in {"size", "copy"} /\ ticket'[r] = k
BY DEF Settled, Slot

(* A settled message takes up space, and nobody is filling its block.       *)
LEMMA SettledPlace ==
  ASSUME PInv, NEW k \in Nat, Settled(k)
  PROVE  /\ returned <= k /\ k < claims
         /\ \A w \in Writers : pc[w] = "fill" => ticket[w] # k
<1>1. FillersOK /\ UsersOK /\ MoversOK BY DEF PInv, PlaceInv
<1>2. /\ claims \in Nat /\ published \in Nat /\ taken \in Nat
      /\ returned \in Nat /\ returned <= taken /\ taken <= published
      /\ published <= claims
      /\ \A w \in Writers : ticket[w] \in Nat
      /\ \A r \in Readers : ticket[r] \in Nat
  BY Numbers
<1> USE <1>2
<1>3. ASSUME NEW v \in Writers, pc[v] = "post", ticket[v] = k
      PROVE  /\ returned <= k /\ k < claims
             /\ \A w \in Writers : pc[w] = "fill" => ticket[w] # k
  BY <1>1, <1>3 DEF FillersOK, Filling
<1>4. ASSUME published <= k, k < claims, doneWrite[Slot(k)]
      PROVE  \A w \in Writers : pc[w] = "fill" => ticket[w] # k
  BY <1>1, <1>4 DEF FillersOK, Filling
<1>5. ASSUME k = published, NEW v \in Writers, pc[v] = "move"
      PROVE  /\ k < claims
             /\ \A w \in Writers : pc[w] = "fill" => ticket[w] # k
  BY <1>1, <1>5 DEF MoversOK, Filling
<1>6. ASSUME k < published
      PROVE  \A w \in Writers : pc[w] = "fill" => ticket[w] # k
  BY <1>1, <1>6 DEF FillersOK, Filling
<1>7. ASSUME NEW r \in Readers, pc[r] \in {"size", "copy"}, ticket[r] = k
      PROVE  returned <= k /\ k < published
  BY <1>1, <1>7 DEF UsersOK, Using, Keeping
<1> QED BY <1>3, <1>4, <1>5, <1>6, <1>7 DEF Settled

(* A step settles no message but the one it fills.                          *)
LEMMA WriterSettles ==
  ASSUME PInv, NEW w \in Writers, Writer(w), NEW k \in Nat, Settled(k)'
  PROVE  Settled(k) \/ (Fill(w) /\ k = ticket[w])
<1>1. /\ claims \in Nat /\ published \in Nat /\ taken \in Nat
      /\ published <= claims /\ taken <= published
      /\ \A v \in Writers : v \in Threads /\ ticket[v] \in Nat
      /\ w \notin Readers /\ w \in Threads
      /\ pc \in [Threads -> WriterLabels \cup ReaderLabels]
      /\ ticket \in [Threads -> Nat] /\ doneWrite \in [Blocks -> BOOLEAN]
      /\ Slot(k) \in Blocks /\ Slot(published) \in Blocks
  BY Numbers
<1>2. /\ \A v \in Writers \ {w} : pc'[v] = pc[v] /\ ticket'[v] = ticket[v]
      /\ \A q \in Readers : pc'[q] = pc[q] /\ ticket'[q] = ticket[q]
      /\ taken' = taken
  BY <1>1, WriterAlone DEF Same, Threads, TypeInd, PInv, PlaceInv
<1>0. \/ \E v \in Writers : pc'[v] = "post" /\ ticket'[v] = k
      \/ published' <= k /\ k < claims' /\ doneWrite'[Slot(k)]
      \/ k = published' /\ \E v \in Writers : pc'[v] = "move"
      \/ taken' <= k /\ k < published'
      \/ \E q \in Readers : pc'[q] \in {"size", "copy"} /\ ticket'[q] = k
  BY SettledThen
<1> USE <1>1 DEF Settled, Goto
<1>4. CASE ClaimBlock(w)
  <2>1. ~doneWrite[Slot(claims)] BY FillerSlots
  <2>2. /\ claims' = claims + 1 /\ pc'[w] = "fill"
        /\ UNCHANGED <<published, doneWrite>>
    BY <1>4 DEF ClaimBlock, blocks
  <2> QED BY <1>0, <1>2, <2>1, <2>2
<1>5. CASE SetDoneWrite(w)
  <2>1. pc[w] = "post" /\ own[w] = Slot(ticket[w])
    BY <1>5 DEF SetDoneWrite, PInv, PlaceInv, FillersOK, Filling
  <2>2. /\ doneWrite' = [doneWrite EXCEPT ![own[w]] = TRUE]
        /\ pc'[w] \in {"consume", "advance"}
        /\ UNCHANGED <<published, claims>>
    BY <1>5 DEF SetDoneWrite, moves
  <2>3. ASSUME published <= k, k < claims, Slot(k) = own[w]
        PROVE  k = ticket[w]
    <3>1. k <= claims BY <2>3
    <3> QED BY <2>1, <2>3, <3>1, FillerSlots DEF Filling
  <2> QED BY <1>0, <1>2, <2>1, <2>2, <2>3
<1>6. CASE ConsumeDoneWrite(w)
  <2>1. published < claims /\ idx[w] = Slot(published)
    BY <1>6, FreshConsume DEF ConsumeDoneWrite
  <2>2. /\ doneWrite[Slot(published)]
        /\ doneWrite' = [doneWrite EXCEPT ![Slot(published)] = FALSE]
        /\ UNCHANGED <<published, claims>>
    BY <1>6, <2>1 DEF ConsumeDoneWrite, moves
  <2>3. pc'[w] = "move" BY <1>6 DEF ConsumeDoneWrite
  <2> QED BY <1>0, <1>2, <2>1, <2>2, <2>3
<1>7. CASE MoveWriteEnd(w)
  <2>1. pc[w] = "move" /\ \A v \in Writers : pc[v] = "move" => v = w
    BY <1>7 DEF MoveWriteEnd, PInv, PlaceInv, MoversOK
  <2>2. /\ published' = published + 1 /\ pc'[w] = "advance"
        /\ UNCHANGED <<doneWrite, claims>>
    BY <1>7, MoverMoves DEF MoveWriteEnd, blocks
  <2> QED BY <1>0, <1>2, <2>1, <2>2
<1>8. CASE Fill(w)
  <2>1. UNCHANGED <<doneWrite, published, claims, ticket>> /\ pc'[w] = "post"
    BY <1>8 DEF Fill, moves
  <2> QED BY <1>0, <1>2, <1>8, <2>1
<1>9. CASE StartWrite(w) \/ LoadWriteStart(w) \/ CheckRoom(w) \/
           AwaitRoom(w) \/ ClaimLost(w) \/ EarlyLoadWriteEnd(w) \/
           LoadWriteEnd(w) \/ PostReturns(w) \/ IncrementCount(w)
  <2>1. /\ UNCHANGED <<doneWrite, published, claims, ticket>>
        /\ pc'[w] \in {"post", "move"} => pc'[w] = pc[w]
    BY <1>9 DEF StartWrite, LoadWriteStart, CheckRoom, AwaitRoom, ClaimLost,
       EarlyLoadWriteEnd, LoadWriteEnd, PostReturns, IncrementCount, moves,
       blocks
  <2> QED BY <1>0, <1>2, <2>1
<1> QED BY <1>4, <1>5, <1>6, <1>7, <1>8, <1>9 DEF Writer

(* A reader settles no block that was not settled.                          *)
LEMMA ReaderSettles ==
  ASSUME PInv, NEW r \in Readers, Reader(r), NEW k \in Nat, Settled(k)'
  PROVE  Settled(k)
<1>1. /\ claims \in Nat /\ published \in Nat /\ taken \in Nat
      /\ published <= claims /\ taken <= published
      /\ \A v \in Writers : v \in Threads /\ ticket[v] \in Nat
      /\ r \notin Writers /\ r \in Threads
      /\ pc \in [Threads -> WriterLabels \cup ReaderLabels]
      /\ ticket \in [Threads -> Nat] /\ doneWrite \in [Blocks -> BOOLEAN]
      /\ Slot(k) \in Blocks /\ Slot(published) \in Blocks
  BY Numbers
<1>2. /\ \A q \in Readers \ {r} : pc'[q] = pc[q] /\ ticket'[q] = ticket[q]
      /\ \A v \in Writers : pc'[v] = pc[v] /\ ticket'[v] = ticket[v]
      /\ UNCHANGED <<doneWrite, published, claims>>
  BY <1>1, ReaderAlone DEF Same, Threads, TypeInd, PInv, PlaceInv
<1>0. \/ \E v \in Writers : pc'[v] = "post" /\ ticket'[v] = k
      \/ published' <= k /\ k < claims' /\ doneWrite'[Slot(k)]
      \/ k = published' /\ \E v \in Writers : pc'[v] = "move"
      \/ taken' <= k /\ k < published'
      \/ \E q \in Readers : pc'[q] \in {"size", "copy"} /\ ticket'[q] = k
  BY SettledThen
<1> USE <1>1 DEF Settled, Goto
<1>4. CASE TakeBlock(r)
  <2>1. taken < published BY <1>4, FreshTake DEF TakeBlock
  <2>2. taken' = taken + 1 /\ ticket'[r] = taken
    BY <1>4 DEF TakeBlock
  <2> QED BY <1>0, <1>2, <2>1, <2>2
<1>5. CASE StartRead(r) \/ LoadReadStart(r) \/ CheckAvail(r) \/
           AwaitData(r) \/ TakeLost(r) \/ ReadAmount(r) \/ Copy(r) \/
           SetDoneRead(r) \/ ClearAmount(r)
  <2>1. /\ UNCHANGED <<taken, ticket>>
        /\ pc'[r] \in {"size", "copy"} => pc[r] \in {"size", "copy"}
    BY <1>5 DEF StartRead, LoadReadStart, CheckAvail, AwaitData, TakeLost,
       ReadAmount, Copy, SetDoneRead, ClearAmount, moves
  <2> QED BY <1>0, <1>2, <2>1
<1>6. CASE EarlyLoadReadEnd(r) \/ LoadReadEnd(r) \/ ConsumeDoneRead(r) \/
           ReturnReturns(r) \/ MoveReadEnd(r) \/ DecrementCount(r)
  <2>1. /\ UNCHANGED <<taken, ticket>>
        /\ pc'[r] \in {"size", "copy"} => pc[r] \in {"size", "copy"}
    BY <1>6 DEF EarlyLoadReadEnd, LoadReadEnd, ConsumeDoneRead,
       ReturnReturns, MoveReadEnd, DecrementCount, moves
  <2> QED BY <1>0, <1>2, <2>1
<1> QED BY <1>4, <1>5, <1>6 DEF Reader
-----------------------------------------------------------------------------
(* What the blocks hold.                                                    *)

(* Claiming appends to sent; no other step changes it.                      *)
LEMMA SentKept ==
  ASSUME PInv, Next, NEW k \in Nat, k < claims
  PROVE  sent'[k + 1] = sent[k + 1]
<1>1. claims \in Nat /\ Len(sent) = claims /\ sent \in Seq(Message)
  BY Numbers
<1>2. ASSUME NEW w \in Writers, ClaimBlock(w)
      PROVE  sent'[k + 1] = sent[k + 1]
  BY <1>1, <1>2 DEF ClaimBlock
<1>3. CASE sent' = sent BY <1>3
<1>4. sent' = sent \/ \E w \in Writers : ClaimBlock(w)
  <2>1. ASSUME NEW r \in Readers, Reader(r) PROVE sent' = sent
    BY <2>1, ReaderAlone DEF TypeInd, PInv, PlaceInv
  <2>2. ASSUME NEW w \in Writers, Writer(w), ~ClaimBlock(w)
        PROVE  sent' = sent
    BY <2>2 DEF Writer, StartWrite, LoadWriteStart, CheckRoom, AwaitRoom,
       ClaimLost, Fill, SetDoneWrite, EarlyLoadWriteEnd, LoadWriteEnd,
       ConsumeDoneWrite, PostReturns, MoveWriteEnd, IncrementCount
  <2> QED BY <2>1, <2>2 DEF Next
<1> QED BY <1>2, <1>3, <1>4

(* Only Fill and ClearAmount store to the contents of a block.              *)
LEMMA Stores ==
  ASSUME Next
  PROVE  \/ \E w \in Writers : Fill(w)
         \/ \E r \in Readers : ClearAmount(r)
         \/ UNCHANGED <<amount, data>>
<1>1. ASSUME NEW w \in Writers, Writer(w), ~Fill(w)
      PROVE  UNCHANGED <<amount, data>>
  BY <1>1 DEF blocks, Writer, StartWrite, LoadWriteStart, CheckRoom,
     AwaitRoom, ClaimBlock, ClaimLost, SetDoneWrite, EarlyLoadWriteEnd,
     LoadWriteEnd, ConsumeDoneWrite, PostReturns, MoveWriteEnd,
     IncrementCount
<1>2. ASSUME NEW r \in Readers, Reader(r), ~ClearAmount(r)
      PROVE  UNCHANGED <<amount, data>>
  BY <1>2 DEF blocks, Reader, StartRead, LoadReadStart, CheckAvail,
     AwaitData, TakeBlock, TakeLost, ReadAmount, Copy, SetDoneRead,
     EarlyLoadReadEnd, LoadReadEnd, ConsumeDoneRead, ReturnReturns,
     MoveReadEnd, DecrementCount
<1> QED BY <1>1, <1>2 DEF Next

(* Whoever stores to a block does so where no settled message is.           *)
LEMMA StoreElsewhere ==
  ASSUME PInv, ClearsInTime, NEW k \in Nat, Settled(k)
  PROVE  /\ \A w \in Writers : pc[w] = "fill" => own[w] # Slot(k)
         /\ \A r \in Readers : pc[r] = "clear" => own[r] # Slot(k)
<1>1. /\ claims \in Nat /\ published \in Nat /\ taken \in Nat
      /\ returned \in Nat /\ returned <= taken /\ taken <= published
      /\ published <= claims /\ claims < returned + BlockCount
      /\ \A w \in Writers : ticket[w] \in Nat
      /\ \A r \in Readers : ticket[r] \in Nat
  BY Numbers
<1>2. /\ returned <= k /\ k < claims
      /\ \A w \in Writers : pc[w] = "fill" => ticket[w] # k
  BY SettledPlace
<1>3. FillersOK /\ UsersOK BY DEF PInv, PlaceInv
<1>4. ASSUME NEW w \in Writers, pc[w] = "fill", own[w] = Slot(k)
      PROVE  FALSE
  <2>1. /\ Slot(ticket[w]) = Slot(k)
        /\ published <= ticket[w] /\ ticket[w] < claims
    BY <1>3, <1>4 DEF FillersOK, Filling
  <2>2. ticket[w] < k + BlockCount /\ k < ticket[w] + BlockCount
    BY <1>1, <1>2, <2>1
  <2>3. ticket[w] = k BY <1>1, <2>1, <2>2, SlotInj
  <2> QED BY <1>2, <1>4, <2>3
<1>5. ASSUME NEW r \in Readers, pc[r] = "clear", own[r] = Slot(k)
      PROVE  FALSE
  <2>1. Slot(ticket[r]) = Slot(k) /\ ticket[r] < taken
    BY <1>3, <1>5 DEF UsersOK, Keeping
  <2>2. claims <= ticket[r] + BlockCount
    BY <1>5 DEF ClearsInTime
  <2>3. ticket[r] < k + BlockCount /\ k < ticket[r] + BlockCount
    BY <1>1, <1>2, <2>1, <2>2
  <2>4. ticket[r] = k BY <1>1, <2>1, <2>3, SlotInj
  <2>5. k < taken BY <2>1, <2>4
  <2>6. \A w \in Writers : pc[w] = "post" => ticket[w] # k
    BY <1>1, <1>3, <2>5 DEF FillersOK, Filling
  <2>7. PICK q \in Readers : pc[q] \in {"size", "copy"} /\ ticket[q] = k
    BY <1>1, <2>5, <2>6 DEF Settled
  <2> QED BY <1>3, <1>5, <2>4, <2>7 DEF UsersOK, Keeping
<1> QED BY <1>4, <1>5

(* So a settled message stays as it is.                                     *)
LEMMA IntactKept ==
  ASSUME PInv, ClearsInTime, Next, NEW k \in Nat, Settled(k), Intact(k)
  PROVE  Intact(k)'
<1>1. Slot(k) \in Blocks /\ k < claims BY Numbers, SettledPlace
<1>2. sent'[k + 1] = sent[k + 1] BY <1>1, SentKept
<1>3. amount'[Slot(k)] = amount[Slot(k)] /\ data'[Slot(k)] = data[Slot(k)]
  <2>1. /\ amount \in [Blocks -> 0 .. BlockSize]
        /\ data \in [Blocks -> Payload \cup {Blank}]
    BY Numbers
  <2>2. ASSUME NEW w \in Writers, Fill(w)
        PROVE  /\ amount'[Slot(k)] = amount[Slot(k)]
               /\ data'[Slot(k)] = data[Slot(k)]
    BY <1>1, <2>1, <2>2, StoreElsewhere DEF Fill
  <2>3. ASSUME NEW r \in Readers, ClearAmount(r)
        PROVE  /\ amount'[Slot(k)] = amount[Slot(k)]
               /\ data'[Slot(k)] = data[Slot(k)]
    BY <1>1, <2>1, <2>3, StoreElsewhere DEF ClearAmount
  <2> QED BY <2>2, <2>3, Stores
<1> QED BY <1>2, <1>3 DEF Intact, Slot

(* The message that a writer has filled in is there.                        *)
LEMMA FillIntact ==
  ASSUME MInv, NEW w \in Writers, Fill(w)
  PROVE  Intact(ticket[w])'
<1>1. /\ own[w] = Slot(ticket[w]) /\ ticket[w] < claims
      /\ sent[ticket[w] + 1] = [payload |-> <<w, calls[w]>>, len |-> len[w]]
  BY DEF MInv, PInv, PlaceInv, FillersOK, Filling, ContentsOK, Fill
<1>2. /\ own[w] \in Blocks /\ amount \in [Blocks -> 0 .. BlockSize]
      /\ data \in [Blocks -> Payload \cup {Blank}]
  BY Numbers DEF MInv
<1>3. /\ amount'[own[w]] = len[w] /\ data'[own[w]] = <<w, calls[w]>>
      /\ sent' = sent /\ ticket' = ticket
  BY <1>2 DEF Fill
<1> QED BY <1>1, <1>3 DEF Intact, Slot

(* A writer that fills its block has its message in sent.                   *)
LEMMA FillNext ==
  ASSUME MInv, Next, NEW v \in Writers, pc'[v] = "fill"
  PROVE  sent'[ticket'[v] + 1] =
           [payload |-> <<v, calls'[v]>>, len |-> len'[v]]
<1>1. /\ v \in Threads /\ v \notin Readers /\ ticket[v] \in Nat
      /\ claims \in Nat /\ Len(sent) = claims /\ sent \in Seq(Message)
      /\ pc \in [Threads -> WriterLabels \cup ReaderLabels]
      /\ ticket \in [Threads -> Nat]
      /\ calls \in [Writers -> 0 .. MaxWrites]
  BY Numbers DEF MInv, PInv, PlaceInv, TypeOK, HistoryOK
<1>2. CASE ClaimBlock(v)
  BY <1>1, <1>2 DEF ClaimBlock
<1>3. CASE ~ClaimBlock(v)
  <2>1. /\ pc[v] = "fill" /\ ticket'[v] = ticket[v]
        /\ calls'[v] = calls[v] /\ len'[v] = len[v]
    <3>1. ASSUME Writer(v)
          PROVE  /\ pc[v] = "fill" /\ ticket'[v] = ticket[v]
                 /\ calls'[v] = calls[v] /\ len'[v] = len[v]
      BY <1>1, <1>3, <3>1
         DEF Goto, Writer, StartWrite, LoadWriteStart, CheckRoom, AwaitRoom,
         ClaimLost, Fill, SetDoneWrite, EarlyLoadWriteEnd, LoadWriteEnd,
         ConsumeDoneWrite, PostReturns, MoveWriteEnd, IncrementCount
    <3>2. ASSUME NEW w \in Writers \ {v}, Writer(w)
          PROVE  /\ pc'[v] = pc[v] /\ ticket'[v] = ticket[v]
                 /\ calls'[v] = calls[v] /\ len'[v] = len[v]
      <4>1. Same(v)
        BY <1>1, <3>2, WriterAlone DEF TypeInd, MInv, PInv, PlaceInv
      <4>2. calls'[v] = calls[v]
        BY <1>1, <3>2
           DEF Writer, StartWrite, LoadWriteStart, CheckRoom, AwaitRoom,
           ClaimBlock, ClaimLost, Fill, SetDoneWrite, EarlyLoadWriteEnd,
           LoadWriteEnd, ConsumeDoneWrite, PostReturns, MoveWriteEnd,
           IncrementCount
      <4> QED BY <4>1, <4>2 DEF Same
    <3>3. ASSUME NEW r \in Readers, Reader(r)
          PROVE  /\ pc'[v] = pc[v] /\ ticket'[v] = ticket[v]
                 /\ calls'[v] = calls[v] /\ len'[v] = len[v]
      BY <1>1, <3>3, ReaderAlone DEF TypeInd, MInv, PInv, PlaceInv, Same
    <3> QED BY <3>1, <3>2, <3>3 DEF Next
  <2>2. /\ ticket[v] < claims
        /\ sent[ticket[v] + 1] = [payload |-> <<v, calls[v]>>, len |-> len[v]]
    BY <2>1 DEF MInv, PInv, PlaceInv, FillersOK, Filling, ContentsOK
  <2> QED BY <1>1, <2>1, <2>2, SentKept DEF MInv
<1> QED BY <1>2, <1>3

(* A reader that copies has seen the length that the block still has.       *)
LEMMA CopyNext ==
  ASSUME MInv, Next, NEW q \in Readers, pc'[q] = "copy"
  PROVE  len'[q] # 0 /\ len'[q] = amount'[own'[q]]
<1>1. /\ q \in Threads /\ q \notin Writers
      /\ pc \in [Threads -> WriterLabels \cup ReaderLabels]
      /\ len \in [Threads -> 0 .. BlockSize] /\ own[q] \in Blocks
      /\ amount \in [Blocks -> 0 .. BlockSize]
      /\ \A w \in Writers : w \in Threads
      /\ \A r \in Readers : r \in Threads
  BY Numbers DEF MInv
<1>2. PInv /\ TypeInd BY DEF TypeInd, MInv, PInv, PlaceInv
<1>3. CASE ReadAmount(q)
  BY <1>1, <1>3 DEF ReadAmount, Goto, blocks
<1>4. CASE ~ReadAmount(q)
  <2>1. pc[q] = "copy" /\ len'[q] = len[q] /\ own'[q] = own[q]
    <3>1. ASSUME Reader(q)
          PROVE  pc[q] = "copy" /\ len'[q] = len[q] /\ own'[q] = own[q]
      BY <1>1, <1>4, <3>1
         DEF Goto, Reader, StartRead, LoadReadStart, CheckAvail, AwaitData,
         TakeBlock, TakeLost, Copy, SetDoneRead, ClearAmount,
         EarlyLoadReadEnd, LoadReadEnd, ConsumeDoneRead, ReturnReturns,
         MoveReadEnd, DecrementCount
    <3>2. ASSUME NEW r \in Readers \ {q}, Reader(r)
          PROVE  pc'[q] = pc[q] /\ len'[q] = len[q] /\ own'[q] = own[q]
      BY <1>1, <1>2, <3>2, ReaderAlone DEF Same
    <3>3. ASSUME NEW w \in Writers, Writer(w)
          PROVE  pc'[q] = pc[q] /\ len'[q] = len[q] /\ own'[q] = own[q]
      BY <1>1, <1>2, <3>3, WriterAlone DEF Same
    <3> QED BY <3>1, <3>2, <3>3 DEF Next
  <2>2. amount'[own[q]] = amount[own[q]]
    <3>1. own[q] = Slot(ticket[q]) /\ ticket[q] \in Nat
      BY <1>2, <2>1, Numbers DEF PInv, PlaceInv, UsersOK, Keeping
    <3>2. /\ \A w \in Writers : pc[w] = "fill" => own[w] # own[q]
          /\ \A r \in Readers : pc[r] = "clear" => own[r] # own[q]
      BY <2>1, <3>1, StoreElsewhere DEF MInv, Settled
    <3>3. ASSUME NEW w \in Writers, Fill(w)
          PROVE  amount'[own[q]] = amount[own[q]]
      BY <1>1, <3>2, <3>3 DEF Fill
    <3>4. ASSUME NEW r \in Readers, ClearAmount(r)
          PROVE  amount'[own[q]] = amount[own[q]]
      BY <1>1, <3>2, <3>4 DEF ClearAmount
    <3> QED BY <3>3, <3>4, Stores
  <2> QED BY <2>1, <2>2 DEF MInv, ContentsOK
<1> QED BY <1>3, <1>4

(* Blocks hold the messages they should: a step keeps ContentsOK.           *)
LEMMA ContentsNext == MInv /\ [Next]_vars => ContentsOK'
<1> SUFFICES ASSUME MInv, [Next]_vars PROVE ContentsOK'
  OBVIOUS
<1>1. PInv BY DEF MInv
<1>2. CASE Next
  <2>1. ASSUME NEW k \in (returned .. claims - 1)', Settled(k)'
        PROVE  Intact(k)'
    <3>1. k \in Nat
      <4>1. returned' \in Nat /\ claims' \in Nat
        BY <1>1, <1>2, MovesForward
      <4> QED BY <4>1
    <3>2. CASE Settled(k)
      <4>1. returned <= k /\ k < claims BY <1>1, <3>1, <3>2, SettledPlace
      <4>2. returned \in Nat /\ claims \in Nat BY <1>1, Numbers
      <4>3. Intact(k) BY <3>1, <3>2, <4>1, <4>2 DEF MInv, ContentsOK
      <4> QED BY <1>1, <1>2, <3>1, <3>2, <4>3, IntactKept DEF MInv
    <3>3. CASE ~Settled(k)
      <4>1. PICK w \in Writers : Fill(w) /\ k = ticket[w]
        BY <1>1, <1>2, <2>1, <3>1, <3>3, WriterSettles, ReaderSettles
           DEF Next
      <4>2. Intact(ticket[w])' BY <4>1, FillIntact
      <4>3. ticket'[w] = k BY <4>1 DEF Fill
      <4> QED BY <4>2, <4>3 DEF Intact, Slot
    <3> QED BY <3>2, <3>3
  <2> QED BY <1>2, <2>1, FillNext, CopyNext DEF ContentsOK
<1>3. CASE UNCHANGED vars
  BY <1>3 DEF MInv, ContentsOK, Settled, Intact, Slot, vars, blocks, moves
<1> QED BY <1>2, <1>3

(* The timely behaviours are prompt.                                        *)
LEMMA TimelyIsPrompt == TimelySpec => PromptSpec /\ []ClearsInTime
<1>1. Init => ClearsInTime BY DEF Init, ClearsInTime, Threads
<1>2. ClearsInTime /\ [Next /\ Timely']_vars => ClearsInTime'
  BY DEF ClearsInTime, Timely, vars, moves
<1>3. [Next /\ Timely']_vars => [Next /\ Prompt']_vars BY DEF Timely
<1> QED BY <1>1, <1>2, <1>3, PTL DEF TimelySpec, PromptSpec

(* While threads are timely the blocks hold what was accepted: no message   *)
(* is changed or lost between write() and read().                           *)
THEOREM ContentsCorrect == TimelySpec => []MInv
<1>1. Init => ContentsOK
  BY DEF Init, ContentsOK, Settled, Threads
<1>2. MInv /\ [Next]_vars => ContentsOK' BY ContentsNext
<1>3. [Next /\ Prompt']_vars => [Next]_vars OBVIOUS
<1> QED
  BY <1>1, <1>2, <1>3, PlaceCorrect, TimelyIsPrompt, PTL DEF PromptSpec, MInv
-----------------------------------------------------------------------------
(* Steps of the mailbox.                                                    *)

Holding == [r \in Readers |-> Held(r)]

(* A writer changes nothing that a reader holds, and a reader nothing that  *)
(* another holds.                                                           *)
LEMMA WriterHolds ==
  ASSUME PInv, NEW w \in Writers, Writer(w)
  PROVE  Holding' = Holding /\ UNCHANGED <<taken, returned, inbox>>
<1>1. /\ \A r \in Readers : Same(r)
      /\ UNCHANGED <<taken, returned>>
  BY Numbers, WriterAlone DEF TypeInd, PInv, PlaceInv
<1>2. inbox' = inbox
  BY DEF Writer, StartWrite, LoadWriteStart, CheckRoom, AwaitRoom,
     ClaimBlock, ClaimLost, Fill, SetDoneWrite, EarlyLoadWriteEnd,
     LoadWriteEnd, ConsumeDoneWrite, PostReturns, MoveWriteEnd,
     IncrementCount
<1> QED BY <1>1, <1>2 DEF Holding, Held, Same

(* A reader changes what it holds, and nothing of what was sent.            *)
LEMMA ReaderHolds ==
  ASSUME PInv, NEW r \in Readers, Reader(r)
  PROVE  /\ Holding' = [Holding EXCEPT ![r] = Held(r)']
         /\ UNCHANGED <<sent, calls, published>>
<1>1. /\ \A q \in Readers \ {r} : Same(q)
      /\ UNCHANGED <<sent, calls, published>>
  BY Numbers, ReaderAlone DEF TypeInd, PInv, PlaceInv
<1> QED BY <1>1 DEF Holding, Held, Same

(* A claim accepts a message, if there is room for one.                     *)
LEMMA ClaimAccepts ==
  ASSUME PInv, NEW w \in Writers, ClaimBlock(w)
  PROVE  Mailbox!Accept(w, len[w]) /\ len[w] \in 0 .. BlockSize
<1>1. /\ claims \in Nat /\ returned \in Nat /\ Len(sent) = claims
      /\ len[w] \in 0 .. BlockSize
  BY Numbers
<1>2. claims + 1 < returned + BlockCount BY FreshClaim DEF ClaimBlock
<1>3. Holding' = Holding /\ UNCHANGED <<taken, returned, inbox, published>>
  BY WriterHolds DEF Writer, ClaimBlock
<1> QED BY <1>1, <1>2, <1>3 DEF Mailbox!Accept, Holding, ClaimBlock

(* Moving m_writeEnd publishes the oldest message that is not visible.      *)
LEMMA MovePublishes ==
  ASSUME PInv, NEW w \in Writers, MoveWriteEnd(w)
  PROVE  Mailbox!Publish
<1>1. Len(sent) = claims BY Numbers
<1>2. published < claims /\ published' = published + 1
  BY MoverMoves DEF MoveWriteEnd, PInv, PlaceInv, MoversOK
<1>3. Holding' = Holding /\ UNCHANGED <<taken, returned, inbox, sent, calls>>
  BY WriterHolds DEF Writer, MoveWriteEnd
<1> QED BY <1>1, <1>2, <1>3 DEF Mailbox!Publish, Holding

(* Every other step of a writer is invisible.                               *)
LEMMA WriterMaps ==
  ASSUME PInv, NEW w \in Writers, Writer(w)
  PROVE  [Mailbox!MailNext]_Mailbox!mailVars
<1>1. CASE ClaimBlock(w) BY <1>1, ClaimAccepts DEF Mailbox!MailNext
<1>2. CASE MoveWriteEnd(w) BY <1>2, MovePublishes DEF Mailbox!MailNext
<1>3. CASE ~ClaimBlock(w) /\ ~MoveWriteEnd(w)
  <2>1. UNCHANGED <<sent, calls, published>>
    BY <1>3 DEF Writer, StartWrite, LoadWriteStart, CheckRoom, AwaitRoom,
       ClaimLost, Fill, SetDoneWrite, EarlyLoadWriteEnd, LoadWriteEnd,
       ConsumeDoneWrite, PostReturns, IncrementCount, moves
  <2> QED BY <2>1, WriterHolds DEF Mailbox!mailVars, Holding
<1> QED BY <1>1, <1>2, <1>3

(* Taking a block takes the oldest visible message.                         *)
LEMMA TakeTakes ==
  ASSUME PInv, NEW r \in Readers, TakeBlock(r)
  PROVE  Mailbox!Take(r)
<1>1. taken < published BY FreshTake DEF TakeBlock
<1>2. /\ r \in Threads
      /\ pc \in [Threads -> WriterLabels \cup ReaderLabels]
      /\ ticket \in [Threads -> Nat]
  BY Numbers
<1>3. Held(r) = 0 /\ Held(r)' = taken + 1
  BY <1>2 DEF TakeBlock, Held, Goto
<1>4. Holding' = [Holding EXCEPT ![r] = taken + 1] /\ Holding[r] = 0
  BY <1>3, ReaderHolds DEF Reader, Holding
<1>5. /\ taken' = taken + 1
      /\ UNCHANGED <<sent, calls, published, returned, inbox>>
  BY DEF TakeBlock
<1> QED BY <1>1, <1>4, <1>5 DEF Mailbox!Take, Holding

(* Copying delivers the message that was taken, and so does dropping it if  *)
(* it is empty.                                                             *)
LEMMA CopyDelivers ==
  ASSUME MInv, NEW r \in Readers,
         Copy(r) \/ (ReadAmount(r) /\ amount[own[r]] = 0)
  PROVE  Mailbox!Deliver(r)
<1>1. /\ r \in Threads /\ ticket[r] \in Nat /\ own[r] \in Blocks
      /\ claims \in Nat /\ Len(sent) = claims /\ sent \in Seq(Message)
      /\ returned \in Nat /\ taken \in Nat /\ taken <= published
      /\ published <= claims /\ published \in Nat
      /\ pc \in [Threads -> WriterLabels \cup ReaderLabels]
      /\ PInv
  BY Numbers DEF MInv
<1>2. pc[r] \in {"size", "copy"} BY DEF Copy, ReadAmount
<1>3. /\ own[r] = Slot(ticket[r]) /\ returned <= ticket[r]
      /\ ticket[r] < taken
  BY <1>1, <1>2 DEF PInv, PlaceInv, UsersOK, Using, Keeping
<1>4. Settled(ticket[r]) BY <1>2 DEF Settled
<1>5. Intact(ticket[r]) BY <1>1, <1>3, <1>4 DEF MInv, ContentsOK
<1> DEFINE m == sent[ticket[r] + 1]
<1>6. m \in Message BY <1>1, <1>3
<1>7. Held(r) = ticket[r] + 1 /\ Held(r)' = 0
  BY <1>1, <1>2 DEF Held, Copy, ReadAmount, Goto
<1>8. /\ Holding[r] = ticket[r] + 1
      /\ Holding' = [Holding EXCEPT ![r] = 0]
      /\ UNCHANGED <<sent, calls, published>>
  BY <1>1, <1>7, ReaderHolds DEF Reader, Holding
<1>9. UNCHANGED <<taken, returned>> BY DEF Copy, ReadAmount, moves
<1>10. IF m.len = 0 THEN UNCHANGED inbox
                    ELSE inbox' = [inbox EXCEPT ![r] = Append(@, m)]
  <2>1. CASE ReadAmount(r) /\ amount[own[r]] = 0
    BY <1>3, <1>5, <2>1 DEF Intact, ReadAmount
  <2>2. CASE Copy(r)
    <3>1. len[r] # 0 /\ len[r] = amount[own[r]]
      BY <2>2 DEF Copy, MInv, ContentsOK
    <3>2. amount[own[r]] = m.len /\ data[own[r]] = m.payload
      BY <1>3, <1>5 DEF Intact
    <3>3. m.len \in 0 .. BlockSize /\ Least(m.len, BlockSize) = m.len
      BY <1>6 DEF Message, Least
    <3>4. m = [payload |-> m.payload, len |-> m.len]
      BY <1>6 DEF Message
    <3>5. inbox' = [inbox EXCEPT ![r] =
                      Append(@, [payload |-> m.payload, len |-> m.len])]
      BY <2>2, <3>1, <3>2, <3>3 DEF Copy
    <3>6. m.len # 0 BY <3>1, <3>2
    <3> HIDE DEF m
    <3> QED BY <3>4, <3>5, <3>6
  <2> QED BY <2>1, <2>2
<1>11. ticket[r] + 1 # 0 BY <1>1
<1> HIDE DEF m
<1>12. Holding[r] # 0 /\ sent[Holding[r]] = m
  BY <1>8, <1>11 DEF m
<1> QED BY <1>8, <1>9, <1>10, <1>12 DEF Mailbox!Deliver, Holding

(* Moving m_readEnd gives back the space of a message that nobody holds.    *)
LEMMA RetireFrees ==
  ASSUME PInv, NEW r \in Readers, MoveReadEnd(r)
  PROVE  Mailbox!Free
<1>1. /\ returned \in Nat /\ r \in Threads
      /\ \A q \in Readers : ticket[q] \in Nat
      /\ pc \in [Threads -> WriterLabels \cup ReaderLabels]
  BY Numbers
<1>2. /\ returned < taken /\ returned' = returned + 1
      /\ \A q \in Readers : Using(q) => ticket[q] # returned
  BY MoverMoves DEF MoveReadEnd, PInv, PlaceInv, RetirersOK
<1>3. \A q \in Readers : Holding[q] # returned + 1
  BY <1>1, <1>2 DEF Holding, Held, Using
<1>4. Held(r) = 0 /\ Held(r)' = 0
  BY <1>1 DEF MoveReadEnd, Held, Goto
<1>5. Holding' = Holding /\ UNCHANGED <<sent, calls, published, taken, inbox>>
  BY <1>4, ReaderHolds DEF Reader, Holding, MoveReadEnd
<1> QED BY <1>2, <1>3, <1>5 DEF Mailbox!Free, Holding

(* Every other step of a reader is invisible.                               *)
LEMMA ReaderMaps ==
  ASSUME MInv, NEW r \in Readers, Reader(r)
  PROVE  [Mailbox!MailNext]_Mailbox!mailVars
<1>1. PInv BY DEF MInv
<1>2. CASE TakeBlock(r) BY <1>1, <1>2, TakeTakes DEF Mailbox!MailNext
<1>3. CASE Copy(r) \/ (ReadAmount(r) /\ amount[own[r]] = 0)
  BY <1>3, CopyDelivers DEF Mailbox!MailNext
<1>4. CASE MoveReadEnd(r) BY <1>1, <1>4, RetireFrees DEF Mailbox!MailNext
<1>5. CASE /\ ~TakeBlock(r) /\ ~Copy(r) /\ ~MoveReadEnd(r)
           /\ ~(ReadAmount(r) /\ amount[own[r]] = 0)
  <2>1. /\ r \in Threads /\ ticket \in [Threads -> Nat]
        /\ pc \in [Threads -> WriterLabels \cup ReaderLabels]
    BY <1>1, Numbers
  <2>2. Held(r)' = Held(r) /\ UNCHANGED <<taken, returned, inbox>>
    BY <1>5, <2>1
       DEF Held, Goto, moves, Reader, StartRead, LoadReadStart, CheckAvail,
       AwaitData, TakeLost, ReadAmount, SetDoneRead, ClearAmount,
       EarlyLoadReadEnd, LoadReadEnd, ConsumeDoneRead, ReturnReturns,
       DecrementCount
  <2>3. Holding' = Holding /\ UNCHANGED <<sent, calls, published>>
    BY <1>1, <2>2, ReaderHolds DEF Holding
  <2> QED BY <2>2, <2>3 DEF Mailbox!mailVars, Holding
<1> QED BY <1>2, <1>3, <1>4, <1>5

(* Every step of the ring is a step of the mailbox or invisible.            *)
LEMMA StepMaps == MInv /\ [Next]_vars => [Mailbox!MailNext]_Mailbox!mailVars
<1>1. ASSUME MInv, Next PROVE [Mailbox!MailNext]_Mailbox!mailVars
  BY <1>1, WriterMaps, ReaderMaps DEF Next, MInv
<1>2. ASSUME UNCHANGED vars PROVE UNCHANGED Mailbox!mailVars
  BY <1>2 DEF vars, moves, Mailbox!mailVars, Held
<1> QED BY <1>1, <1>2

(* A ring that has been laid out is an empty mailbox.                       *)
LEMMA InitMaps == Init => Mailbox!MailInit
BY DEF Init, Mailbox!MailInit, Held, Threads

(* While threads are timely, callers of write() and read() see a mailbox:   *)
(* messages in order, at most BlockCount - 1 of them, each received by one  *)
(* reader, unmodified, and no space reused before it has been read.         *)
THEOREM ImplementsCorrect == TimelySpec => Implements
<1>1. [Next /\ Timely']_vars => [Next]_vars OBVIOUS
<1> QED BY <1>1, InitMaps, StepMaps, ContentsCorrect, PTL
        DEF TimelySpec, Implements, Mailbox!MailSpec

(* The timely behaviours of one writer and one reader are all of them.      *)
THEOREM SoloIsTimelySpec ==
  ASSUME Solo PROVE Spec => TimelySpec
<1>1. [Next]_vars /\ Timely' => [Next /\ Timely']_vars OBVIOUS
<1>2. Spec => [](Timely /\ Exclusive) BY SoloCorrect
<1> QED BY <1>1, <1>2, PTL DEF Spec, TimelySpec

(* One writer and one reader see a mailbox however they are scheduled.      *)
THEOREM SoloImplements ==
  ASSUME Solo PROVE Spec => Implements
BY SoloIsTimelySpec, ImplementsCorrect, PTL
-----------------------------------------------------------------------------
(* What the promise of the mailbox means (module MailboxProofs).            *)

Mails == INSTANCE MailboxProofs WITH
  Capacity <- BlockCount - 1,
  MaxLen   <- BlockSize,
  visible  <- published,
  freed    <- returned,
  holding  <- [r \in Readers |-> Held(r)]

(* The mailbox of that module is this one.                                  *)
LEMMA ImplementsMails == Implements => Mails!MailSpec
<1>1. Mailbox!MailInit => Mails!MailInit
  BY DEF Mailbox!MailInit, Mails!MailInit
<1>2. [Mailbox!MailNext]_(Mailbox!mailVars)
        => [Mails!MailNext]_(Mails!mailVars)
  BY DEF Mailbox!MailNext, Mails!MailNext, Mailbox!mailVars, Mails!mailVars,
     Mailbox!Accept, Mails!Accept, Mailbox!Publish, Mails!Publish,
     Mailbox!Take, Mails!Take, Mailbox!Deliver, Mails!Deliver, Mailbox!Free,
     Mails!Free
<1> QED BY <1>1, <1>2, PTL DEF Implements, Mailbox!MailSpec, Mails!MailSpec

(* While threads are timely, read() delivers every message that it takes    *)
(* out of the ring once and unmodified, and the messages of each caller of  *)
(* write() in the order of its calls.                                       *)
THEOREM DeliveryCorrect == TimelySpec => [](ExactlyOnce /\ WriterOrder)
<1>1. Mails!MailSpec => [](Mails!ExactlyOnce /\ Mails!WriterOrder)
  BY Mails!MailCorrect
<1>2. Mails!ExactlyOnce => ExactlyOnce
  BY DEF Mails!ExactlyOnce, Mailbox!ExactlyOnce, ExactlyOnce
<1>3. Mails!WriterOrder => WriterOrder
  BY DEF Mails!WriterOrder, Mailbox!WriterOrder, WriterOrder
<1> QED BY <1>1, <1>2, <1>3, ImplementsCorrect, ImplementsMails, PTL

(* Between one writer and one reader it does so however they are scheduled. *)
THEOREM SoloDelivery ==
  ASSUME Solo PROVE Spec => [](ExactlyOnce /\ WriterOrder)
BY SoloIsTimelySpec, DeliveryCorrect, PTL
=============================================================================
