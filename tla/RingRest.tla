------------------------------ MODULE RingRest ------------------------------
(***************************************************************************)
(* Proof that nothing finished stays behind an end cursor: every block     *)
(* between the cursors has a thread that fills or uses it, a flag, or a    *)
(* thread that moves the cursor over it; and a flag under an end cursor    *)
(* has a thread that is going to look at it, if no thread looks too early. *)
(***************************************************************************)
EXTENDS RingMailbox, FiniteSetTheorems

USE RingAssumption DEF RingAssumption
-----------------------------------------------------------------------------
(* Every block has somebody or a flag.                                      *)

WriteKept(k) ==
  \/ doneWrite[Slot(k)]
  \/ \E w \in Writers : Filling(w) /\ ticket[w] = k
  \/ k = published /\ \E w \in Writers : pc[w] = "move"
ReadKept(k) ==
  \/ doneRead[Slot(k)]
  \/ \E r \in Readers : Using(r) /\ ticket[r] = k
  \/ k = returned /\ \E r \in Readers : pc[r] = "retire"

(* A step of a writer leaves none of the claimed blocks without.            *)
LEMMA WriteKeptNext ==
  ASSUME PInv, NothingLost, NEW w \in Writers, Writer(w),
         NEW k \in Nat, published' <= k, k < claims'
  PROVE  WriteKept(k)'
<1> DEFINE Kept == \/ doneWrite'[Slot(k)]
                   \/ \E v \in Writers :
                        pc'[v] \in {"fill", "post"} /\ ticket'[v] = k
                   \/ k = published' /\ \E v \in Writers : pc'[v] = "move"
<1>1. SUFFICES Kept BY DEF WriteKept, Filling, Slot
<1>2. /\ claims \in Nat /\ published \in Nat
      /\ w \in Threads
      /\ pc \in [Threads -> WriterLabels \cup ReaderLabels]
      /\ ticket \in [Threads -> Nat] /\ doneWrite \in [Blocks -> BOOLEAN]
      /\ Slot(k) \in Blocks /\ Slot(published) \in Blocks
  BY Numbers
<1>3. \A v \in Writers \ {w} : pc'[v] = pc[v] /\ ticket'[v] = ticket[v]
  BY WriterAlone DEF Same, Threads, TypeInd, PInv, PlaceInv
<1>4. published <= k /\ k < claims => WriteKept(k)
  BY <1>2 DEF NothingLost, WriteKept
<1> USE <1>2, <1>3, <1>4 DEF WriteKept, Filling, Goto
<1>5. CASE ClaimBlock(w)
  <2>1. /\ claims' = claims + 1 /\ pc'[w] = "fill" /\ ticket'[w] = claims
        /\ UNCHANGED <<published, doneWrite>> /\ pc[w] = "cas"
    BY <1>5 DEF ClaimBlock, blocks
  <2> QED BY <2>1
<1>6. CASE SetDoneWrite(w)
  <2>1. own[w] = Slot(ticket[w])
    BY <1>6 DEF SetDoneWrite, PInv, PlaceInv, FillersOK
  <2>2. /\ doneWrite' = [doneWrite EXCEPT ![own[w]] = TRUE]
        /\ pc[w] = "post" /\ UNCHANGED <<published, claims, ticket>>
    BY <1>6 DEF SetDoneWrite, moves
  <2>3. CASE ticket[w] = k
    <3>1. doneWrite'[Slot(k)] BY <2>1, <2>2, <2>3
    <3> QED BY <3>1
  <2>4. CASE ticket[w] # k BY <2>2, <2>4
  <2> QED BY <2>3, <2>4
<1>7. CASE ConsumeDoneWrite(w)
  <2>1. idx[w] = Slot(published)
    BY <1>7, FreshConsume DEF ConsumeDoneWrite
  <2>2. /\ doneWrite' = [doneWrite EXCEPT ![Slot(published)] = FALSE]
        /\ pc[w] = "consume" /\ pc'[w] = "move"
        /\ UNCHANGED <<published, claims, ticket>>
    BY <1>7, <2>1 DEF ConsumeDoneWrite, moves
  <2>3. CASE k = published BY <2>2, <2>3
  <2>4. CASE k # published
    <3>1. Slot(k) # Slot(published)
      <4>1. claims < published + BlockCount BY Numbers
      <4> QED BY <2>2, <2>4, <4>1, SlotInj
    <3> QED BY <2>2, <2>4, <3>1
  <2> QED BY <2>3, <2>4
<1>8. CASE MoveWriteEnd(w)
  <2>1. /\ published' = published + 1 /\ pc[w] = "move"
        /\ UNCHANGED <<claims, doneWrite, ticket>>
    BY <1>8, MoverMoves DEF MoveWriteEnd, blocks
  <2> QED BY <2>1
<1>9. CASE StartWrite(w) \/ LoadWriteStart(w) \/ CheckRoom(w) \/
           AwaitRoom(w) \/ ClaimLost(w) \/ Fill(w) \/ EarlyLoadWriteEnd(w)
           \/ LoadWriteEnd(w) \/ PostReturns(w) \/ IncrementCount(w)
  <2>1. /\ UNCHANGED <<doneWrite, published, claims, ticket>>
        /\ Filling(w) => pc'[w] \in {"fill", "post"}
        /\ pc[w] # "move"
    BY <1>9 DEF StartWrite, LoadWriteStart, CheckRoom, AwaitRoom, ClaimLost,
       Fill, EarlyLoadWriteEnd, LoadWriteEnd, PostReturns, IncrementCount,
       moves, blocks
  <2> QED BY <2>1
<1> QED BY <1>5, <1>6, <1>7, <1>8, <1>9 DEF Writer

(* A step of a reader leaves none of the taken blocks without.              *)
LEMMA ReadKeptNext ==
  ASSUME PInv, NothingLost, NEW r \in Readers, Reader(r),
         NEW k \in Nat, returned' <= k, k < taken'
  PROVE  ReadKept(k)'
<1> DEFINE Kept == \/ doneRead'[Slot(k)]
                   \/ \E q \in Readers :
                        /\ pc'[q] \in {"size", "copy", "release"}
                        /\ ticket'[q] = k
                   \/ k = returned' /\ \E q \in Readers : pc'[q] = "retire"
<1>1. SUFFICES Kept BY DEF ReadKept, Using, Slot
<1>2. /\ taken \in Nat /\ returned \in Nat
      /\ r \in Threads
      /\ pc \in [Threads -> WriterLabels \cup ReaderLabels]
      /\ ticket \in [Threads -> Nat] /\ doneRead \in [Blocks -> BOOLEAN]
      /\ Slot(k) \in Blocks /\ Slot(returned) \in Blocks
  BY Numbers DEF PInv, PlaceInv, TypeOK, SharedOK
<1>3. \A q \in Readers \ {r} : pc'[q] = pc[q] /\ ticket'[q] = ticket[q]
  BY ReaderAlone DEF Same, Threads, TypeInd, PInv, PlaceInv
<1>4. returned <= k /\ k < taken => ReadKept(k)
  BY <1>2 DEF NothingLost, ReadKept
<1> USE <1>2, <1>3, <1>4 DEF ReadKept, Using, Goto
<1>5. CASE TakeBlock(r)
  <2>1. /\ taken' = taken + 1 /\ pc'[r] = "size" /\ ticket'[r] = taken
        /\ UNCHANGED <<returned, doneRead>> /\ pc[r] = "grab"
    BY <1>5 DEF TakeBlock, blocks
  <2> QED BY <2>1
<1>6. CASE SetDoneRead(r)
  <2>1. own[r] = Slot(ticket[r])
    BY <1>6 DEF SetDoneRead, PInv, PlaceInv, UsersOK, Keeping
  <2>2. /\ doneRead' = [doneRead EXCEPT ![own[r]] = TRUE]
        /\ pc[r] = "release" /\ UNCHANGED <<returned, taken, ticket>>
    BY <1>6 DEF SetDoneRead, moves
  <2>3. CASE ticket[r] = k
    <3>1. doneRead'[Slot(k)] BY <2>1, <2>2, <2>3
    <3> QED BY <3>1
  <2>4. CASE ticket[r] # k BY <2>2, <2>4
  <2> QED BY <2>3, <2>4
<1>7. CASE ConsumeDoneRead(r)
  <2>1. idx[r] = Slot(returned)
    BY <1>7, FreshUnmark DEF ConsumeDoneRead
  <2>2. /\ doneRead' = [doneRead EXCEPT ![Slot(returned)] = FALSE]
        /\ pc[r] = "unmark" /\ pc'[r] = "retire"
        /\ UNCHANGED <<returned, taken, ticket>>
    BY <1>7, <2>1 DEF ConsumeDoneRead, moves
  <2>3. CASE k = returned BY <2>2, <2>3
  <2>4. CASE k # returned
    <3>1. Slot(k) # Slot(returned)
      <4>1. taken < returned + BlockCount BY Numbers
      <4> QED BY <2>2, <2>4, <4>1, SlotInj
    <3> QED BY <2>2, <2>4, <3>1
  <2> QED BY <2>3, <2>4
<1>8. CASE MoveReadEnd(r)
  <2>1. /\ returned' = returned + 1 /\ pc[r] = "retire"
        /\ UNCHANGED <<taken, doneRead, ticket>>
    BY <1>8, MoverMoves DEF MoveReadEnd, blocks
  <2> QED BY <2>1
<1>9. CASE StartRead(r) \/ LoadReadStart(r) \/ CheckAvail(r) \/
           AwaitData(r) \/ TakeLost(r) \/ ReadAmount(r) \/ Copy(r) \/
           ClearAmount(r) \/ EarlyLoadReadEnd(r) \/ LoadReadEnd(r) \/
           ReturnReturns(r) \/ DecrementCount(r)
  <2>1. /\ UNCHANGED <<doneRead, returned, taken, ticket>>
        /\ Using(r) => pc'[r] \in {"size", "copy", "release"}
        /\ pc[r] # "retire"
    BY <1>9 DEF StartRead, LoadReadStart, CheckAvail, AwaitData, TakeLost,
       ReadAmount, Copy, ClearAmount, EarlyLoadReadEnd, LoadReadEnd,
       ReturnReturns, DecrementCount, moves, blocks
  <2> QED BY <2>1
<1> QED BY <1>5, <1>6, <1>7, <1>8, <1>9 DEF Reader

(* A side whose threads do not step stays as it is.                         *)
LEMMA KeptAlone ==
  ASSUME PInv, NothingLost, NEW k \in Nat
  PROVE  /\ \A r \in Readers : Reader(r) /\ published' <= k /\ k < claims'
              => WriteKept(k)'
         /\ \A w \in Writers : Writer(w) /\ returned' <= k /\ k < taken'
              => ReadKept(k)'
<1>1. /\ claims \in Nat /\ published \in Nat /\ taken \in Nat
      /\ returned \in Nat
  BY Numbers
<1>2. TypeInd BY DEF TypeInd, PInv, PlaceInv
<1>3. ASSUME NEW r \in Readers, Reader(r), published' <= k, k < claims'
      PROVE  WriteKept(k)'
  <2>1. \A w \in Writers : Same(w)
    BY <1>2, <1>3, ReaderAlone, Numbers
  <2>2. UNCHANGED <<doneWrite, claims, published>>
    BY <1>2, <1>3, ReaderAlone
  <2>3. WriteKept(k) BY <1>1, <1>3, <2>2 DEF NothingLost, WriteKept
  <2> QED BY <2>1, <2>2, <2>3 DEF WriteKept, Filling, Slot, Same
<1>4. ASSUME NEW w \in Writers, Writer(w), returned' <= k, k < taken'
      PROVE  ReadKept(k)'
  <2>1. \A r \in Readers : Same(r)
    BY <1>2, <1>4, WriterAlone, Numbers
  <2>2. UNCHANGED <<doneRead, taken, returned>>
    BY <1>2, <1>4, WriterAlone
  <2>3. ReadKept(k) BY <1>1, <1>4, <2>2 DEF NothingLost, ReadKept
  <2> QED BY <2>1, <2>2, <2>3 DEF ReadKept, Using, Slot, Same
<1> QED BY <1>3, <1>4

(* What it is to be between two cursors.                                    *)
LEMMA Between ==
  ASSUME NEW m \in Nat, NEW n \in Nat, NEW k \in m .. n - 1
  PROVE  k \in Nat /\ m <= k /\ k < n
OBVIOUS

(* Nothing that was claimed or taken is lost.                               *)
LEMMA NothingLostNext == PInv /\ NothingLost /\ [Next]_vars => NothingLost'
<1> SUFFICES ASSUME PInv, NothingLost, [Next]_vars PROVE NothingLost'
  OBVIOUS
<1>1. CASE Next
  <2>1. /\ claims' \in Nat /\ published' \in Nat /\ taken' \in Nat
        /\ returned' \in Nat
    BY <1>1, MovesForward
  <2>2. ASSUME NEW k \in Nat, published' <= k, k < claims'
        PROVE  WriteKept(k)'
    BY <1>1, <2>2, WriteKeptNext, KeptAlone DEF Next
  <2>3. ASSUME NEW k \in Nat, returned' <= k, k < taken'
        PROVE  ReadKept(k)'
    BY <1>1, <2>3, ReadKeptNext, KeptAlone DEF Next
  <2>4. ASSUME NEW k, k \in published' .. claims' - 1
        PROVE  WriteKept(k)'
    <3>1. k \in Nat /\ published' <= k /\ k < claims'
      BY <2>1, <2>4, Between
    <3> QED BY <2>2, <3>1
  <2>5. ASSUME NEW k, k \in returned' .. taken' - 1
        PROVE  ReadKept(k)'
    <3>1. k \in Nat /\ returned' <= k /\ k < taken'
      BY <2>1, <2>5, Between
    <3> QED BY <2>3, <3>1
  <2> QED BY <2>4, <2>5 DEF NothingLost, WriteKept, ReadKept
<1>2. CASE UNCHANGED vars
  BY <1>2 DEF NothingLost, Filling, Using, Slot, vars, blocks, moves
<1> QED BY <1>1, <1>2
-----------------------------------------------------------------------------
(* Every flag under an end cursor has a looker.                             *)

(* Whoever looked at an end cursor before its own flag was up looked at the *)
(* value the cursor still has.                                              *)
OnTime ==
  /\ \A w \in Writers : early[w] => lap[w] = published
  /\ \A r \in Readers : early[r] => lap[r] = returned

WriterLooks(w) ==
  pc[w] = "advance" \/ (pc[w] = "consume" /\ lap[w] = published)
ReaderLooks(r) ==
  pc[r] \in {"clear", "reclaim"} \/ (pc[r] = "unmark" /\ lap[r] = returned)

(* A writer that goes away leaves no flag under m_writeEnd.                 *)
LEMMA WriterLooksNext ==
  ASSUME PInv, OnTime, LookersOK, NEW w \in Writers, Writer(w),
         doneWrite'[Slot(published')]
  PROVE  \E v \in Writers : WriterLooks(v)'
<1>1. /\ published \in Nat /\ w \in Threads
      /\ pc \in [Threads -> WriterLabels \cup ReaderLabels]
      /\ lap \in [Threads -> Nat] /\ doneWrite \in [Blocks -> BOOLEAN]
      /\ Slot(published) \in Blocks
  BY Numbers DEF PInv, PlaceInv, TypeOK, HistoryOK
<1>2. \A v \in Writers \ {w} : pc'[v] = pc[v] /\ lap'[v] = lap[v]
  BY WriterAlone DEF Same, Threads, TypeInd, PInv, PlaceInv
<1>3. doneWrite[Slot(published)] => \E v \in Writers : WriterLooks(v)
  BY DEF LookersOK, WriterLooks
<1> USE <1>1, <1>2, <1>3 DEF WriterLooks, Goto
<1>4. CASE SetDoneWrite(w)
  BY <1>4 DEF SetDoneWrite, OnTime, moves
<1>5. CASE MoveWriteEnd(w) BY <1>5 DEF MoveWriteEnd
<1>6. CASE LoadWriteEnd(w) BY <1>6 DEF LoadWriteEnd, moves
<1>7. CASE ConsumeDoneWrite(w)
  <2>1. idx[w] = Slot(published)
    BY <1>7, FreshConsume DEF ConsumeDoneWrite
  <2>2. ~doneWrite'[Slot(published)] /\ published' = published
    BY <1>7, <2>1 DEF ConsumeDoneWrite, moves
  <2> QED BY <2>2
<1>8. CASE PostReturns(w)
  <2>1. UNCHANGED <<doneWrite, published, lap>> /\ ~doneWrite[idx[w]]
    BY <1>8 DEF PostReturns, blocks, moves
  <2>2. pc[w] = "consume" /\ idx[w] = Slot(lap[w])
    BY <1>8 DEF PostReturns, PInv, PlaceInv, WindowsOK, WindowOK, InWindow
  <2>3. lap[w] # published BY <2>1, <2>2
  <2> QED BY <2>1, <2>2, <2>3
<1>9. CASE StartWrite(w) \/ LoadWriteStart(w) \/ CheckRoom(w) \/
           AwaitRoom(w) \/ ClaimBlock(w) \/ ClaimLost(w) \/ Fill(w) \/
           EarlyLoadWriteEnd(w) \/ IncrementCount(w)
  <2>1. /\ UNCHANGED <<doneWrite, published>>
        /\ pc[w] \notin {"advance", "consume"}
    BY <1>9 DEF StartWrite, LoadWriteStart, CheckRoom, AwaitRoom, ClaimBlock,
       ClaimLost, Fill, EarlyLoadWriteEnd, IncrementCount, moves, blocks
  <2> QED BY <2>1
<1> QED BY <1>4, <1>5, <1>6, <1>7, <1>8, <1>9 DEF Writer

(* A reader that goes away leaves no flag under m_readEnd.                  *)
LEMMA ReaderLooksNext ==
  ASSUME PInv, OnTime, LookersOK, NEW r \in Readers, Reader(r),
         doneRead'[Slot(returned')]
  PROVE  \E q \in Readers : ReaderLooks(q)'
<1>1. /\ returned \in Nat /\ r \in Threads
      /\ pc \in [Threads -> WriterLabels \cup ReaderLabels]
      /\ lap \in [Threads -> Nat] /\ doneRead \in [Blocks -> BOOLEAN]
      /\ Slot(returned) \in Blocks
  BY Numbers DEF PInv, PlaceInv, TypeOK, HistoryOK, SharedOK
<1>2. \A q \in Readers \ {r} : pc'[q] = pc[q] /\ lap'[q] = lap[q]
  BY ReaderAlone DEF Same, Threads, TypeInd, PInv, PlaceInv
<1>3. doneRead[Slot(returned)] => \E q \in Readers : ReaderLooks(q)
  BY DEF LookersOK, ReaderLooks
<1> USE <1>1, <1>2, <1>3 DEF ReaderLooks, Goto
<1>4. CASE SetDoneRead(r) BY <1>4 DEF SetDoneRead
<1>5. CASE ClearAmount(r) BY <1>5 DEF ClearAmount, OnTime, moves
<1>6. CASE MoveReadEnd(r) BY <1>6 DEF MoveReadEnd
<1>7. CASE LoadReadEnd(r) BY <1>7 DEF LoadReadEnd, moves
<1>8. CASE ConsumeDoneRead(r)
  <2>1. idx[r] = Slot(returned)
    BY <1>8, FreshUnmark DEF ConsumeDoneRead
  <2>2. ~doneRead'[Slot(returned)] /\ returned' = returned
    BY <1>8, <2>1 DEF ConsumeDoneRead, moves
  <2> QED BY <2>2
<1>9. CASE ReturnReturns(r)
  <2>1. UNCHANGED <<doneRead, returned, lap>> /\ ~doneRead[idx[r]]
    BY <1>9 DEF ReturnReturns, blocks, moves
  <2>2. pc[r] = "unmark" /\ idx[r] = Slot(lap[r])
    BY <1>9 DEF ReturnReturns, PInv, PlaceInv, WindowsOK, WindowOK, InWindow
  <2>3. lap[r] # returned BY <2>1, <2>2
  <2> QED BY <2>1, <2>2, <2>3
<1>10. CASE StartRead(r) \/ LoadReadStart(r) \/ CheckAvail(r) \/
            AwaitData(r) \/ TakeBlock(r) \/ TakeLost(r) \/ ReadAmount(r) \/
            Copy(r) \/ EarlyLoadReadEnd(r) \/ DecrementCount(r)
  <2>1. /\ UNCHANGED <<doneRead, returned>>
        /\ ReaderLooks(r) => pc'[r] = "clear"
    BY <1>10 DEF StartRead, LoadReadStart, CheckAvail, AwaitData, TakeBlock,
       TakeLost, ReadAmount, Copy, EarlyLoadReadEnd, DecrementCount, moves,
       blocks
  <2> QED BY <2>1
<1> QED BY <1>4, <1>5, <1>6, <1>7, <1>8, <1>9, <1>10 DEF Reader

(* If nobody looked too early there is always a looker.                     *)
LEMMA LookersNext ==
  ASSUME PInv, OnTime, LookersOK, [Next]_vars
  PROVE  LookersOK'
<1>1. ASSUME NEW w \in Writers, Writer(w) PROVE LookersOK'
  <2>1. /\ \A r \in Readers : Same(r)
        /\ UNCHANGED <<doneRead, returned>>
    BY <1>1, WriterAlone, Numbers DEF TypeInd, PInv, PlaceInv
  <2>2. doneWrite'[Slot(published')] => \E v \in Writers : WriterLooks(v)'
    BY <1>1, WriterLooksNext
  <2> QED BY <2>1, <2>2 DEF LookersOK, WriterLooks, Same, Slot
<1>2. ASSUME NEW r \in Readers, Reader(r) PROVE LookersOK'
  <2>1. /\ \A w \in Writers : Same(w)
        /\ UNCHANGED <<doneWrite, published>>
    BY <1>2, ReaderAlone, Numbers DEF TypeInd, PInv, PlaceInv
  <2>2. doneRead'[Slot(returned')] => \E q \in Readers : ReaderLooks(q)'
    BY <1>2, ReaderLooksNext
  <2> QED BY <2>1, <2>2 DEF LookersOK, ReaderLooks, Same, Slot
<1>3. ASSUME UNCHANGED vars PROVE LookersOK'
  BY <1>3 DEF LookersOK, Slot, vars, blocks, moves
<1> QED BY <1>1, <1>2, <1>3 DEF Next

(* Without a store buffer nobody looks early.                               *)
LEMMA NeverEarly ==
  ASSUME PInv, ~StoreBuffer, \A t \in Threads : ~early[t], [Next]_vars
  PROVE  \A t \in Threads : ~early'[t]
<1>1. early \in [Threads -> BOOLEAN]
  BY DEF PInv, PlaceInv, TypeOK, LocalsOK
<1>2. ASSUME NEW w \in Writers, Writer(w) PROVE \A t \in Threads : ~early'[t]
  BY <1>1, <1>2 DEF Writer, StartWrite, LoadWriteStart, CheckRoom,
     AwaitRoom, ClaimBlock, ClaimLost, Fill, SetDoneWrite, EarlyLoadWriteEnd,
     LoadWriteEnd, ConsumeDoneWrite, PostReturns, MoveWriteEnd,
     IncrementCount
<1>3. ASSUME NEW r \in Readers, Reader(r) PROVE \A t \in Threads : ~early'[t]
  BY <1>1, <1>3 DEF Reader, StartRead, LoadReadStart, CheckAvail, AwaitData,
     TakeBlock, TakeLost, ReadAmount, Copy, SetDoneRead, ClearAmount,
     EarlyLoadReadEnd, LoadReadEnd, ConsumeDoneRead, ReturnReturns,
     MoveReadEnd, DecrementCount
<1>4. ASSUME UNCHANGED vars PROVE \A t \in Threads : ~early'[t]
  BY <1>4 DEF vars
<1> QED BY <1>2, <1>3, <1>4 DEF Next

(* Somebody still looks at what is left behind an end cursor.               *)
LEMMA SomeoneLooksNext == PInv /\ SomeoneLooks /\ [Next]_vars => SomeoneLooks'
<1> SUFFICES ASSUME PInv, SomeoneLooks, [Next]_vars, ~StoreBuffer
             PROVE  (LookersOK /\ \A t \in Threads : ~early[t])'
  BY DEF SomeoneLooks
<1>1. OnTime BY DEF OnTime, SomeoneLooks, Threads
<1> QED BY <1>1, LookersNext, NeverEarly DEF SomeoneLooks
-----------------------------------------------------------------------------
(* The theorems.                                                            *)

(* With a looker for every flag, and somebody or a flag for every block,    *)
(* writers at rest have published everything and readers at rest have       *)
(* returned everything.                                                     *)
LEMMA RestSuffices ==
  ASSUME PInv, NothingLost, LookersOK
  PROVE  AllPublished /\ AllReclaimed
<1>1. /\ claims \in Nat /\ published \in Nat /\ published <= claims
      /\ taken \in Nat /\ returned \in Nat /\ returned <= taken
  BY Numbers
<1>2. ASSUME \A w \in Writers : pc[w] \in AtRest, published # claims
      PROVE  FALSE
  <2>1. published \in published .. claims - 1 BY <1>1, <1>2
  <2>2. WriteKept(published) BY <2>1 DEF NothingLost, WriteKept
  <2> QED BY <1>2, <2>2 DEF WriteKept, Filling, LookersOK, AtRest
<1>3. ASSUME \A r \in Readers : pc[r] \in AtRest \ {"size", "copy"},
             returned # taken
      PROVE  FALSE
  <2>1. returned \in returned .. taken - 1 BY <1>1, <1>3
  <2>2. ReadKept(returned) BY <2>1 DEF NothingLost, ReadKept
  <2> QED BY <1>3, <2>2 DEF ReadKept, Using, LookersOK, AtRest
<1> QED BY <1>2, <1>3 DEF AllPublished, AllReclaimed

(* A ring that has been laid out has no block in use and no flag up.        *)
LEMMA RestInit == Init => NothingLost /\ LookersOK /\ SomeoneLooks
<1> SUFFICES ASSUME Init PROVE NothingLost /\ LookersOK /\ SomeoneLooks
  OBVIOUS
<1>1. Slot(0) \in Blocks BY SlotType
<1>2. LookersOK BY <1>1 DEF Init, LookersOK
<1>3. NothingLost BY DEF Init, NothingLost
<1> QED BY <1>2, <1>3 DEF Init, SomeoneLooks

(* While threads are prompt nothing is forgotten.                           *)
LEMMA NothingForgotten == PromptSpec => [](NothingLost /\ SomeoneLooks)
<1>1. [Next /\ Prompt']_vars => [Next]_vars OBVIOUS
<1> QED
  BY <1>1, RestInit, NothingLostNext, SomeoneLooksNext, PlaceCorrect, PTL
     DEF PromptSpec

(* The whole invariant holds while threads are timely.                      *)
THEOREM InvCorrect == TimelySpec => []IInv
BY NothingForgotten, TimelyIsPrompt, ContentsCorrect, PTL DEF IInv, MInv, PInv

(* Under sequential consistency post_block and return_block leave nothing   *)
(* finished behind m_writeEnd and m_readEnd, while threads are prompt.      *)
THEOREM RestCorrect ==
  ASSUME ~StoreBuffer
  PROVE  PromptSpec => [](AllPublished /\ AllReclaimed)
<1>1. PInv /\ NothingLost /\ SomeoneLooks => AllPublished /\ AllReclaimed
  BY RestSuffices DEF SomeoneLooks
<1> QED BY <1>1, NothingForgotten, PlaceCorrect, PTL

(* One writer and one reader leave nothing behind, with delayed stores too: *)
(* an index that was loaded early is the cursor's value all the same.       *)
THEOREM SoloRest ==
  ASSUME Solo PROVE Spec => [](AllPublished /\ AllReclaimed)
<1> DEFINE Inv == PlaceInv /\ SoloInv /\ NothingLost /\ LookersOK
<1>1. Init => Inv
  BY PInit, RestInit DEF Init, SoloInv, WriterSolo, ReaderSolo, Threads
<1>2. Inv => PInv BY SoloIsTimely DEF PInv, Timely
<1>3. Inv /\ [Next]_vars => Inv'
  <2> SUFFICES ASSUME Inv, [Next]_vars PROVE Inv'
    OBVIOUS
  <2>1. PInv BY <1>2
  <2>2. PlaceInv' /\ SoloInv' BY <2>1, PNext, SoloNext
  <2>3. OnTime BY DEF OnTime, SoloInv, WriterSolo, ReaderSolo
  <2>4. LookersOK' BY <2>1, <2>3, LookersNext
  <2> QED BY <2>1, <2>2, <2>4, NothingLostNext
<1>4. Inv => AllPublished /\ AllReclaimed BY <1>2, RestSuffices
<1> QED BY <1>1, <1>3, <1>4, PTL DEF Spec
-----------------------------------------------------------------------------
(* The message count. *)

(* A message that write() has still to count, and one read() to uncount.    *)
Uncounted(w) ==
  pc[w] \in {"fill", "post", "advance", "consume", "move", "count"}
Counted(r) ==
  \/ pc[r] = "size" /\ sent[ticket[r] + 1].len # 0
  \/ pc[r] \in {"copy", "release", "clear", "reclaim", "unmark", "retire"}
       /\ len[r] # 0
  \/ pc[r] = "count"

(* The messages that the count counts: the unread ones, and also empty ones *)
(* that were read, since read() drops those without uncounting them.        *)
Unread == {k \in 1 .. claims : k > taken \/ sent[k].len = 0}

Putting == {w \in Writers : Uncounted(w)}
Getting == {r \in Readers : Counted(r)}

(* Up to multiples of CountMod the count is the unread messages less those  *)
(* that write() has still to count, and those that read() has to uncount.   *)
CountOK ==
  /\ IsFiniteSet(Putting) /\ IsFiniteSet(Getting) /\ IsFiniteSet(Unread)
  /\ \E q \in Int : msgCount + CountMod * q =
       Cardinality(Unread) - Cardinality(Putting) + Cardinality(Getting)

(* A step that leaves all four as they are.                                 *)
LEMMA CountSame ==
  ASSUME CountOK, msgCount' = msgCount, Unread' = Unread,
         Putting' = Putting, Getting' = Getting
  PROVE  CountOK'
BY DEF CountOK

(* The sizes of the sets, and a set with a member more or less.             *)
LEMMA OneMore ==
  ASSUME NEW S, NEW x, IsFiniteSet(S), x \notin S
  PROVE  /\ IsFiniteSet(S \cup {x})
         /\ Cardinality(S \cup {x}) = Cardinality(S) + 1
BY FS_AddElement
LEMMA OneLess ==
  ASSUME NEW S, NEW x, IsFiniteSet(S), x \in S
  PROVE  /\ IsFiniteSet(S \ {x})
         /\ Cardinality(S \ {x}) = Cardinality(S) - 1
BY FS_RemoveElement

(* What the count and the sets are made of.                                 *)
LEMMA CountTypes ==
  ASSUME MInv, CountOK
  PROVE  /\ Cardinality(Unread) \in Int /\ Cardinality(Putting) \in Int
         /\ Cardinality(Getting) \in Int
         /\ msgCount \in Int /\ CountMod \in Nat \ {0}
BY FS_CardinalityType
   DEF CountOK, MInv, PInv, PlaceInv, TypeOK, SharedOK

(* A remainder differs from its number by a multiple.                       *)
LEMMA Wrapped ==
  ASSUME NEW k \in Int, NEW m, m = k % CountMod
  PROVE  m \in Int /\ \E d \in Int : k = CountMod * d + m
<1>1. /\ k % CountMod \in 0 .. CountMod - 1 /\ k \div CountMod \in Int
      /\ k = CountMod * (k \div CountMod) + (k % CountMod)
  BY ONLY DivMod, CountMod \in Nat \ {0}, k \in Int
<1> DEFINE d == k \div CountMod
<1>2. d \in Int /\ k = CountMod * d + m /\ m \in 0 .. CountMod - 1
  BY <1>1
<1> HIDE DEF d
<1>3. m \in Int BY <1>2
<1> QED BY <1>2, <1>3

(* Nothing that a writer does changes what a reader has to uncount.         *)
LEMMA WriterGetting ==
  ASSUME MInv, NEW w \in Writers, Writer(w)
  PROVE  Getting' = Getting
<1>1. PInv /\ TypeInd BY DEF MInv, PInv, PlaceInv, TypeInd
<1>2. /\ claims \in Nat /\ taken \in Nat /\ taken <= published
      /\ published <= claims /\ published \in Nat
      /\ Len(sent) = claims /\ sent \in Seq(Message)
      /\ \A r \in Readers : r \in Threads /\ ticket[r] \in Nat
  BY <1>1, Numbers
<1>3. \A r \in Readers : Same(r) BY <1>1, WriterAlone DEF Threads
<1>4. ASSUME NEW r \in Readers, pc[r] = "size"
      PROVE  sent'[ticket[r] + 1] = sent[ticket[r] + 1]
  <2>1. ticket[r] + 1 \in 1 .. Len(sent)
    BY <1>1, <1>2, <1>4 DEF PInv, PlaceInv, UsersOK, Keeping
  <2>2. CASE ClaimBlock(w) BY <1>2, <2>1, <2>2 DEF ClaimBlock
  <2>3. CASE ~ClaimBlock(w)
    BY <2>3 DEF Writer, StartWrite, LoadWriteStart, CheckRoom, AwaitRoom,
       ClaimLost, Fill, SetDoneWrite, EarlyLoadWriteEnd, LoadWriteEnd,
       ConsumeDoneWrite, PostReturns, MoveWriteEnd, IncrementCount
  <2> QED BY <2>2, <2>3
<1>5. ASSUME NEW r \in Readers PROVE Counted(r)' <=> Counted(r)
  BY <1>3, <1>4 DEF Counted, Same
<1> QED BY <1>5 DEF Getting

(* Nor what a reader does what a writer has to count.                       *)
LEMMA ReaderPutting ==
  ASSUME MInv, NEW r \in Readers, Reader(r)
  PROVE  Putting' = Putting
<1>1. TypeInd BY DEF MInv, PInv, PlaceInv, TypeInd
<1>2. \A w \in Writers : Same(w)
  BY <1>1, ReaderAlone DEF Threads
<1> QED BY <1>2 DEF Putting, Uncounted, Same

(* A writer is counted out when it has counted itself in.                   *)
LEMMA WriterCounts ==
  ASSUME MInv, CountOK, NEW w \in Writers, Writer(w)
  PROVE  CountOK'
<1>1. PInv /\ TypeInd BY DEF MInv, PInv, PlaceInv, TypeInd
<1>2. /\ claims \in Nat /\ taken \in Nat /\ taken <= claims
      /\ Len(sent) = claims /\ sent \in Seq(Message)
      /\ w \in Threads /\ w \notin Readers
      /\ pc \in [Threads -> WriterLabels \cup ReaderLabels]
  <2>1. taken \in Nat /\ published \in Nat /\ taken <= published
        /\ published <= claims /\ claims \in Nat
    BY <1>1, Numbers
  <2>2. /\ Len(sent) = claims /\ sent \in Seq(Message)
        /\ pc \in [Threads -> WriterLabels \cup ReaderLabels]
    BY <1>1, Numbers
  <2>3. w \in Threads /\ w \notin Readers BY DEF Threads
  <2> QED BY <2>1, <2>2, <2>3
<1>3. \A v \in Writers \ {w} : pc'[v] = pc[v]
  BY <1>1, WriterAlone DEF Same, Threads
<1>4. taken' = taken BY <1>1, WriterAlone
<1>5. Getting' = Getting BY WriterGetting
<1>6. PICK q \in Int : msgCount + CountMod * q =
        Cardinality(Unread) - Cardinality(Putting) + Cardinality(Getting)
  BY DEF CountOK
<1>7. CASE ClaimBlock(w)
  <2>1. /\ claims' = claims + 1 /\ msgCount' = msgCount
        /\ \A k \in 1 .. claims : sent'[k] = sent[k]
        /\ pc[w] = "cas" /\ pc'[w] = "fill"
    BY <1>2, <1>7 DEF ClaimBlock, Goto
  <2>2. Unread' = Unread \cup {claims + 1} /\ claims + 1 \notin Unread
    <3>1. Unread' = {k \in 1 .. claims + 1 : k > taken \/ sent'[k].len = 0}
      BY <1>4, <2>1 DEF Unread
    <3>2. 1 .. claims + 1 = (1 .. claims) \cup {claims + 1} BY <1>2
    <3> QED BY <1>2, <2>1, <3>1, <3>2 DEF Unread
  <2>3. Putting' = Putting \cup {w} /\ w \notin Putting
    BY <1>3, <2>1 DEF Putting, Uncounted
  <2>4. /\ IsFiniteSet(Unread)' /\ IsFiniteSet(Putting)'
        /\ Cardinality(Unread)' = Cardinality(Unread) + 1
        /\ Cardinality(Putting)' = Cardinality(Putting) + 1
    BY <2>2, <2>3, OneMore DEF CountOK
  <2>5. /\ IsFiniteSet(Getting)'
        /\ Cardinality(Getting)' = Cardinality(Getting)
    BY <1>5 DEF CountOK
  <2>6. msgCount' + CountMod * q = Cardinality(Unread)'
          - Cardinality(Putting)' + Cardinality(Getting)'
    BY <1>6, <2>1, <2>4, <2>5, CountTypes
  <2> QED BY <2>4, <2>5, <2>6 DEF CountOK
<1>8. CASE ~ClaimBlock(w)
  <2>1. UNCHANGED <<claims, sent>>
    BY <1>8 DEF Writer, StartWrite, LoadWriteStart, CheckRoom, AwaitRoom,
       ClaimLost, Fill, SetDoneWrite, EarlyLoadWriteEnd, LoadWriteEnd,
       ConsumeDoneWrite, PostReturns, MoveWriteEnd, IncrementCount, moves
  <2>2. Unread' = Unread BY <1>4, <2>1 DEF Unread
  <2>3. CASE IncrementCount(w)
    <3>1. /\ msgCount' = (msgCount + 1) % CountMod
          /\ pc[w] = "count" /\ pc'[w] = "idle"
      BY <1>2, <2>3 DEF IncrementCount, Goto
    <3>2. Putting' = Putting \ {w} /\ w \in Putting
      BY <1>3, <3>1 DEF Putting, Uncounted
    <3>3. /\ IsFiniteSet(Putting)'
          /\ Cardinality(Putting)' = Cardinality(Putting) - 1
      BY <3>2, OneLess DEF CountOK
    <3>4. /\ IsFiniteSet(Unread)' /\ IsFiniteSet(Getting)'
          /\ Cardinality(Unread)' = Cardinality(Unread)
          /\ Cardinality(Getting)' = Cardinality(Getting)
      BY <1>5, <2>2 DEF CountOK
    <3>5. msgCount + 1 \in Int BY CountTypes
    <3>6. PICK d \in Int : /\ msgCount + 1 = CountMod * d + msgCount'
                           /\ msgCount' \in Int
      BY <3>1, <3>5, Wrapped
    <3>7. msgCount' + CountMod * (q + d) = Cardinality(Unread)'
            - Cardinality(Putting)' + Cardinality(Getting)'
      BY <1>6, <3>3, <3>4, <3>6, CountTypes
    <3> QED BY <3>3, <3>4, <3>7 DEF CountOK
  <2>4. CASE ~IncrementCount(w)
    <3>1. msgCount' = msgCount /\ (Uncounted(w)' <=> Uncounted(w))
      BY <1>2, <1>8, <2>4 DEF Writer, StartWrite, LoadWriteStart, CheckRoom,
         AwaitRoom, ClaimLost, Fill, SetDoneWrite, EarlyLoadWriteEnd,
         LoadWriteEnd, ConsumeDoneWrite, PostReturns, MoveWriteEnd,
         Uncounted, Goto
    <3>2. Putting' = Putting BY <1>3, <3>1 DEF Putting, Uncounted
    <3> QED BY <1>5, <2>2, <3>1, <3>2, CountSame
  <2> QED BY <2>3, <2>4
<1> QED BY <1>7, <1>8

(* The length that read() finds is that of the message it has taken.        *)
LEMMA AmountIs ==
  ASSUME MInv, NEW r \in Readers, pc[r] \in {"size", "copy"}
  PROVE  amount[own[r]] = sent[ticket[r] + 1].len
<1>1. PInv BY DEF MInv
<1>2. /\ ticket[r] \in Nat /\ claims \in Nat /\ returned \in Nat
      /\ taken \in Nat /\ taken <= published /\ published <= claims
      /\ published \in Nat
  BY <1>1, Numbers
<1>3. /\ own[r] = Slot(ticket[r]) /\ returned <= ticket[r]
      /\ ticket[r] < taken
  BY <1>1 DEF PInv, PlaceInv, UsersOK, Using, Keeping
<1>4. Settled(ticket[r]) BY DEF Settled
<1>5. Intact(ticket[r]) BY <1>2, <1>3, <1>4 DEF MInv, ContentsOK
<1> QED BY <1>3, <1>5 DEF Intact

(* A reader has to uncount a message from its taking on, unless it is empty.*)
LEMMA ReaderCounts ==
  ASSUME MInv, CountOK, NEW r \in Readers, Reader(r)
  PROVE  CountOK'
<1>1. PInv /\ TypeInd BY DEF MInv, PInv, PlaceInv, TypeInd
<1>2. /\ claims \in Nat /\ taken \in Nat /\ published \in Nat
      /\ taken <= published /\ published <= claims
      /\ Len(sent) = claims /\ sent \in Seq(Message)
      /\ r \in Threads /\ r \notin Writers
      /\ pc \in [Threads -> WriterLabels \cup ReaderLabels]
      /\ len \in [Threads -> 0 .. BlockSize]
      /\ ticket \in [Threads -> Nat]
  BY <1>1, Numbers
<1>3. \A q \in Readers \ {r} : Same(q)
  BY <1>1, ReaderAlone DEF Threads
<1>4. UNCHANGED <<claims, sent>> BY <1>1, ReaderAlone
<1>5. Putting' = Putting BY ReaderPutting
<1>6. PICK q \in Int : msgCount + CountMod * q =
        Cardinality(Unread) - Cardinality(Putting) + Cardinality(Getting)
  BY DEF CountOK
<1>7. ASSUME Counted(r)' <=> Counted(r) PROVE Getting' = Getting
  <2>1. \A u \in Readers : Counted(u)' <=> Counted(u)
    BY <1>3, <1>4, <1>7 DEF Counted, Same
  <2> QED BY <2>1 DEF Getting
<1>8. CASE TakeBlock(r)
  <2>1. /\ taken' = taken + 1 /\ msgCount' = msgCount
        /\ pc[r] = "grab" /\ pc'[r] = "size" /\ ticket'[r] = taken
    BY <1>2, <1>8 DEF TakeBlock, Goto
  <2>2. taken < published BY <1>1, <1>8, FreshTake DEF TakeBlock
  <2> DEFINE k == taken + 1
  <2>3. k \in 1 .. claims /\ k \in Unread BY <1>2, <2>2 DEF Unread
  <2>4. ~Counted(r) /\ (Counted(r)' <=> sent[k].len # 0)
    BY <1>4, <2>1 DEF Counted
  <2>5. CASE sent[k].len = 0
    <3>1. Unread' = Unread
      BY <1>2, <1>4, <2>1, <2>3, <2>5 DEF Unread
    <3>2. Getting' = Getting BY <1>7, <2>4, <2>5
    <3> QED BY <1>5, <2>1, <3>1, <3>2, CountSame
  <2>6. CASE sent[k].len # 0
    <3>1. Unread' = Unread \ {k}
      BY <1>2, <1>4, <2>1, <2>3, <2>6 DEF Unread
    <3>2. Getting' = Getting \cup {r} /\ r \notin Getting
      <4>1. \A u \in Readers \ {r} : Counted(u)' <=> Counted(u)
        BY <1>3, <1>4 DEF Counted, Same
      <4> QED BY <2>4, <2>6, <4>1 DEF Getting
    <3>3. /\ IsFiniteSet(Unread)' /\ IsFiniteSet(Getting)'
          /\ Cardinality(Unread)' = Cardinality(Unread) - 1
          /\ Cardinality(Getting)' = Cardinality(Getting) + 1
      BY <2>3, <3>1, <3>2, OneMore, OneLess DEF CountOK
    <3>4. /\ IsFiniteSet(Putting)'
          /\ Cardinality(Putting)' = Cardinality(Putting)
      BY <1>5 DEF CountOK
    <3>5. msgCount' + CountMod * q = Cardinality(Unread)'
            - Cardinality(Putting)' + Cardinality(Getting)'
      BY <1>6, <2>1, <3>3, <3>4, CountTypes
    <3> QED BY <3>3, <3>4, <3>5 DEF CountOK
  <2> QED BY <2>5, <2>6
<1>9. CASE DecrementCount(r)
  <2>1. /\ msgCount' = (msgCount - 1) % CountMod /\ taken' = taken
        /\ pc[r] = "count" /\ pc'[r] = "idle"
    BY <1>2, <1>9 DEF DecrementCount, Goto, moves
  <2>2. Unread' = Unread BY <1>4, <2>1 DEF Unread
  <2>3. Getting' = Getting \ {r} /\ r \in Getting
    <3>1. \A u \in Readers \ {r} : Counted(u)' <=> Counted(u)
      BY <1>3, <1>4 DEF Counted, Same
    <3>2. Counted(r) /\ ~Counted(r)' BY <2>1 DEF Counted
    <3> QED BY <3>1, <3>2 DEF Getting
  <2>4. /\ IsFiniteSet(Getting)'
        /\ Cardinality(Getting)' = Cardinality(Getting) - 1
    BY <2>3, OneLess DEF CountOK
  <2>5. /\ IsFiniteSet(Unread)' /\ IsFiniteSet(Putting)'
        /\ Cardinality(Unread)' = Cardinality(Unread)
        /\ Cardinality(Putting)' = Cardinality(Putting)
    BY <1>5, <2>2 DEF CountOK
  <2>6. msgCount - 1 \in Int BY CountTypes
  <2>7. PICK d \in Int : /\ msgCount - 1 = CountMod * d + msgCount'
                         /\ msgCount' \in Int
    BY <2>1, <2>6, Wrapped
  <2>8. msgCount' + CountMod * (q + d) = Cardinality(Unread)'
          - Cardinality(Putting)' + Cardinality(Getting)'
    BY <1>6, <2>4, <2>5, <2>7, CountTypes
  <2> QED BY <2>4, <2>5, <2>8 DEF CountOK
<1>10. CASE ~TakeBlock(r) /\ ~DecrementCount(r)
  <2>1. msgCount' = msgCount /\ taken' = taken
    BY <1>10 DEF Reader, StartRead, LoadReadStart, CheckAvail, AwaitData,
       TakeLost, ReadAmount, Copy, SetDoneRead, ClearAmount,
       EarlyLoadReadEnd, LoadReadEnd, ConsumeDoneRead, ReturnReturns,
       MoveReadEnd, moves
  <2>2. Unread' = Unread BY <1>4, <2>1 DEF Unread
  <2>3. Counted(r)' <=> Counted(r)
    <3>1. CASE ReadAmount(r)
      <4>1. pc[r] = "size" /\ len'[r] = sent[ticket[r] + 1].len
        BY <1>2, <3>1, AmountIs DEF ReadAmount
      <4>2. pc'[r] = IF len'[r] = 0 THEN "release" ELSE "copy"
        BY <1>2, <3>1 DEF ReadAmount, Goto
      <4> QED BY <4>1, <4>2 DEF Counted
    <3>2. CASE Copy(r)
      <4>1. len[r] # 0 BY <3>2 DEF Copy, MInv, ContentsOK
      <4> QED BY <1>2, <3>2, <4>1 DEF Copy, Goto, Counted
    <3>3. CASE ~ReadAmount(r) /\ ~Copy(r)
      BY <1>2, <1>10, <3>3 DEF Reader, StartRead, LoadReadStart, CheckAvail,
         AwaitData, TakeLost, SetDoneRead, ClearAmount, EarlyLoadReadEnd,
         LoadReadEnd, ConsumeDoneRead, ReturnReturns, MoveReadEnd, Goto,
         Counted
    <3> QED BY <3>1, <3>2, <3>3
  <2> QED BY <1>5, <1>7, <2>1, <2>2, <2>3, CountSame
<1> QED BY <1>8, <1>9, <1>10

(* Every step keeps the count right.                                        *)
LEMMA CountNext == MInv /\ CountOK /\ [Next]_vars => CountOK'
<1>1. CASE UNCHANGED vars
  BY <1>1 DEF vars, blocks, moves, CountOK, Unread, Putting, Getting,
     Uncounted, Counted
<1> QED BY <1>1, WriterCounts, ReaderCounts DEF Next

(* An empty ring counts nothing.                                            *)
LEMMA CountInit == Init => CountOK
<1> SUFFICES ASSUME Init PROVE CountOK OBVIOUS
<1>1. Putting = {} /\ Getting = {}
  BY DEF Init, Putting, Getting, Uncounted, Counted, Threads
<1>2. Unread = {} BY DEF Init, Unread
<1>3. IsFiniteSet({}) /\ Cardinality({}) = 0 BY FS_EmptySet
<1>4. msgCount + CountMod * 0 = Cardinality(Unread) - Cardinality(Putting)
                                  + Cardinality(Getting)
  BY <1>1, <1>2, <1>3 DEF Init
<1> QED BY <1>1, <1>2, <1>3, <1>4 DEF CountOK

(* A number is a multiple and a remainder in one way only.                  *)
LEMMA RemainderIs ==
  ASSUME NEW n \in Nat \ {0}, NEW q \in Int, NEW r \in 0 .. n - 1,
         NEW k \in Int, k = n * q + r
  PROVE  k % n = r
<1> DEFINE m == k % n
           d == k \div n
<1>1. m \in 0 .. n - 1 /\ d \in Int /\ n * q + r = n * d + m
  BY ONLY DivMod, n \in Nat \ {0}, k \in Int, k = n * q + r
<1> HIDE DEF m, d
<1>2. d - q \in Int /\ n * (d - q) = r - m BY <1>1
<1>3. ~(d - q >= 1)
  <2>1. ASSUME d - q >= 1 PROVE FALSE
    <3>1. d - q - 1 \in Nat BY <1>2, <2>1
    <3>2. n * (d - q - 1) >= 0 BY <3>1
    <3>3. n * (d - q) = n * (d - q - 1) + n BY <1>2
    <3> QED BY <1>1, <1>2, <3>2, <3>3
  <2> QED BY <2>1
<1>4. ~(d - q <= -1)
  <2>1. ASSUME d - q <= -1 PROVE FALSE
    <3>1. q - d - 1 \in Nat BY <1>1, <2>1
    <3>2. n * (q - d - 1) >= 0 BY <3>1
    <3>3. n * (d - q) = 0 - n * (q - d - 1) - n BY <1>1, <1>2
    <3> QED BY <1>1, <1>2, <3>2, <3>3
  <2> QED BY <2>1
<1>5. d - q = 0 BY <1>2, <1>3, <1>4
<1>6. r = m BY <1>1, <1>5
<1> QED BY <1>6 DEF m

(* If no message is empty, none that was sent or is being sent is.          *)
NoEmpties ==
  /\ \A k \in 1 .. claims : sent[k].len # 0
  /\ \A w \in Writers :
       pc[w] \in {"claim", "room", "await", "cas"} => len[w] # 0

(* A message that was not empty when it was sent does not become so.        *)
LEMMA NoEmptiesNext ==
  ASSUME 0 \notin Lengths, BlockSize # 0, MInv, NoEmpties, [Next]_vars
  PROVE  NoEmpties'
<1>1. TypeInd /\ Len(sent) = claims /\ claims \in Nat /\ sent \in Seq(Message)
  BY DEF MInv, PInv, PlaceInv, TypeInd, CursorsOK, TypeOK, HistoryOK
<1>2. /\ pc \in [Threads -> WriterLabels \cup ReaderLabels]
      /\ len \in [Threads -> 0 .. BlockSize]
  BY <1>1 DEF TypeInd, TypeOK, LabelsOK, LocalsOK
<1>3. ASSUME NEW w \in Writers, ClaimBlock(w) PROVE NoEmpties'
  <2>1. /\ claims' = claims + 1 /\ len' = len
        /\ sent' = Append(sent, [payload |-> <<w, calls[w] + 1>>,
                                 len |-> len[w]])
        /\ pc' = [pc EXCEPT ![w] = "fill"]
    BY <1>3 DEF ClaimBlock, Goto
  <2>2. len[w] # 0 BY <1>3 DEF ClaimBlock, NoEmpties
  <2>3. \A k \in 1 .. claims + 1 : sent'[k].len # 0
    <3>1. sent'[claims + 1].len = len[w] BY <1>1, <2>1
    <3>2. \A k \in 1 .. claims : sent'[k] = sent[k] BY <1>1, <2>1
    <3> QED BY <1>1, <2>2, <3>1, <3>2 DEF NoEmpties
  <2> QED BY <1>2, <2>1, <2>3 DEF NoEmpties, Threads
<1>4. ASSUME NEW w \in Writers, StartWrite(w) PROVE NoEmpties'
  <2>1. PICK n \in Lengths : len' = [len EXCEPT ![w] = Least(n, BlockSize)]
    BY <1>4 DEF StartWrite
  <2>2. Least(n, BlockSize) # 0 BY <2>1 DEF Least
  <2>3. /\ claims' = claims /\ sent' = sent
        /\ pc' = [pc EXCEPT ![w] = "claim"]
    BY <1>4 DEF StartWrite, Goto, moves
  <2> QED BY <1>2, <2>1, <2>2, <2>3 DEF NoEmpties, Threads
<1>5. ASSUME NEW w \in Writers, Writer(w), ~ClaimBlock(w), ~StartWrite(w)
      PROVE  NoEmpties'
  <2>1. claims' = claims /\ sent' = sent /\ len' = len
    BY <1>5 DEF Writer, moves, LoadWriteStart, CheckRoom, AwaitRoom,
       ClaimLost, Fill, SetDoneWrite, EarlyLoadWriteEnd, LoadWriteEnd,
       ConsumeDoneWrite, PostReturns, MoveWriteEnd, IncrementCount
  <2>2. \A v \in Writers :
          pc'[v] \in {"claim", "room", "await", "cas"}
            => pc[v] \in {"claim", "room", "await", "cas"}
    BY <1>2, <1>5 DEF Writer, Goto, LoadWriteStart, CheckRoom, AwaitRoom,
       ClaimLost, Fill, SetDoneWrite, EarlyLoadWriteEnd, LoadWriteEnd,
       ConsumeDoneWrite, PostReturns, MoveWriteEnd, IncrementCount, Threads
  <2> QED BY <2>1, <2>2 DEF NoEmpties
<1>6. ASSUME NEW r \in Readers, Reader(r) PROVE NoEmpties'
  <2>1. UNCHANGED <<claims, sent>> /\ \A w \in Writers : Same(w)
    BY <1>1, <1>6, ReaderAlone DEF Threads
  <2> QED BY <2>1 DEF NoEmpties, Same
<1>7. CASE UNCHANGED vars
  BY <1>7 DEF NoEmpties, vars, moves
<1> QED BY <1>3, <1>4, <1>5, <1>6, <1>7 DEF Next

(* With nobody calling there is nothing left to count or uncount.           *)
LEMMA CountSuffices == MInv /\ CountOK /\ NoEmpties => CountAtRest
<1> SUFFICES ASSUME MInv, CountOK, NoEmpties,
                    \A t \in Threads : pc[t] = "idle"
             PROVE  msgCount = (claims - taken) % CountMod
  BY DEF CountAtRest
<1>1. Putting = {} /\ Getting = {}
  BY DEF Putting, Getting, Uncounted, Counted, Threads
<1> DEFINE k == Cardinality(Unread)
<1>2. PICK q \in Int : msgCount + CountMod * q = k - 0 + 0
  BY <1>1, FS_EmptySet DEF CountOK
<1>3. k \in Int /\ msgCount \in 0 .. CountMod - 1 /\ CountMod \in Nat \ {0}
  BY CountTypes DEF MInv, PInv, PlaceInv, TypeOK, SharedOK
<1>4. k = CountMod * q + msgCount BY <1>2, <1>3
<1>5. k = claims - taken
  <2>1. claims \in Nat /\ taken \in Nat /\ taken <= claims
    BY DEF MInv, PInv, PlaceInv, TypeOK, HistoryOK, CursorsOK
  <2>2. Unread = taken + 1 .. claims BY <2>1 DEF Unread, NoEmpties
  <2>3. /\ taken + 1 \in Int /\ claims \in Int
        /\ taken + 1 > claims => claims - taken = 0
        /\ taken + 1 <= claims => claims - (taken + 1) + 1 = claims - taken
    BY <2>1
  <2>4. Cardinality(taken + 1 .. claims) =
          IF taken + 1 > claims THEN 0 ELSE claims - (taken + 1) + 1
    BY <2>3, FS_Interval
  <2>5. Cardinality(taken + 1 .. claims) = claims - taken
    BY <2>1, <2>3, <2>4
  <2> QED BY <2>2, <2>5
<1> HIDE DEF k
<1>6. k % CountMod = msgCount BY <1>3, <1>4, RemainderIs
<1> QED BY <1>5, <1>6

(* If no message is empty, m_msgCount is the number of messages in the      *)
(* queue whenever nobody is calling, modulo its width, while threads are    *)
(* timely.                                                                  *)
THEOREM CountCorrect ==
  ASSUME 0 \notin Lengths, BlockSize # 0
  PROVE  TimelySpec => []CountAtRest
<1>1. [Next /\ Timely']_vars => [Next]_vars OBVIOUS
<1>2. Init => NoEmpties BY DEF Init, NoEmpties, Threads
<1>3. MInv /\ NoEmpties /\ [Next]_vars => NoEmpties' BY NoEmptiesNext
<1> QED BY <1>1, <1>2, <1>3, CountInit, CountNext, CountSuffices,
           ContentsCorrect, PTL DEF TimelySpec

(* With one writer and one reader it is so however they are scheduled.      *)
THEOREM SoloCount ==
  ASSUME Solo, 0 \notin Lengths, BlockSize # 0
  PROVE  Spec => []CountAtRest
BY SoloIsTimelySpec, CountCorrect, PTL
=============================================================================
