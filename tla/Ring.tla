-------------------------------- MODULE Ring --------------------------------
(***************************************************************************)
(* The lock-free ring of shared-memory blocks of ShmQueue (shmIPC.h):      *)
(* read(), write() and the four functions under them, get_block_write,     *)
(* post_block, get_block_read and return_block.                            *)
(*                                                                         *)
(* One action is one access to shared memory: a load, a store or an atomic *)
(* compare-and-swap, so that every interleaving of threads and processes   *)
(* the code allows is a behaviour.  Every thread has a program counter.    *)
(*                                                                         *)
(* WaitForEvent is seen from the ring only by its outcome: it returns > 0  *)
(* and the caller looks at the cursors again, or it does not and the call  *)
(* gives up.  Both may happen at any time.  The signals themselves         *)
(* (SetEvent) change no ring state and are left to module Event.           *)
(***************************************************************************)
EXTENDS Integers, Sequences

CONSTANTS
  Writers,      \* threads that call write()
  Readers,      \* threads that call read()
  BlockCount,   \* BLOCK_COUNT, the number of blocks of the ring
  BlockSize,    \* BLOCK_SIZE, the bytes a block holds
  Lengths,      \* the message lengths that write() is called with
  MaxWrites,    \* bound: messages accepted from each writer
  CountMod,     \* 2^32 in the code: m_msgCount is an uint32_t
  StoreBuffer   \* TRUE: a plain store may become visible after the thread's
                \* next load (x86); FALSE: sequential consistency

ASSUME RingAssumption ==
  /\ Writers \cap Readers = {}
  /\ BlockCount \in Nat /\ BlockCount >= 2   \* create() writes block 1
  /\ BlockSize \in Nat
  /\ Lengths \subseteq Nat
  /\ MaxWrites \in Nat
  /\ CountMod \in Nat /\ CountMod > BlockCount
  /\ StoreBuffer \in BOOLEAN

Threads == Writers \cup Readers
Blocks  == 0 .. BlockCount - 1
Next1Unwrapped(b) == b + 1   \* a slip (see Slips): the last block not linked
Next1(b) == IF b = BlockCount - 1 THEN 0 ELSE b + 1   \* block::Next
Least(m, n) == IF m <= n THEN m ELSE n

VARIABLES
  (* memBuff, the shared memory *)
  writeStart, writeEnd, readStart, readEnd,   \* the four cursors
  doneWrite, doneRead,                        \* flags of each block
  amount, data,                               \* contents of each block
  msgCount,
  (* locals of a thread's call *)
  pc,
  idx,      \* blockIndex, the cursor value last loaded
  own,      \* pBlock of read() or write(), the block acquired
  len,      \* dwAmount of write(), amount of read()
  early,    \* the cursor was loaded before the flag store became visible
  calls,    \* messages accepted from each writer: names its next payload
  (* history, read by no guard *)
  claims, published, taken, returned,   \* moves made by each cursor
  ticket,   \* which claim (writer) or take (reader) gave the thread its block
  lap,      \* number of moves the cursor in idx had made when it was loaded
  sent,     \* messages in the order their blocks were claimed
  inbox     \* messages copied out by each reader

cursors == <<writeStart, writeEnd, readStart, readEnd>>
blocks  == <<doneWrite, doneRead, amount, data>>
moves   == <<claims, published, taken, returned>>
vars == <<cursors, blocks, msgCount, pc, idx, own, len, early, calls,
          moves, ticket, lap, sent, inbox>>

Payload == Writers \X (1 .. MaxWrites)
Blank   == <<>>            \* contents of a block nothing was written to
Message == [payload : Payload \cup {Blank}, len : 0 .. BlockSize]

Goto(t, label) == pc' = [pc EXCEPT ![t] = label]
-----------------------------------------------------------------------------
(* create() has laid out the ring: all cursors on block 0, nothing done.   *)
Init ==
  /\ writeStart = 0 /\ writeEnd = 0 /\ readStart = 0 /\ readEnd = 0
  /\ doneWrite = [b \in Blocks |-> FALSE]
  /\ doneRead  = [b \in Blocks |-> FALSE]
  /\ amount    = [b \in Blocks |-> 0]
  /\ data      = [b \in Blocks |-> Blank]
  /\ msgCount = 0
  /\ pc     = [t \in Threads |-> "idle"]
  /\ idx    = [t \in Threads |-> 0]
  /\ own    = [t \in Threads |-> 0]
  /\ len    = [t \in Threads |-> 0]
  /\ early  = [t \in Threads |-> FALSE]
  /\ calls  = [w \in Writers |-> 0]
  /\ claims = 0 /\ published = 0 /\ taken = 0 /\ returned = 0
  /\ ticket = [t \in Threads |-> 0]
  /\ lap    = [t \in Threads |-> 0]
  /\ sent   = <<>>
  /\ inbox  = [r \in Readers |-> <<>>]
-----------------------------------------------------------------------------
(* Slips: actions of this module with one mistake each.  No behaviour of    *)
(* Spec uses them; put in an action's place, each must break a property.    *)

ClaimUncompared(w) ==   \* a store where the compare-and-swap should be
  /\ pc[w] = "cas"
  /\ writeStart' = Next1(idx[w])
  /\ own' = [own EXCEPT ![w] = idx[w]]
  /\ calls' = [calls EXCEPT ![w] = @ + 1]
  /\ claims' = claims + 1
  /\ ticket' = [ticket EXCEPT ![w] = claims]
  /\ sent' = Append(sent, [payload |-> <<w, calls[w] + 1>>, len |-> len[w]])
  /\ Goto(w, "fill")
  /\ UNCHANGED <<writeEnd, readStart, readEnd, blocks, msgCount, idx, len,
                 early, published, taken, returned, lap, inbox>>

CheckRoomTaken(w) ==   \* a block is free as soon as it is taken
  /\ pc[w] = "room"
  /\ Goto(w, IF Next1(idx[w]) = readStart THEN "await" ELSE "cas")
  /\ UNCHANGED <<cursors, blocks, msgCount, idx, own, len, early, calls,
                 moves, ticket, lap, sent, inbox>>

CheckRoomDropped(w) ==   \* nobody looks whether there is room
  /\ pc[w] = "room"
  /\ Goto(w, "cas")
  /\ UNCHANGED <<cursors, blocks, msgCount, idx, own, len, early, calls,
                 moves, ticket, lap, sent, inbox>>

CheckAvailClaimed(r) ==   \* a block may be read as soon as it is claimed
  /\ pc[r] = "avail"
  /\ Goto(r, IF idx[r] = writeStart THEN "await" ELSE "grab")
  /\ UNCHANGED <<cursors, blocks, msgCount, idx, own, len, early, calls,
                 moves, ticket, lap, sent, inbox>>

ConsumeWithoutReset(w) ==   \* the flag stays up for the next lap
  /\ pc[w] = "consume"
  /\ doneWrite[idx[w]]
  /\ Goto(w, "move")
  /\ UNCHANGED <<cursors, blocks, msgCount, idx, own, len, early, calls,
                 moves, ticket, lap, sent, inbox>>

MoveWriteEndOnce(w) ==   \* blocks finished out of order are left behind
  /\ pc[w] = "move"
  /\ IF writeEnd = idx[w]
       THEN writeEnd' = Next1(idx[w]) /\ published' = published + 1
       ELSE UNCHANGED <<writeEnd, published>>
  /\ Goto(w, "count")
  /\ UNCHANGED <<writeStart, readStart, readEnd, blocks, msgCount, idx, own,
                 len, early, calls, claims, taken, returned, ticket, lap,
                 sent, inbox>>

MoveReadEndOnce(r) ==
  /\ pc[r] = "retire"
  /\ IF readEnd = idx[r]
       THEN readEnd' = Next1(idx[r]) /\ returned' = returned + 1
       ELSE UNCHANGED <<readEnd, returned>>
  /\ Goto(r, "count")
  /\ UNCHANGED <<writeStart, writeEnd, readStart, blocks, msgCount, idx, own,
                 len, early, calls, claims, published, taken, ticket, lap,
                 sent, inbox>>

LoadWriteStartAsEnd(w) ==   \* post_block looks at the wrong cursor
  /\ pc[w] = "advance"
  /\ idx' = [idx EXCEPT ![w] = writeStart]
  /\ lap' = [lap EXCEPT ![w] = claims]
  /\ Goto(w, "consume")
  /\ UNCHANGED <<cursors, blocks, msgCount, own, len, early, calls,
                 moves, ticket, sent, inbox>>

IncrementUnlocked(w) ==   \* an increment by a load and a store loses others
  /\ pc[w] = "count"
  /\ \/ msgCount' = (msgCount + 1) % CountMod
     \/ (\E t \in Threads \ {w} : pc[t] = "count") /\ msgCount' = msgCount
  /\ Goto(w, "idle")
  /\ UNCHANGED <<cursors, blocks, idx, own, len, early, calls,
                 moves, ticket, lap, sent, inbox>>
-----------------------------------------------------------------------------
(* get_block_write: claim the block under m_writeStart.                    *)

StartWrite(w) ==
  /\ pc[w] = "idle"
  /\ calls[w] < MaxWrites
  /\ \E n \in Lengths : len' = [len EXCEPT ![w] = Least(n, BlockSize)]
  /\ Goto(w, "claim")
  /\ UNCHANGED <<cursors, blocks, msgCount, idx, own, early, calls,
                 moves, ticket, lap, sent, inbox>>

LoadWriteStart(w) ==
  /\ pc[w] = "claim"
  /\ idx' = [idx EXCEPT ![w] = writeStart]
  /\ lap' = [lap EXCEPT ![w] = claims]
  /\ Goto(w, "room")
  /\ UNCHANGED <<cursors, blocks, msgCount, own, len, early, calls,
                 moves, ticket, sent, inbox>>

CheckRoom(w) ==
  /\ pc[w] = "room"
  /\ Goto(w, IF Next1(idx[w]) = readEnd THEN "await" ELSE "cas")
  /\ UNCHANGED <<cursors, blocks, msgCount, idx, own, len, early, calls,
                 moves, ticket, lap, sent, inbox>>

(* WaitForEvent(m_avail): look again, or return nullptr and write() gives 0 *)
AwaitRoom(w) ==
  /\ pc[w] = "await"
  /\ \E next \in {"claim", "idle"} : Goto(w, next)
  /\ UNCHANGED <<cursors, blocks, msgCount, idx, own, len, early, calls,
                 moves, ticket, lap, sent, inbox>>

ClaimBlock(w) ==
  /\ pc[w] = "cas"
  /\ writeStart = idx[w]
  /\ writeStart' = Next1(idx[w])
  /\ own' = [own EXCEPT ![w] = idx[w]]
  /\ calls' = [calls EXCEPT ![w] = @ + 1]
  /\ claims' = claims + 1
  /\ ticket' = [ticket EXCEPT ![w] = claims]
  /\ sent' = Append(sent, [payload |-> <<w, calls[w] + 1>>, len |-> len[w]])
  /\ Goto(w, "fill")
  /\ UNCHANGED <<writeEnd, readStart, readEnd, blocks, msgCount, idx, len,
                 early, published, taken, returned, lap, inbox>>

ClaimLost(w) ==   \* the other thread has already stolen this block
  /\ pc[w] = "cas"
  /\ writeStart # idx[w]
  /\ Goto(w, "claim")
  /\ UNCHANGED <<cursors, blocks, msgCount, idx, own, len, early, calls,
                 moves, ticket, lap, sent, inbox>>
-----------------------------------------------------------------------------
(* write() fills the block; post_block publishes it and every finished     *)
(* block behind it by moving m_writeEnd.                                   *)

Fill(w) ==
  /\ pc[w] = "fill"
  /\ data' = [data EXCEPT ![own[w]] = <<w, calls[w]>>]
  /\ amount' = [amount EXCEPT ![own[w]] = len[w]]
  /\ Goto(w, "post")
  /\ UNCHANGED <<cursors, doneWrite, doneRead, msgCount, idx, own, len, early,
                 calls, moves, ticket, lap, sent, inbox>>

SetDoneWrite(w) ==
  /\ pc[w] = "post"
  /\ doneWrite' = [doneWrite EXCEPT ![own[w]] = TRUE]
  /\ early' = [early EXCEPT ![w] = FALSE]
  /\ Goto(w, IF early[w] THEN "consume" ELSE "advance")
  /\ UNCHANGED <<cursors, doneRead, amount, data, msgCount, idx, own, len,
                 calls, moves, ticket, lap, sent, inbox>>

(* The processor lets the load of m_writeEnd overtake the buffered stores to *)
(* the block; the locked compare-and-swap that follows drains the stores.    *)
EarlyLoadWriteEnd(w) ==
  /\ StoreBuffer
  /\ pc[w] \in {"fill", "post"} /\ ~early[w]
  /\ early' = [early EXCEPT ![w] = TRUE]
  /\ idx' = [idx EXCEPT ![w] = writeEnd]
  /\ lap' = [lap EXCEPT ![w] = published]
  /\ UNCHANGED <<cursors, blocks, msgCount, pc, own, len, calls,
                 moves, ticket, sent, inbox>>

LoadWriteEnd(w) ==
  /\ pc[w] = "advance"
  /\ idx' = [idx EXCEPT ![w] = writeEnd]
  /\ lap' = [lap EXCEPT ![w] = published]
  /\ Goto(w, "consume")
  /\ UNCHANGED <<cursors, blocks, msgCount, own, len, early, calls,
                 moves, ticket, sent, inbox>>

ConsumeDoneWrite(w) ==
  /\ pc[w] = "consume"
  /\ doneWrite[idx[w]]
  /\ doneWrite' = [doneWrite EXCEPT ![idx[w]] = FALSE]
  /\ Goto(w, "move")
  /\ UNCHANGED <<cursors, doneRead, amount, data, msgCount, idx, own, len,
                 early, calls, moves, ticket, lap, sent, inbox>>

PostReturns(w) ==   \* nothing to consume: post_block returns to write()
  /\ pc[w] = "consume"
  /\ ~doneWrite[idx[w]]
  /\ Goto(w, "count")
  /\ UNCHANGED <<cursors, blocks, msgCount, idx, own, len, early, calls,
                 moves, ticket, lap, sent, inbox>>

MoveWriteEnd(w) ==
  /\ pc[w] = "move"
  /\ IF writeEnd = idx[w]
       THEN writeEnd' = Next1(idx[w]) /\ published' = published + 1
       ELSE UNCHANGED <<writeEnd, published>>
  /\ Goto(w, "advance")
  /\ UNCHANGED <<writeStart, readStart, readEnd, blocks, msgCount, idx, own,
                 len, early, calls, claims, taken, returned, ticket, lap,
                 sent, inbox>>

IncrementCount(w) ==
  /\ pc[w] = "count"
  /\ msgCount' = (msgCount + 1) % CountMod
  /\ Goto(w, "idle")
  /\ UNCHANGED <<cursors, blocks, idx, own, len, early, calls,
                 moves, ticket, lap, sent, inbox>>
-----------------------------------------------------------------------------
(* get_block_read: take the block under m_readStart.                       *)

StartRead(r) ==
  /\ pc[r] = "idle"
  /\ Goto(r, "take")
  /\ UNCHANGED <<cursors, blocks, msgCount, idx, own, len, early, calls,
                 moves, ticket, lap, sent, inbox>>

LoadReadStart(r) ==
  /\ pc[r] = "take"
  /\ idx' = [idx EXCEPT ![r] = readStart]
  /\ lap' = [lap EXCEPT ![r] = taken]
  /\ Goto(r, "avail")
  /\ UNCHANGED <<cursors, blocks, msgCount, own, len, early, calls,
                 moves, ticket, sent, inbox>>

CheckAvail(r) ==
  /\ pc[r] = "avail"
  /\ Goto(r, IF idx[r] = writeEnd THEN "await" ELSE "grab")
  /\ UNCHANGED <<cursors, blocks, msgCount, idx, own, len, early, calls,
                 moves, ticket, lap, sent, inbox>>

(* WaitForEvent(m_signal): look again, or give up and read() returns 0      *)
AwaitData(r) ==
  /\ pc[r] = "await"
  /\ \E next \in {"take", "idle"} : Goto(r, next)
  /\ UNCHANGED <<cursors, blocks, msgCount, idx, own, len, early, calls,
                 moves, ticket, lap, sent, inbox>>

TakeBlock(r) ==
  /\ pc[r] = "grab"
  /\ readStart = idx[r]
  /\ readStart' = Next1(idx[r])
  /\ own' = [own EXCEPT ![r] = idx[r]]
  /\ taken' = taken + 1
  /\ ticket' = [ticket EXCEPT ![r] = taken]
  /\ Goto(r, "size")
  /\ UNCHANGED <<writeStart, writeEnd, readEnd, blocks, msgCount, idx, len,
                 early, calls, claims, published, returned, lap, sent, inbox>>

TakeLost(r) ==
  /\ pc[r] = "grab"
  /\ readStart # idx[r]
  /\ Goto(r, "take")
  /\ UNCHANGED <<cursors, blocks, msgCount, idx, own, len, early, calls,
                 moves, ticket, lap, sent, inbox>>
-----------------------------------------------------------------------------
(* read() looks at the length, copies the block out and returns it;        *)
(* a block of length 0 is returned uncopied and the loop starts again.     *)

ReadAmount(r) ==
  /\ pc[r] = "size"
  /\ len' = [len EXCEPT ![r] = amount[own[r]]]
  /\ Goto(r, IF amount[own[r]] = 0 THEN "release" ELSE "copy")
  /\ UNCHANGED <<cursors, blocks, msgCount, idx, own, early, calls,
                 moves, ticket, lap, sent, inbox>>

Copy(r) ==   \* Amount is not volatile: loaded again, or the value of before
  /\ pc[r] = "copy"
  /\ \E n \in {len[r], amount[own[r]]} :
       inbox' = [inbox EXCEPT ![r] =
                   Append(@, [payload |-> data[own[r]],
                              len |-> Least(n, BlockSize)])]
  /\ Goto(r, "release")
  /\ UNCHANGED <<cursors, blocks, msgCount, idx, own, len, early, calls,
                 moves, ticket, lap, sent>>

SetDoneRead(r) ==
  /\ pc[r] = "release"
  /\ doneRead' = [doneRead EXCEPT ![own[r]] = TRUE]
  /\ Goto(r, "clear")
  /\ UNCHANGED <<cursors, doneWrite, amount, data, msgCount, idx, own, len,
                 early, calls, moves, ticket, lap, sent, inbox>>

ClearAmount(r) ==
  /\ pc[r] = "clear"
  /\ amount' = [amount EXCEPT ![own[r]] = 0]
  /\ early' = [early EXCEPT ![r] = FALSE]
  /\ Goto(r, IF early[r] THEN "unmark" ELSE "reclaim")
  /\ UNCHANGED <<cursors, doneWrite, doneRead, data, msgCount, idx, own, len,
                 calls, moves, ticket, lap, sent, inbox>>

EarlyLoadReadEnd(r) ==   \* as EarlyLoadWriteEnd, past one store or both
  /\ StoreBuffer
  /\ pc[r] \in {"release", "clear"} /\ ~early[r]
  /\ early' = [early EXCEPT ![r] = TRUE]
  /\ idx' = [idx EXCEPT ![r] = readEnd]
  /\ lap' = [lap EXCEPT ![r] = returned]
  /\ UNCHANGED <<cursors, blocks, msgCount, pc, own, len, calls,
                 moves, ticket, sent, inbox>>

LoadReadEnd(r) ==
  /\ pc[r] = "reclaim"
  /\ idx' = [idx EXCEPT ![r] = readEnd]
  /\ lap' = [lap EXCEPT ![r] = returned]
  /\ Goto(r, "unmark")
  /\ UNCHANGED <<cursors, blocks, msgCount, own, len, early, calls,
                 moves, ticket, sent, inbox>>

ConsumeDoneRead(r) ==
  /\ pc[r] = "unmark"
  /\ doneRead[idx[r]]
  /\ doneRead' = [doneRead EXCEPT ![idx[r]] = FALSE]
  /\ Goto(r, "retire")
  /\ UNCHANGED <<cursors, doneWrite, amount, data, msgCount, idx, own, len,
                 early, calls, moves, ticket, lap, sent, inbox>>

ReturnReturns(r) ==   \* return_block returns: next block, or end of read()
  /\ pc[r] = "unmark"
  /\ ~doneRead[idx[r]]
  /\ Goto(r, IF len[r] = 0 THEN "take" ELSE "count")
  /\ UNCHANGED <<cursors, blocks, msgCount, idx, own, len, early, calls,
                 moves, ticket, lap, sent, inbox>>

MoveReadEnd(r) ==
  /\ pc[r] = "retire"
  /\ IF readEnd = idx[r]
       THEN readEnd' = Next1(idx[r]) /\ returned' = returned + 1
       ELSE UNCHANGED <<readEnd, returned>>
  /\ Goto(r, "reclaim")
  /\ UNCHANGED <<writeStart, writeEnd, readStart, blocks, msgCount, idx, own,
                 len, early, calls, claims, published, taken, ticket, lap,
                 sent, inbox>>

DecrementCount(r) ==
  /\ pc[r] = "count"
  /\ msgCount' = (msgCount - 1) % CountMod
  /\ Goto(r, "idle")
  /\ UNCHANGED <<cursors, blocks, idx, own, len, early, calls,
                 moves, ticket, lap, sent, inbox>>
-----------------------------------------------------------------------------
Writer(w) ==
  \/ StartWrite(w) \/ LoadWriteStart(w) \/ CheckRoom(w) \/ AwaitRoom(w)
  \/ ClaimBlock(w) \/ ClaimLost(w) \/ Fill(w) \/ SetDoneWrite(w)
  \/ EarlyLoadWriteEnd(w) \/ LoadWriteEnd(w) \/ ConsumeDoneWrite(w)
  \/ PostReturns(w) \/ MoveWriteEnd(w) \/ IncrementCount(w)

Reader(r) ==
  \/ StartRead(r) \/ LoadReadStart(r) \/ CheckAvail(r) \/ AwaitData(r)
  \/ TakeBlock(r) \/ TakeLost(r) \/ ReadAmount(r) \/ Copy(r)
  \/ SetDoneRead(r) \/ ClearAmount(r) \/ EarlyLoadReadEnd(r)
  \/ LoadReadEnd(r) \/ ConsumeDoneRead(r) \/ ReturnReturns(r)
  \/ MoveReadEnd(r) \/ DecrementCount(r)

Next == (\E w \in Writers : Writer(w)) \/ (\E r \in Readers : Reader(r))

Spec == Init /\ [][Next]_vars
=============================================================================
