------------------------------ MODULE Earlier -------------------------------
(***************************************************************************)
(* The two earlier versions of the ring that the repository keeps:         *)
(* "impl" (shmIPC_impl.h, with semaphores) and "before"                    *)
(* (shmIPC_before_postcrement.h, with the events of events.h).  In both    *)
(* the write cursors start one block ahead of the read cursors, so that    *)
(* the first block a reader gets is blank.                                 *)
(*                                                                         *)
(* Where their code is that of shmIPC.h an action of module Ring is taken  *)
(* as it is.  Here are the actions that differ, and the signals and the    *)
(* counter, which these versions handle after every block that a cursor    *)
(* moves over: what a thread still has to do before its next action of     *)
(* the ring is its duty.                                                   *)
(***************************************************************************)
EXTENDS RingInv

CONSTANT Versions   \* "impl", "before" or both

ASSUME VersionsAssumption == Versions \subseteq {"impl", "before"}

VARIABLES
  version,         \* never changes
  signal, avail,   \* value of the semaphore, or 1 for an event that is set
  duty             \* of each thread

waits == <<signal, avail>>
earlierVars == <<vars, version, waits, duty>>

Duties == {"none", "guard", "wake", "count", "reset"}

Owe(t, d) == duty' = [duty EXCEPT ![t] = d]

(* create() leaves one block between the cursors.  To a reader it is a      *)
(* message of length 0.                                                     *)
BlankMessage == [payload |-> Blank, len |-> 0]

EarlierInit ==
  /\ version \in Versions
  /\ signal = (IF version = "impl" THEN 1 ELSE 0) /\ avail = signal
  /\ duty = [t \in Threads |-> "none"]
  /\ writeStart = 1 /\ writeEnd = 1 /\ readStart = 0 /\ readEnd = 0
  /\ doneWrite = [b \in Blocks |-> FALSE]
  /\ doneRead  = [b \in Blocks |-> FALSE]
  /\ amount    = [b \in Blocks |-> 0]
  /\ data      = [b \in Blocks |-> Blank]
  /\ msgCount = 0
  /\ pc     = [t \in Threads |-> "idle"]
  /\ idx    = [t \in Threads |-> 0]
  /\ own    = [t \in Threads |-> 0]
  /\ len    = [t \in Threads |-> 0]
  /\ early  = [t \in Threads |-> FALSE]
  /\ calls  = [w \in Writers |-> 0]
  /\ claims = 1 /\ published = 1 /\ taken = 0 /\ returned = 0
  /\ ticket = [t \in Threads |-> 0]
  /\ lap    = [t \in Threads |-> 0]
  /\ sent   = <<BlankMessage>>
  /\ inbox  = [r \in Readers |-> <<>>]
-----------------------------------------------------------------------------
(* A slip: no behaviour uses it; put in the place of the definition that it *)
(* differs from by one mistake, it must break a property.                   *)

PrevForgotten(b) == b   \* the guards look at the block itself
-----------------------------------------------------------------------------
(* Signals and the counter *)

Prev(b) == IF b = 0 THEN BlockCount - 1 ELSE b - 1   \* block::Prev

Raised(s) == IF version = "impl" THEN s + 1 ELSE 1   \* sem.post, SetEvent

(* Signal, but only if threads are waiting: if the block before the one     *)
(* moved over is where the other side's start cursor is.                    *)
GuardSignal(t) ==
  /\ duty[t] = "guard"
  /\ LET start == IF t \in Writers THEN readStart ELSE writeStart
     IN  Owe(t, IF Prev(idx[t]) = start THEN "wake" ELSE "count")
  /\ UNCHANGED <<vars, version, waits>>

Signal(t) ==
  /\ duty[t] = "wake"
  /\ IF t \in Writers
       THEN signal' = Raised(signal) /\ UNCHANGED avail
       ELSE avail' = Raised(avail) /\ UNCHANGED signal
  /\ Owe(t, "count")
  /\ UNCHANGED <<vars, version>>

Count(t) ==   \* incrementCount, decrementCount
  /\ duty[t] = "count"
  /\ msgCount' = (IF t \in Writers THEN msgCount + 1 ELSE msgCount - 1)
                   % CountMod
  /\ Owe(t, "none")
  /\ UNCHANGED <<cursors, blocks, pc, idx, own, len, early, calls,
                 moves, ticket, lap, sent, inbox, version, waits>>

ResetEvent(t) ==   \* ClearEvent at the end of WaitForEvent
  /\ duty[t] = "reset"
  /\ IF t \in Writers
       THEN avail' = 0 /\ UNCHANGED signal
       ELSE signal' = 0 /\ UNCHANGED avail
  /\ Owe(t, "none")
  /\ UNCHANGED <<vars, version>>

(* timed_wait takes one from the semaphore; WaitForEvent finds the event    *)
(* set and has yet to clear it.  AwaitRoom and AwaitData of Ring say where  *)
(* the caller goes: back to its cursor if it was woken.                     *)
Woken(t, s) ==
  /\ s > 0
  /\ pc'[t] # "idle"
  /\ Owe(t, IF version = "impl" THEN "none" ELSE "reset")

(* The time is up.  WaitForEvent clears the event even so.                  *)
TimedOut(t) ==
  /\ pc'[t] = "idle"
  /\ Owe(t, IF version = "impl" THEN "none" ELSE "reset")

Lowered(s) == IF version = "impl" THEN s - 1 ELSE s

WaitRoom(w) ==
  /\ AwaitRoom(w)
  /\ \/ Woken(w, avail) /\ avail' = Lowered(avail)
     \/ TimedOut(w) /\ UNCHANGED avail
  /\ UNCHANGED <<version, signal>>

WaitData(r) ==
  /\ AwaitData(r)
  /\ \/ Woken(r, signal) /\ signal' = Lowered(signal)
     \/ TimedOut(r) /\ UNCHANGED signal
  /\ UNCHANGED <<version, avail>>
-----------------------------------------------------------------------------
(* Where get_block_read, return_block and post_block differ                 *)

(* "impl" keeps one block unread in hand.                                   *)
ImplCheckAvail(r) ==
  /\ pc[r] = "avail"
  /\ Goto(r, IF Next1(idx[r]) = writeEnd THEN "await" ELSE "grab")
  /\ UNCHANGED <<cursors, blocks, msgCount, idx, own, len, early, calls,
                 moves, ticket, lap, sent, inbox>>

LookForData(r) ==
  IF version = "impl" THEN ImplCheckAvail(r) ELSE CheckAvail(r)

(* "impl" does not clear Amount.                                            *)
ImplSetDoneRead(r) ==
  /\ pc[r] = "release"
  /\ doneRead' = [doneRead EXCEPT ![own[r]] = TRUE]
  /\ early' = [early EXCEPT ![r] = FALSE]
  /\ Goto(r, IF early[r] THEN "unmark" ELSE "reclaim")
  /\ UNCHANGED <<cursors, doneWrite, amount, data, msgCount, idx, own, len,
                 calls, moves, ticket, lap, sent, inbox>>

GiveBack(r) ==
  IF version = "impl" THEN ImplSetDoneRead(r) ELSE SetDoneRead(r)

(* The count is that of the moves: there is nothing to do after the loop.   *)
PostEnds(w) ==
  /\ pc[w] = "consume"
  /\ ~doneWrite[idx[w]]
  /\ Goto(w, "idle")
  /\ UNCHANGED <<cursors, blocks, msgCount, idx, own, len, early, calls,
                 moves, ticket, lap, sent, inbox>>

ReturnEnds(r) ==   \* read() of "before" goes on after a block of length 0
  /\ pc[r] = "unmark"
  /\ ~doneRead[idx[r]]
  /\ Goto(r, IF version = "before" /\ len[r] = 0 THEN "take" ELSE "idle")
  /\ UNCHANGED <<cursors, blocks, msgCount, idx, own, len, early, calls,
                 moves, ticket, lap, sent, inbox>>
-----------------------------------------------------------------------------
WriterRings(w) ==   \* ShmClient in "impl"
  \/ StartWrite(w) \/ LoadWriteStart(w) \/ CheckRoom(w)
  \/ ClaimBlock(w) \/ ClaimLost(w) \/ Fill(w) \/ SetDoneWrite(w)
  \/ EarlyLoadWriteEnd(w) \/ LoadWriteEnd(w) \/ ConsumeDoneWrite(w)
  \/ PostEnds(w)

ReaderRings(r) ==   \* ShmQueue
  \/ StartRead(r) \/ LoadReadStart(r) \/ LookForData(r)
  \/ TakeBlock(r) \/ TakeLost(r) \/ ReadAmount(r) \/ Copy(r) \/ GiveBack(r)
  \/ ClearAmount(r) \/ EarlyLoadReadEnd(r) \/ LoadReadEnd(r)
  \/ ConsumeDoneRead(r) \/ ReturnEnds(r)

EarlierWriter(w) ==
  /\ duty[w] = "none"
  /\ \/ WriterRings(w) /\ UNCHANGED <<version, waits, duty>>
     \/ MoveWriteEnd(w) /\ Owe(w, "guard") /\ UNCHANGED <<version, waits>>
     \/ WaitRoom(w)

EarlierReader(r) ==
  /\ duty[r] = "none"
  /\ \/ ReaderRings(r) /\ UNCHANGED <<version, waits, duty>>
     \/ MoveReadEnd(r) /\ Owe(r, "guard") /\ UNCHANGED <<version, waits>>
     \/ WaitData(r)

Discharge(t) == GuardSignal(t) \/ Signal(t) \/ Count(t) \/ ResetEvent(t)

EarlierNext ==
  \/ \E w \in Writers : EarlierWriter(w)
  \/ \E r \in Readers : EarlierReader(r)
  \/ \E t \in Threads : Discharge(t)

(* Under the scheduling assumptions of the ring: the code of these versions *)
(* has the windows of today's, return_block of "impl" but one of them.      *)
EarlierTimely == Prompt /\ (version = "before" => ClearsInTime)

EarlierSpec == EarlierInit /\ [][EarlierNext /\ EarlierTimely']_earlierVars
-----------------------------------------------------------------------------
(* Properties *)

(* Every variable has its type, as in today's ring.                         *)
EarlierTypeOK ==
  /\ TypeOK
  /\ version \in Versions
  /\ signal \in Nat /\ avail \in Nat
  /\ duty \in [Threads -> Duties]

(* Both versions keep the promise that the ring keeps today: every message  *)
(* is handed to one reader, in the order of acceptance and as it was sent,  *)
(* and the blank block goes round unseen.                                   *)
Less(n) == IF n = 0 THEN 0 ELSE n - 1

Unblanked == INSTANCE Mailbox WITH
  Capacity <- BlockCount - 1,
  MaxLen   <- BlockSize,
  sent     <- Tail(sent),
  visible  <- Less(published),
  taken    <- Less(taken),
  freed    <- Less(returned),
  holding  <- [r \in Readers |-> Less(Held(r))]

EarlierImplements == Unblanked!MailSpec

(* Nobody is in the middle of a call, except to wait.                       *)
Quiet == \A t \in Threads : pc[t] \in {"idle", "await"} /\ duty[t] = "none"

(* In "impl" readers do not all sleep over unread messages, with no wakeup  *)
(* on the way, but for the one block that the read cursor keeps in hand.    *)
(* (In "before" they may: the emptiness check has changed there and the     *)
(* guard of the signal has not, so that a lone message wakes nobody.)       *)
ReadersWoken ==
  Quiet /\ version = "impl" /\ signal = 0 /\ (\A r \in Readers : pc[r] = "await")
    => published - taken <= 1

(* Writers do not all sleep while there is room, with no wakeup on the way: *)
(* one of them may, having looked at an old index.                          *)
WritersWoken ==
  Quiet /\ avail = 0 /\ (\A w \in Writers : pc[w] = "await")
    => claims + 1 = returned + BlockCount
=============================================================================
