------------------------------ MODULE Channel -------------------------------
(***************************************************************************)
(* One direction of the ring of shmIPC.h together with its event: who sets *)
(* the event when, and who waits for it.                                   *)
(*                                                                         *)
(* On the "data" side the setters are the writers in post_block, end is    *)
(* m_writeEnd, the waiters are the readers in get_block_read, start is     *)
(* m_readStart and the event is m_signal.  On the "room" side the setters  *)
(* are the readers in return_block, end is m_readEnd, the waiters are the  *)
(* writers in get_block_write, start is m_writeStart and the event is      *)
(* m_avail.  The other two cursors appear only in that end stops short of  *)
(* a full ring.  A cursor moves in one step, as the mailbox that the ring  *)
(* implements lets it; but between a waiter's load of start and what it    *)
(* makes of it anything may happen.                                        *)
(*                                                                         *)
(* A waiter that is returned from WaitForEvent, with whatever result, is   *)
(* idle again: it looks at the ring again, at once (continue) or when its  *)
(* caller, which loops, calls again.                                       *)
(***************************************************************************)
EXTENDS Event

CONSTANTS
  BlockCount,
  Callers,      \* waiters that look for more for ever, as main.cpp does
  Sides         \* "data", "room" or both

ASSUME ChannelAssumption ==
  /\ BlockCount \in Nat \ {0, 1}
  /\ Callers \subseteq Waiters /\ Waiters # {}
  /\ Sides \subseteq {"data", "room"}

VARIABLES
  side,         \* which direction this is; it never changes
  start, end,   \* cursors
  found,        \* of a waiter: None, or the index it has loaded from start
  duty          \* of a setter: None, ToSet, or the index it moved end from

channelVars == <<eventVars, side, start, end, found, duty>>

None  == -1
ToSet == -2

(* The value of start at which the waiters find nothing, with end at i      *)
Empty(i) == IF side = "data" THEN i ELSE (i + BlockCount - 1) % BlockCount

Available == (Empty(end) + BlockCount - start) % BlockCount

ChannelInit ==
  /\ Init
  /\ side \in Sides
  /\ start = 0 /\ end = 0   \* nothing to read, all but one block to write
  /\ found = [w \in Waiters |-> None]
  /\ duty = [s \in Setters |-> None]

MoveEnd(s) ==
  /\ pc[s] = "idle" /\ duty[s] = None
  /\ Available < BlockCount - 1
  /\ end' = (end + 1) % BlockCount
  /\ duty' = [duty EXCEPT ![s] = end]
  /\ UNCHANGED <<eventVars, side, start, found>>

OldGuard(i) == (i + BlockCount - 1) % BlockCount = start   \* a slip

SignalGuard(i) == Empty(i) = start

LookSignal(s) ==
  /\ duty[s] >= 0
  /\ duty' = [duty EXCEPT ![s] = IF SignalGuard(@) THEN ToSet ELSE None]
  /\ UNCHANGED <<eventVars, side, start, end, found>>

Signal(s) ==
  /\ duty[s] = ToSet
  /\ SetState(s)
  /\ duty' = [duty EXCEPT ![s] = None]
  /\ UNCHANGED <<side, start, end, found>>

Forget(w) == found' = [found EXCEPT ![w] = None]

Look(w) ==
  /\ pc[w] = "idle" /\ found[w] = None
  /\ found' = [found EXCEPT ![w] = start]
  /\ UNCHANGED <<eventVars, side, start, end, duty>>

(* The check and the compare-and-swap, if it succeeds: what the check found *)
(* is still there then (ClaimHasRoom of RingInv), while threads are prompt. *)
Take(w) ==
  /\ found[w] = start /\ Available > 0
  /\ start' = (start + 1) % BlockCount
  /\ Forget(w)
  /\ UNCHANGED <<eventVars, side, end, duty>>

TakeLost(w) ==   \* the other thread has already stolen this block
  /\ found[w] # None /\ found[w] # start
  /\ Forget(w)
  /\ UNCHANGED <<eventVars, side, start, end, duty>>

CallOnEmpty(w) ==   \* empty for the index loaded, not always for start
  /\ found[w] = Empty(end)
  /\ CallWait(w)
  /\ Forget(w)
  /\ UNCHANGED <<side, start, end, duty>>

Trying(w) == Look(w) \/ Take(w) \/ TakeLost(w) \/ CallOnEmpty(w)

Within(A) == A /\ UNCHANGED <<side, start, end, found, duty>>

ChannelNext ==
  \/ \E s \in Setters :
       MoveEnd(s) \/ LookSignal(s) \/ Signal(s) \/ Within(Notify(s))
  \/ \E w \in Waiters :
       \/ Trying(w)
       \/ Within(Waiting(w)) \/ Within(Locking(w)) \/ Within(Waking(w))
  \/ Within(SetKill) \/ Within(NotifyKill)

ChannelSpec == ChannelInit /\ [][ChannelNext]_channelVars

(* Threads run on; a thread that waits for the mutex gets it if it is       *)
(* released again and again; the deadline of a call is an absolute time, so *)
(* a thread that goes back to sleep again and again finds it passed.  The   *)
(* Callers receive or send for ever; the other waiters may stop when they   *)
(* are idle, and nobody need move end or destroy the event.                 *)
FairChannelSpec ==
  /\ ChannelSpec
  /\ \A s \in Setters : /\ WF_channelVars(LookSignal(s))
                         /\ SF_channelVars(Signal(s))
                         /\ WF_channelVars(Within(Notify(s)))
  /\ \A w \in Callers : WF_channelVars(Trying(w))
  /\ \A w \in Waiters :
       /\ WF_channelVars(Within(Waiting(w)))
       /\ SF_channelVars(Within(Locking(w)))
       /\ SF_channelVars(Within(WakeTimedOut(w)))
-----------------------------------------------------------------------------
(* Properties *)

Quiet == \A s \in Setters : pc[s] # "notify" /\ duty[s] = None

(* With the lock held by SetEvent, the guards of shmIPC.h:342 and 409       *)
(* suffice: when there is something to take and no setter has a signal to   *)
(* send, some waiter is awake.  An event that is set needs no signal: the   *)
(* waiter that clears it looks at the ring again.                           *)
SomebodyAwake ==
  locking /\ Quiet /\ Available > 0 => \E w \in Waiters : pc[w] # "asleep"

(* What is available is taken, with or without the lock: a wakeup that is   *)
(* lost, or that went to a waiter who wants no more, costs a timeout.  The  *)
(* waiters take again and again, or again and again nothing is left.        *)
EverythingIsTaken ==
  []<>(Available = 0) \/ []<><<start' # start>>_start
=============================================================================
