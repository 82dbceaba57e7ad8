--------------------------- MODULE ChannelProofs ----------------------------
(***************************************************************************)
(* Proofs about the event, and about one direction of the ring with its    *)
(* event, for any number of threads and blocks.                            *)
(***************************************************************************)
EXTENDS Channel, TLAPS

USE EventAssumption DEF EventAssumption
USE ChannelAssumption DEF ChannelAssumption
-----------------------------------------------------------------------------
(* The event by itself, in both versions, for any timeouts. *)

(* The mutex, and with it every type, is kept by each step.                 *)
LEMMA TypeNext ==
  ASSUME TypeOK, [Next]_eventVars
  PROVE  TypeOK'
<1> USE DEF TypeOK, Threads, Locked, SlowPath, Goto
<1>1. ASSUME NEW s \in Setters, SetState(s) PROVE TypeOK'
  BY <1>1 DEF SetState, SetLocks
<1>2. ASSUME NEW s \in Setters, Notify(s) PROVE TypeOK'
  BY <1>2 DEF Notify, SetUnlocks, Broadcast
<1>3. CASE SetKill BY <1>3 DEF SetKill
<1>4. CASE NotifyKill BY <1>4 DEF NotifyKill, Broadcast
<1>5. ASSUME NEW w \in Waiters, CallWait(w) PROVE TypeOK'
  BY <1>5 DEF CallWait
<1>6. ASSUME NEW w \in Waiters, Waiting(w) PROVE TypeOK'
  <2>1. CASE LookAtState(w) BY <2>1 DEF LookAtState
  <2>2. CASE TestLoop(w) BY <2>2 DEF TestLoop
  <2>3. CASE WaitInvalid(w) BY <2>3 DEF WaitInvalid
  <2>4. CASE WaitPast(w) BY <2>4 DEF WaitPast
  <2>5. CASE Sleep(w) BY <2>5 DEF Sleep
  <2>6. CASE UnlockMutex(w) BY <2>6 DEF UnlockMutex
  <2>7. CASE ReturnFromWait(w) BY <2>7 DEF ReturnFromWait, Leave
  <2> QED BY <1>6, <2>1, <2>2, <2>3, <2>4, <2>5, <2>6, <2>7 DEF Waiting
<1>7. ASSUME NEW w \in Waiters, Locking(w) PROVE TypeOK'
  <2>1. CASE LockMutex(w)
    <3>1. valid' \in [Waiters -> BOOLEAN]
      BY <2>1 DEF LockMutex, Deadline, ValidNanos
    <3> QED BY <2>1, <3>1 DEF LockMutex
  <2>2. CASE Relock(w) BY <2>2 DEF Relock
  <2>3. CASE ClearAfterWait(w) BY <2>3 DEF ClearAfterWait
  <2>4. CASE ClearAndReturn(w) BY <2>4 DEF ClearAndReturn, Leave
  <2> QED BY <1>7, <2>1, <2>2, <2>3, <2>4 DEF Locking
<1>8. ASSUME NEW w \in Waiters, Waking(w) PROVE TypeOK'
  BY <1>8 DEF Waking, WakeTimedOut, WakeSpurious
<1>9. CASE UNCHANGED eventVars BY <1>9 DEF eventVars
<1> QED BY <1>1, <1>2, <1>3, <1>4, <1>5, <1>6, <1>7, <1>8, <1>9
        DEF Next, Waiter

(* CreateEvent makes an event of its type.                                  *)
LEMMA TypeInit == Init => TypeOK
<1> SUFFICES ASSUME Init PROVE TypeOK OBVIOUS
<1>1. /\ locking \in BOOLEAN /\ state \in {0, 1} /\ kill \in BOOLEAN
      /\ mutex \in Setters \cup Waiters \cup {NoThread}
  BY DEF Init
<1>2. pc \in [Threads -> {"idle", "notify", "destroyed", "look", "clearset"}
                            \cup SlowPath]
  BY DEF Init
<1>3. \A w \in Waiters : pc[w] \in Locked <=> mutex = w
  BY DEF Init, Threads, Locked
<1>4. \A s \in Setters : locking /\ pc[s] = "notify" <=> mutex = s
  BY DEF Init, Threads
<1>5. /\ valid \in [Waiters -> BOOLEAN]
      /\ ret \in [Waiters -> {"ok", "timedout", "invalid"}]
      /\ seen \in [Waiters -> BOOLEAN]
  BY DEF Init
<1> QED BY <1>1, <1>2, <1>3, <1>4, <1>5 DEF TypeOK

(* Every variable has its type, and mtx_ is held by the one thread that is  *)
(* between its lock and its unlock (events2.h:75-90, events.h:34-48).       *)
THEOREM TypeCorrect == Spec => []TypeOK
<1> QED BY TypeInit, TypeNext, PTL DEF Spec
-----------------------------------------------------------------------------
(* WaitForEvent returns 1 only if the event was set.                        *)

(* What a call knows of state_: it has seen it set if it is set now, and if *)
(* it has left the loop with neither an error nor a kill.                   *)
Seen(w) ==
  /\ state = 1 /\ pc[w] # "idle" => seen[w]
  /\ pc[w] \in {"unlock", "clear", "return"} /\ ret[w] = "ok" /\ ~kill
       => seen[w]
  /\ pc[w] = "clearset" => seen[w]

(* No step forgets that a waiter has seen the event set.                    *)
LEMMA SeenNext ==
  ASSUME TypeOK, NEW v \in Waiters, Seen(v), [Next]_eventVars
  PROVE  Seen(v)'
<1> USE DEF Seen, TypeOK, Threads, Goto
<1>1. ASSUME NEW s \in Setters, SetState(s) PROVE Seen(v)'
  BY <1>1 DEF SetState
<1>2. ASSUME NEW s \in Setters, Notify(s) PROVE Seen(v)'
  BY <1>2 DEF Notify, Broadcast
<1>3. CASE SetKill BY <1>3 DEF SetKill
<1>4. CASE NotifyKill BY <1>4 DEF NotifyKill, Broadcast
<1>5. ASSUME NEW w \in Waiters, CallWait(w) PROVE Seen(v)'
  BY <1>5 DEF CallWait
<1>6. ASSUME NEW w \in Waiters, Waiting(w) PROVE Seen(v)'
  <2>1. CASE LookAtState(w) BY <2>1 DEF LookAtState
  <2>2. CASE TestLoop(w) BY <2>2 DEF TestLoop
  <2>3. CASE WaitInvalid(w) BY <2>3 DEF WaitInvalid
  <2>4. CASE WaitPast(w) BY <2>4 DEF WaitPast
  <2>5. CASE Sleep(w) BY <2>5 DEF Sleep
  <2>6. CASE UnlockMutex(w) BY <2>6 DEF UnlockMutex
  <2>7. CASE ReturnFromWait(w) BY <2>7 DEF ReturnFromWait, Leave
  <2> QED BY <1>6, <2>1, <2>2, <2>3, <2>4, <2>5, <2>6, <2>7 DEF Waiting
<1>7. ASSUME NEW w \in Waiters, Locking(w) PROVE Seen(v)'
  <2>1. CASE LockMutex(w) BY <2>1 DEF LockMutex
  <2>2. CASE Relock(w) BY <2>2 DEF Relock
  <2>3. CASE ClearAfterWait(w) BY <2>3 DEF ClearAfterWait
  <2>4. CASE ClearAndReturn(w) BY <2>4 DEF ClearAndReturn, Leave
  <2> QED BY <1>7, <2>1, <2>2, <2>3, <2>4 DEF Locking
<1>8. ASSUME NEW w \in Waiters, Waking(w) PROVE Seen(v)'
  BY <1>8 DEF Waking, WakeTimedOut, WakeSpurious
<1>9. CASE UNCHANGED eventVars BY <1>9 DEF eventVars
<1> QED BY <1>1, <1>2, <1>3, <1>4, <1>5, <1>6, <1>7, <1>8, <1>9
        DEF Next, Waiter

SeenOK == \A w \in Waiters : Seen(w)

(* A call that is about to return 1 has left the loop with neither an error *)
(* nor a kill, or not entered it.                                           *)
LEMMA SeenSuffices == TypeOK /\ SeenOK => SuccessMeansSet
<1> SUFFICES ASSUME TypeOK, SeenOK, NEW w \in Waiters,
                    pc[w] \in {"return", "clearset"}, Result(w) = 1
             PROVE  seen[w]
  BY DEF SuccessMeansSet
<1>1. CASE pc[w] = "clearset" BY <1>1 DEF SeenOK, Seen
<1>2. CASE pc[w] = "return"
  <2>1. ~kill BY <1>2 DEF Result
  <2>2. ret[w] \in {"ok", "timedout", "invalid"} BY DEF TypeOK
  <2>3. ret[w] = "ok" BY <1>2, <2>1, <2>2 DEF Result
  <2> QED BY <1>2, <2>1, <2>3 DEF SeenOK, Seen
<1> QED BY <1>1, <1>2

(* WaitForEvent returns 1 (events2.h:99 and 110) only if the event was set  *)
(* during the call, whatever woke it.                                       *)
THEOREM SuccessCorrect == Spec => []SuccessMeansSet
<1>1. Init => SeenOK BY DEF Init, SeenOK, Seen, Threads
<1>2. TypeOK /\ SeenOK /\ [Next]_eventVars => SeenOK'
  BY SeenNext DEF SeenOK
<1> QED BY <1>1, <1>2, TypeCorrect, SeenSuffices, PTL DEF Spec
-----------------------------------------------------------------------------
(* With the lock, nobody sleeps on a set event.                             *)

Told == \A s \in Setters : pc[s] # "notify"

(* The waiters that tested state_ before it was set are gone when its       *)
(* setter has returned: one that has not slept yet holds the mutex.         *)
Asleep ==
  locking /\ state = 1 /\ Told
    => \A w \in Waiters : pc[w] \notin {"wait", "asleep"}

(* With the lock, nobody is left asleep on a set event.                     *)
LEMMA AsleepNext ==
  ASSUME TypeOK, Asleep, [Next]_eventVars
  PROVE  Asleep'
<1> USE DEF Asleep, Told, TypeOK, Threads, Goto, Locked
<1>1. ASSUME NEW s \in Setters, SetState(s) PROVE Asleep'
  BY <1>1 DEF SetState
<1>2. ASSUME NEW s \in Setters, Notify(s) PROVE Asleep'
  BY <1>2 DEF Notify, Broadcast
<1>3. CASE SetKill BY <1>3 DEF SetKill
<1>4. CASE NotifyKill BY <1>4 DEF NotifyKill, Broadcast
<1>5. ASSUME NEW w \in Waiters, CallWait(w) PROVE Asleep'
  BY <1>5 DEF CallWait
<1>6. ASSUME NEW w \in Waiters, Waiting(w) PROVE Asleep'
  <2>1. CASE LookAtState(w) BY <2>1 DEF LookAtState
  <2>2. CASE TestLoop(w) BY <2>2 DEF TestLoop
  <2>3. CASE WaitInvalid(w) BY <2>3 DEF WaitInvalid
  <2>4. CASE WaitPast(w) BY <2>4 DEF WaitPast
  <2>5. CASE Sleep(w) BY <2>5 DEF Sleep
  <2>6. CASE UnlockMutex(w) BY <2>6 DEF UnlockMutex
  <2>7. CASE ReturnFromWait(w) BY <2>7 DEF ReturnFromWait, Leave
  <2> QED BY <1>6, <2>1, <2>2, <2>3, <2>4, <2>5, <2>6, <2>7 DEF Waiting
<1>7. ASSUME NEW w \in Waiters, Locking(w) PROVE Asleep'
  <2>1. CASE LockMutex(w) BY <2>1 DEF LockMutex
  <2>2. CASE Relock(w) BY <2>2 DEF Relock
  <2>3. CASE ClearAfterWait(w) BY <2>3 DEF ClearAfterWait
  <2>4. CASE ClearAndReturn(w) BY <2>4 DEF ClearAndReturn, Leave
  <2> QED BY <1>7, <2>1, <2>2, <2>3, <2>4 DEF Locking
<1>8. ASSUME NEW w \in Waiters, Waking(w) PROVE Asleep'
  BY <1>8 DEF Waking, WakeTimedOut, WakeSpurious
<1>9. CASE UNCHANGED eventVars BY <1>9 DEF eventVars
<1> QED BY <1>1, <1>2, <1>3, <1>4, <1>5, <1>6, <1>7, <1>8, <1>9
        DEF Next, Waiter

(* With the lock of events.h:34 in SetEvent, no waiter sleeps on an event   *)
(* that is set once SetEvent has returned.                                  *)
THEOREM NoSleepCorrect == Spec => []NoSleepWhileSet
<1>1. Init => Asleep BY DEF Init, Asleep
<1>2. Asleep => NoSleepWhileSet BY DEF Asleep, Told, NoSleepWhileSet
<1> QED BY <1>1, <1>2, AsleepNext, TypeCorrect, PTL DEF Spec
-----------------------------------------------------------------------------
(* The ring with its event. *)

Indexes == 0 .. BlockCount - 1
-----------------------------------------------------------------------------
(* Arithmetic of the ring.                                                  *)

(* A remainder is smaller than its divisor.                                 *)
LEMMA DivMod ==
  ASSUME NEW n \in Nat \ {0}, NEW k \in Int
  PROVE  /\ k % n \in 0 .. n - 1
         /\ k \div n \in Int
         /\ k = n * (k \div n) + (k % n)
OBVIOUS

(* Two cursors with nothing between them are equal.                         *)
LEMMA NoDistance ==
  ASSUME NEW i \in Indexes, NEW j \in Indexes,
         (i + BlockCount - j) % BlockCount = 0
  PROVE  i = j
<1> DEFINE k == i + BlockCount - j
           q == k \div BlockCount
<1>1. k \in 1 .. 2 * BlockCount - 1 BY DEF Indexes
<1>2. q \in Int /\ k = BlockCount * q
  <2>1. k \in Int /\ BlockCount \in Nat \ {0} BY <1>1
  <2>2. q \in Int /\ k = BlockCount * q + (k % BlockCount) BY ONLY <2>1, DivMod
  <2> QED BY <2>2
<1> HIDE DEF q
<1>3. q >= 1
  <2>1. ASSUME q <= 0 PROVE FALSE
    <3>1. BlockCount * q <= 0 BY <2>1, <1>2
    <3> QED BY <3>1, <1>1, <1>2
  <2> QED BY <2>1, <1>2
<1>4. q <= 1
  <2>1. ASSUME q >= 2 PROVE FALSE
    <3>1. q - 2 \in Nat BY <2>1, <1>2
    <3>2. BlockCount * (q - 2) >= 0 BY <3>1
    <3>3. BlockCount * q = BlockCount * (q - 2) + 2 * BlockCount BY <1>2
    <3> QED BY <3>2, <3>3, <1>1, <1>2
  <2> QED BY <2>1, <1>2
<1>5. q = 1 BY <1>2, <1>3, <1>4
<1>6. k = BlockCount BY <1>2, <1>5
<1> QED BY <1>6 DEF Indexes

(* A whole lap is no distance.                                              *)
LEMMA WholeLap == BlockCount % BlockCount = 0
<1> DEFINE m == BlockCount % BlockCount
           q == BlockCount \div BlockCount
<1>1. /\ m \in 0 .. BlockCount - 1 /\ q \in Int /\ BlockCount \in Nat \ {0}
      /\ BlockCount = BlockCount * q + m
  BY DivMod, BlockCount \in Nat \ {0}, BlockCount \in Int
<1> HIDE DEF m, q
<1>2. ~(q <= 0)
  <2>1. ASSUME q <= 0 PROVE FALSE
    <3>1. BlockCount * q <= 0 BY <1>1, <2>1
    <3> QED BY <1>1, <3>1
  <2> QED BY <2>1
<1>3. BlockCount * q >= BlockCount
  <2>1. q - 1 \in Nat BY <1>1, <1>2
  <2>2. BlockCount * (q - 1) >= 0 BY <1>1, <2>1
  <2> QED BY <1>1, <2>2
<1>4. m = 0 BY <1>1, <1>3
<1> QED BY <1>4 DEF m

(* Indexes stay indexes.                                                    *)
LEMMA IndexType ==
  ASSUME NEW i \in Indexes
  PROVE  Empty(i) \in Indexes /\ (i + 1) % BlockCount \in Indexes
<1>1. /\ i + BlockCount - 1 \in Int /\ i + 1 \in Int
      /\ BlockCount \in Nat \ {0}
  BY DEF Indexes
<1>2. /\ (i + BlockCount - 1) % BlockCount \in 0 .. BlockCount - 1
      /\ (i + 1) % BlockCount \in 0 .. BlockCount - 1
  BY ONLY <1>1, DivMod
<1> QED BY <1>2 DEF Empty, Indexes
-----------------------------------------------------------------------------
(* The channel uses the event as it may be used.                            *)

(* Every behaviour of a channel is one of its event: the ring calls the     *)
(* event as shmIPC.h:343, 364 and 410 do, and otherwise leaves it alone.    *)
THEOREM ChannelIsEvent == ChannelSpec => Spec
<1>1. ChannelInit => Init BY DEF ChannelInit
<1>2. [ChannelNext]_channelVars => [Next]_eventVars
  BY DEF ChannelNext, channelVars, MoveEnd, LookSignal, Signal, Trying, Look,
         Take, TakeLost, CallOnEmpty, Within, Next, Waiter
<1> QED BY <1>1, <1>2, PTL DEF ChannelSpec, Spec
-----------------------------------------------------------------------------
(* Nobody is left asleep over something to take.                            *)

ChannelTypeOK ==
  /\ side \in {"data", "room"}
  /\ start \in Indexes /\ end \in Indexes
  /\ duty \in [Setters -> {None, ToSet} \cup Indexes]
  /\ found \in [Waiters -> {None} \cup Indexes]

(* A step of the channel leaves its variables well typed.                   *)
LEMMA ChannelTypeNext ==
  ASSUME ChannelTypeOK, [ChannelNext]_channelVars
  PROVE  ChannelTypeOK'
<1> USE DEF ChannelTypeOK
<1>1. ASSUME NEW s \in Setters, MoveEnd(s) PROVE ChannelTypeOK'
  BY <1>1, IndexType DEF MoveEnd
<1>2. ASSUME NEW s \in Setters, LookSignal(s) PROVE ChannelTypeOK'
  BY <1>2 DEF LookSignal
<1>3. ASSUME NEW s \in Setters, Signal(s) PROVE ChannelTypeOK'
  BY <1>3 DEF Signal
<1>4. ASSUME NEW w \in Waiters, Trying(w) PROVE ChannelTypeOK'
  <2>1. CASE Take(w) BY <2>1, IndexType DEF Take, Forget
  <2>2. CASE ~Take(w)
    BY <1>4, <2>2 DEF Trying, Look, TakeLost, CallOnEmpty, Forget
  <2> QED BY <2>1, <2>2
<1>5. CASE UNCHANGED <<side, start, end, found, duty>> BY <1>5
<1> QED BY <1>1, <1>2, <1>3, <1>4, <1>5
        DEF ChannelNext, Within, channelVars

(* A waiter remembers an index only between its load and what follows.      *)
LooksIdle == \A w \in Waiters : found[w] # None => pc[w] = "idle"

(* Nobody calls WaitForEvent and remembers an index.                        *)
LEMMA LooksIdleNext ==
  ASSUME TypeOK, ChannelTypeOK, LooksIdle, [ChannelNext]_channelVars
  PROVE  LooksIdle'
<1> USE DEF LooksIdle, TypeOK, ChannelTypeOK, Threads
<1>1. ASSUME NEW w \in Waiters, Trying(w) PROVE LooksIdle'
  BY <1>1 DEF Trying, Look, Take, TakeLost, CallOnEmpty, CallWait, Goto,
     Forget, eventVars
<1>2. ASSUME UNCHANGED found,
             \A w \in Waiters : pc[w] = "idle" => pc'[w] = "idle"
      PROVE  LooksIdle'
  BY <1>2
<1>3. ASSUME NEW s \in Setters,
             MoveEnd(s) \/ LookSignal(s) \/ Signal(s) \/ Within(Notify(s))
      PROVE  LooksIdle'
  <2>1. CASE MoveEnd(s) \/ LookSignal(s)
    BY <1>2, <2>1 DEF MoveEnd, LookSignal, eventVars
  <2>2. CASE Signal(s)
    BY <1>2, <2>2 DEF Signal, SetState, Goto
  <2>3. CASE Within(Notify(s))
    BY <1>2, <2>3 DEF Within, Notify, Broadcast
  <2> QED BY <1>3, <2>1, <2>2, <2>3
<1>4. ASSUME NEW w \in Waiters, Within(Waiting(w)) PROVE LooksIdle'
  BY <1>2, <1>4 DEF Within, Waiting, LookAtState, TestLoop, WaitInvalid,
     WaitPast, Sleep, UnlockMutex, ReturnFromWait, Leave, Goto
<1>5. ASSUME NEW w \in Waiters, Within(Locking(w)) PROVE LooksIdle'
  BY <1>2, <1>5 DEF Within, Locking, LockMutex, Relock, ClearAfterWait,
     ClearAndReturn, Leave, Goto
<1>6. ASSUME NEW w \in Waiters, Within(Waking(w)) PROVE LooksIdle'
  BY <1>2, <1>6 DEF Within, Waking, WakeTimedOut, WakeSpurious, Goto
<1>7. CASE Within(SetKill) \/ Within(NotifyKill)
  BY <1>2, <1>7 DEF Within, SetKill, NotifyKill, Broadcast, Goto
<1>8. CASE UNCHANGED channelVars BY <1>2, <1>8 DEF channelVars, eventVars
<1> QED BY <1>1, <1>3, <1>4, <1>5, <1>6, <1>7, <1>8 DEF ChannelNext

(* The labels of a call that may still go to sleep without another look at  *)
(* the ring.                                                                *)
Committed == {"look", "lock", "test", "wait", "asleep", "relock"}

(* w will not take what is there without another look at the ring: it is    *)
(* committed, or has loaded an index that start has left.                   *)
Off(w) == pc[w] \in Committed \/ (found[w] # None /\ found[w] # start)

AllOff == \A w \in Waiters : Off(w)

(* A setter that has moved end and will set the event.                      *)
WillSet(s) == duty[s] = ToSet \/ (duty[s] >= 0 /\ SignalGuard(duty[s]))
Pending == \E s \in Setters : WillSet(s)

(* If nobody will look at the ring again unasked, there is nothing in it,   *)
(* or the event is set or will be.  A waiter may have found its index empty *)
(* when start was elsewhere and there was something; but then another has   *)
(* taken since, and looks again, and finds what is there.                   *)
Watched == AllOff => Available = 0 \/ state = 1 \/ Pending

(* A step that puts nobody off and changes neither the ring nor the event.  *)
LEMMA WatchedSame ==
  ASSUME Watched, UNCHANGED <<state, side, start, end, duty>>,
         AllOff' => AllOff
  PROVE  Watched'
<1>1. Available' = Available BY DEF Available, Empty
<1>2. Pending' = Pending BY DEF Pending, WillSet, SignalGuard, Empty
<1> QED BY <1>1, <1>2 DEF Watched

(* A step of the event that commits nobody puts nobody off.                 *)
LEMMA OffSame ==
  ASSUME UNCHANGED <<start, found>>,
         \A w \in Waiters : pc'[w] \in Committed => pc[w] \in Committed
  PROVE  AllOff' => AllOff
BY DEF AllOff, Off

(* A waiter that looks, takes, or finds its index gone is not put off, and  *)
(* one that waits was so before, or there is nothing.                       *)
LEMMA WatchedTrying ==
  ASSUME TypeOK, ChannelTypeOK, LooksIdle, Watched,
         NEW w \in Waiters, Trying(w)
  PROVE  Watched'
<1> USE DEF TypeOK, ChannelTypeOK, Threads
<1>1. CASE Look(w)
  <2>1. pc'[w] = "idle" /\ found'[w] = start' /\ start' = start
    BY <1>1 DEF Look, eventVars
  <2>2. ~Off(w)' BY <2>1 DEF Off, Committed
  <2> QED BY <2>2 DEF Watched, AllOff
<1>2. CASE Take(w) \/ TakeLost(w)
  <2>1. pc[w] = "idle"
    BY <1>2 DEF Take, TakeLost, LooksIdle, None, Indexes
  <2>2. pc'[w] = "idle" /\ found'[w] = None
    BY <1>2, <2>1 DEF Take, TakeLost, Forget, eventVars
  <2>3. ~Off(w)' BY <2>2 DEF Off, Committed
  <2> QED BY <2>3 DEF Watched, AllOff
<1>3. CASE CallOnEmpty(w)
  <2>1. /\ UNCHANGED <<state, side, start, end, duty>>
        /\ found[w] = Empty(end)
    BY <1>3 DEF CallOnEmpty, CallWait
  <2>2. CASE found[w] = start
    <3>1. Empty(end) = start /\ start \in Indexes BY <2>1, <2>2
    <3>2. Available = 0
      <4>1. Empty(end) + BlockCount - start = BlockCount BY <3>1 DEF Indexes
      <4> QED BY <4>1, WholeLap DEF Available
    <3>3. Available' = Available BY <2>1 DEF Available, Empty
    <3> QED BY <3>2, <3>3 DEF Watched
  <2>3. CASE found[w] # start
    <3>1. Off(w)
      <4>1. Empty(end) \in Indexes BY IndexType
      <4> QED BY <2>1, <2>3, <4>1 DEF Off, None, Indexes
    <3>2. \A v \in Waiters \ {w} : Off(v)' => Off(v)
      BY <1>3 DEF CallOnEmpty, CallWait, Forget, Goto, Off
    <3>3. AllOff' => AllOff BY <3>1, <3>2 DEF AllOff
    <3> QED BY <2>1, <3>3, WatchedSame
  <2> QED BY <2>2, <2>3
<1> QED BY <1>1, <1>2, <1>3 DEF Trying

(* No step leaves everybody asleep with something to take.                  *)
LEMMA WatchedNext ==
  ASSUME TypeOK, ChannelTypeOK, LooksIdle, Watched,
         [ChannelNext]_channelVars
  PROVE  Watched'
<1> USE DEF Committed
<1>1. ASSUME NEW s \in Setters, MoveEnd(s) PROVE Watched'
  <2>1. (AllOff' <=> AllOff) /\ state' = state
    BY <1>1 DEF MoveEnd, eventVars, AllOff, Off
  <2>2. SUFFICES ASSUME AllOff PROVE state' = 1 \/ Pending'
    BY <2>1 DEF Watched
  <2>3. CASE state = 1 BY <2>1, <2>3
  <2>4. CASE Available = 0
    <3>1. Empty(end) \in Indexes /\ start \in Indexes
      BY IndexType DEF ChannelTypeOK
    <3>2. Empty(end) = start BY <2>4, <3>1, NoDistance DEF Available
    <3>3. duty'[s] = end /\ end >= 0
      BY <1>1 DEF MoveEnd, ChannelTypeOK, Indexes
    <3>4. WillSet(s)'
      BY <1>1, <3>2, <3>3 DEF MoveEnd, WillSet, SignalGuard, Empty
    <3> QED BY <3>4 DEF Pending
  <2>5. CASE Pending
    <3>1. PICK u \in Setters : WillSet(u) BY <2>5 DEF Pending
    <3>2. u # s BY <1>1, <3>1 DEF MoveEnd, WillSet, None, ToSet
    <3>3. duty'[u] = duty[u] BY <1>1, <3>2 DEF MoveEnd, ChannelTypeOK
    <3>4. WillSet(u)'
      BY <1>1, <3>1, <3>3 DEF MoveEnd, WillSet, SignalGuard, Empty
    <3> QED BY <3>4 DEF Pending
  <2> QED BY <2>2, <2>3, <2>4, <2>5 DEF Watched
<1>2. ASSUME NEW s \in Setters, LookSignal(s) PROVE Watched'
  <2>1. (AllOff' <=> AllOff) /\ state' = state /\ Available' = Available
    BY <1>2 DEF LookSignal, eventVars, Available, Empty, AllOff, Off
  <2>2. ASSUME Pending PROVE Pending'
    <3>1. PICK u \in Setters : WillSet(u) BY <2>2 DEF Pending
    <3>2. CASE u = s
      <4>1. duty'[s] = ToSet
        BY <1>2, <3>1, <3>2 DEF LookSignal, WillSet, ToSet, ChannelTypeOK
      <4> QED BY <4>1 DEF Pending, WillSet
    <3>3. CASE u # s
      <4>1. duty'[u] = duty[u] BY <1>2, <3>3 DEF LookSignal, ChannelTypeOK
      <4>2. WillSet(u)'
        BY <1>2, <3>1, <4>1 DEF LookSignal, WillSet, SignalGuard, Empty
      <4> QED BY <4>2 DEF Pending
    <3> QED BY <3>2, <3>3
  <2> QED BY <2>1, <2>2 DEF Watched
<1>3. ASSUME NEW s \in Setters, Signal(s) PROVE Watched'
  BY <1>3 DEF Signal, SetState, Watched
<1>4. ASSUME NEW s \in Setters, Within(Notify(s)) PROVE Watched'
  <2>1. AllOff' => AllOff
    BY <1>4, OffSame DEF Within, Notify, Broadcast, TypeOK, Threads
  <2> QED BY <1>4, <2>1, WatchedSame DEF Within, Notify
<1>5. ASSUME NEW w \in Waiters, Trying(w) PROVE Watched'
  BY <1>5, WatchedTrying
<1>7. ASSUME NEW w \in Waiters, Within(Waiting(w)) PROVE Watched'
  <2>1. AllOff' => AllOff
    BY <1>7, OffSame DEF Within, Waiting, LookAtState, TestLoop, WaitInvalid,
       WaitPast, Sleep, UnlockMutex, ReturnFromWait, Leave, Goto, TypeOK,
       Threads
  <2>2. state' = state
    BY <1>7 DEF Within, Waiting, LookAtState, TestLoop, WaitInvalid, WaitPast,
       Sleep, UnlockMutex, ReturnFromWait
  <2> QED BY <1>7, <2>1, <2>2, WatchedSame DEF Within
<1>8. ASSUME NEW w \in Waiters, Within(Locking(w)) PROVE Watched'
  <2>1. CASE LockMutex(w) \/ Relock(w)
    <3>1. (AllOff' => AllOff) /\ state' = state
      BY <1>8, <2>1, OffSame DEF Within, LockMutex, Relock, Goto, TypeOK,
         Threads
    <3> QED BY <1>8, <3>1, WatchedSame DEF Within
  <2>2. CASE ClearAfterWait(w) \/ ClearAndReturn(w)
    <3>1. /\ pc[w] # "idle" /\ pc'[w] \notin Committed
          /\ found'[w] = found[w]
      BY <1>8, <2>2 DEF Within, ClearAfterWait, ClearAndReturn, Leave, Goto,
         TypeOK, Threads
    <3>2. found[w] = None BY <3>1 DEF LooksIdle
    <3> QED BY <3>1, <3>2 DEF Watched, AllOff, Off
  <2> QED BY <1>8, <2>1, <2>2 DEF Within, Locking
<1>9. ASSUME NEW w \in Waiters, Within(Waking(w)) PROVE Watched'
  <2>1. (AllOff' => AllOff) /\ state' = state
    BY <1>9, OffSame DEF Within, Waking, WakeTimedOut, WakeSpurious, Goto,
       TypeOK, Threads
  <2> QED BY <1>9, <2>1, WatchedSame DEF Within
<1>10. CASE Within(SetKill) \/ Within(NotifyKill)
  <2>1. (AllOff' => AllOff) /\ state' = state
    BY <1>10, OffSame DEF Within, SetKill, NotifyKill, Broadcast, Goto,
       TypeOK, Threads
  <2> QED BY <1>10, <2>1, WatchedSame DEF Within
<1>11. CASE UNCHANGED channelVars
  BY <1>11, OffSame, WatchedSame DEF channelVars, eventVars
<1> QED BY <1>1, <1>2, <1>3, <1>4, <1>5, <1>7, <1>8, <1>9, <1>10, <1>11
        DEF ChannelNext

(* With no setter at work, all asleep would mean the event is set; nobody   *)
(* sleeps on a set event.                                                   *)
LEMMA WatchedSuffices ==
  ASSUME TypeOK, ChannelTypeOK, Watched, NoSleepWhileSet
  PROVE  SomebodyAwake
<1> SUFFICES ASSUME locking, Quiet, Available > 0,
                    \A w \in Waiters : pc[w] = "asleep"
             PROVE  FALSE
  BY DEF SomebodyAwake
<1>1. AllOff BY DEF AllOff, Off, Committed
<1>2. ~Pending BY DEF Quiet, Pending, WillSet, None, ToSet
<1>3. state = 1 BY <1>1, <1>2 DEF Watched
<1> QED BY <1>3 DEF Quiet, NoSleepWhileSet

(* The guards of shmIPC.h:342 and 409 suffice if SetEvent holds its lock:   *)
(* with something to take and no signal on its way some waiter is awake,    *)
(* however many there are.                                                  *)
THEOREM AwakeCorrect == ChannelSpec => []SomebodyAwake
<1>1. ChannelInit => ChannelTypeOK
  BY DEF ChannelInit, ChannelTypeOK, Indexes, None
<1>2. ChannelInit => Watched /\ LooksIdle
  BY DEF ChannelInit, Init, Watched, AllOff, Off, Committed, LooksIdle,
     Threads
<1>3. ChannelSpec => [](TypeOK /\ NoSleepWhileSet)
  BY ChannelIsEvent, TypeCorrect, NoSleepCorrect, PTL
<1> QED BY <1>1, <1>2, <1>3, ChannelTypeNext, LooksIdleNext, WatchedNext,
           WatchedSuffices, PTL DEF ChannelSpec
=============================================================================
