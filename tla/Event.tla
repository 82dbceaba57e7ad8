------------------------------- MODULE Event --------------------------------
(***************************************************************************)
(* The auto-reset event that the ring uses for m_signal (data to read) and *)
(* m_avail (room to write): SetEvent, WaitForEvent, ClearEvent,            *)
(* DestroyEvent.  There are two versions of it.  In events2.h, which is    *)
(* compiled, state_ is changed by compare-and-swap and never under mtx_;   *)
(* the mutex orders nothing but the waiters.  In events.h SetEvent holds   *)
(* the mutex from the compare-and-swap to the end of the broadcast,        *)
(* ClearEvent takes it too, and the deadline is a valid time to come.      *)
(*                                                                         *)
(* pthread_cond_timedwait is external: it fails with EINVAL on a tv_nsec   *)
(* that is no fraction of a second, returns ETIMEDOUT at once when the     *)
(* deadline has passed, and otherwise releases the mutex and sleeps until  *)
(* a broadcast, the deadline or a spurious wakeup.                         *)
(***************************************************************************)
EXTENDS Integers

CONSTANTS
  Setters,      \* threads that call SetEvent
  Waiters,      \* threads that call WaitForEvent
  Destroyer,    \* the thread that closes the queue
  NoThread,     \* the holder of a free mutex
  Lockings,     \* the versions: TRUE is events.h, FALSE events2.h
  Timeouts,     \* the values of msTimeout they pass, below 2^31
  Clocks        \* what the real-time clock, which the condition variable
                \* goes by, may read against a deadline, which is made from
                \* the monotonic clock: "ahead" on a host whose clock is set,
                \* "behind" before that

ASSUME EventAssumption ==
  /\ Setters \cap Waiters = {}
  /\ Destroyer \notin Setters \cup Waiters
  /\ NoThread \notin Setters \cup Waiters \cup {Destroyer}
  /\ Lockings \subseteq BOOLEAN
  /\ Timeouts \subseteq Nat
  /\ Clocks \subseteq {"ahead", "behind"}

Threads == Setters \cup Waiters \cup {Destroyer}

(* msTimeout * 1000000 in uint32_t arithmetic, as two halves of 16 bits:    *)
(* 1000000 is 15 * 2^16 + 16960.                                            *)
Half == 65536
NanoLow(ms)  == ((ms % Half) * 16960) % Half
NanoHigh(ms) == ((ms % Half) * 15 + (ms \div Half) * 16960
                   + ((ms % Half) * 16960) \div Half) % Half

(* tv_nsec < 10^9, which is 15258 * 2^16 + 51712                            *)
ValidNanos(ms) ==
  NanoHigh(ms) < 15258 \/ (NanoHigh(ms) = 15258 /\ NanoLow(ms) < 51712)

VARIABLES
  locking,       \* the version; it never changes
  state, kill,   \* state_ and kill_ of event_t
  mutex,         \* mtx_: the thread that holds it, or NoThread
  pc,
  valid,         \* the deadline of a call of WaitForEvent is a valid time
  ret,           \* ret of the call: "ok", "timedout" or "invalid"
  seen           \* history: state_ was 1 at some time during the call

eventVars == <<locking, state, kill, mutex, pc, valid, ret, seen>>

Goto(t, label) == pc' = [pc EXCEPT ![t] = label]

(* A broadcast sends every sleeper to reacquire the mutex.                  *)
Broadcast(t, label) ==
  pc' = [u \in Threads |-> IF u = t THEN label
                           ELSE IF pc[u] = "asleep" THEN "relock" ELSE pc[u]]

Init ==   \* CreateEvent
  /\ locking \in Lockings
  /\ state = 0 /\ kill = FALSE
  /\ mutex = NoThread
  /\ pc = [t \in Threads |-> "idle"]
  /\ valid  = [w \in Waiters |-> TRUE]
  /\ ret    = [w \in Waiters |-> "ok"]
  /\ seen   = [w \in Waiters |-> FALSE]
-----------------------------------------------------------------------------
(* What events.h adds to events2.h *)

SetLocks(s) ==
  IF locking THEN mutex = NoThread /\ mutex' = s ELSE mutex' = mutex

SetUnlocks(s) == mutex' = IF mutex = s THEN NoThread ELSE mutex

ClearLocks == locking => mutex = NoThread   \* and unlocks in the same step

Deadline(ms) == locking \/ ValidNanos(ms)
-----------------------------------------------------------------------------
(* SetEvent: compare-and-swap 0 to 1, then broadcast.                       *)

SetStateUnlocked(s) ==   \* a slip in events.h: as events2.h does it
  /\ pc[s] = "idle"
  /\ state' = 1
  /\ seen' = [w \in Waiters |-> seen[w] \/ pc[w] # "idle"]
  /\ Goto(s, "notify")
  /\ UNCHANGED <<locking, kill, mutex, valid, ret>>

SetState(s) ==
  /\ pc[s] = "idle"
  /\ SetLocks(s)
  /\ state' = 1
  /\ seen' = [w \in Waiters |-> seen[w] \/ pc[w] # "idle"]
  /\ Goto(s, "notify")
  /\ UNCHANGED <<locking, kill, valid, ret>>

Notify(s) ==
  /\ pc[s] = "notify"
  /\ Broadcast(s, "idle")
  /\ SetUnlocks(s)
  /\ UNCHANGED <<locking, state, kill, valid, ret, seen>>

(* DestroyEvent, called once, when the queue is closed.                     *)

SetKill ==
  /\ pc[Destroyer] = "idle"
  /\ kill' = TRUE
  /\ Goto(Destroyer, "notify")
  /\ UNCHANGED <<locking, state, mutex, valid, ret, seen>>

NotifyKill ==
  /\ pc[Destroyer] = "notify"
  /\ Broadcast(Destroyer, "destroyed")
  /\ UNCHANGED <<locking, state, kill, mutex, valid, ret, seen>>
-----------------------------------------------------------------------------
(* Slips: actions of WaitForEvent with one mistake each.  No behaviour of   *)
(* Spec uses them; put in an action's place, each must break a property.    *)

WakeUntested(w) ==   \* an if where the while should be
  /\ pc[w] = "relock"
  /\ mutex = NoThread
  /\ mutex' = w
  /\ Goto(w, "unlock")
  /\ UNCHANGED <<locking, state, kill, valid, ret, seen>>

TestIgnoringRet(w) ==   \* waits again after the deadline
  /\ pc[w] = "test"
  /\ Goto(w, IF state = 0 /\ ~kill THEN "wait" ELSE "unlock")
  /\ UNCHANGED <<locking, state, kill, mutex, valid, ret, seen>>

NeverTimedOut(w) ==   \* pthread_cond_wait in the place of timedwait
  FALSE /\ UNCHANGED eventVars

SleepHoldingMutex(w) ==
  /\ pc[w] = "wait" /\ valid[w]
  /\ mutex' = w
  /\ Goto(w, "asleep")
  /\ UNCHANGED <<locking, state, kill, valid, ret, seen>>
-----------------------------------------------------------------------------
(* WaitForEvent *)

CallWait(w) ==
  /\ pc[w] = "idle"
  /\ ret' = [ret EXCEPT ![w] = "ok"]
  /\ seen' = [seen EXCEPT ![w] = (state = 1)]
  /\ Goto(w, "look")
  /\ UNCHANGED <<locking, state, kill, mutex, valid>>

LookAtState(w) ==   \* state_ already set: no need to block
  /\ pc[w] = "look"
  /\ Goto(w, IF state = 1 THEN "clearset" ELSE "lock")
  /\ UNCHANGED <<locking, state, kill, mutex, valid, ret, seen>>

LockMutex(w) ==   \* and make the deadline from msTimeout
  /\ pc[w] = "lock"
  /\ mutex = NoThread
  /\ mutex' = w
  /\ \E ms \in Timeouts : valid' = [valid EXCEPT ![w] = Deadline(ms)]
  /\ Goto(w, "test")
  /\ UNCHANGED <<locking, state, kill, ret, seen>>

TestLoop(w) ==   \* the condition of the while loop
  /\ pc[w] = "test"
  /\ Goto(w, IF state = 0 /\ ret[w] = "ok" /\ ~kill THEN "wait" ELSE "unlock")
  /\ UNCHANGED <<locking, state, kill, mutex, valid, ret, seen>>

WaitInvalid(w) ==
  /\ pc[w] = "wait" /\ ~valid[w]
  /\ ret' = [ret EXCEPT ![w] = "invalid"]
  /\ Goto(w, "test")
  /\ UNCHANGED <<locking, state, kill, mutex, valid, seen>>

WaitPast(w) ==   \* releases the mutex all the same
  /\ pc[w] = "wait" /\ valid[w] /\ ~locking /\ "ahead" \in Clocks
  /\ ret' = [ret EXCEPT ![w] = "timedout"]
  /\ mutex' = NoThread
  /\ Goto(w, "relock")
  /\ UNCHANGED <<locking, state, kill, valid, seen>>

Sleep(w) ==
  /\ pc[w] = "wait" /\ valid[w] /\ (locking \/ "behind" \in Clocks)
  /\ mutex' = NoThread
  /\ Goto(w, "asleep")
  /\ UNCHANGED <<locking, state, kill, valid, ret, seen>>

WakeSpurious(w) ==
  /\ pc[w] = "asleep"
  /\ Goto(w, "relock")
  /\ UNCHANGED <<locking, state, kill, mutex, valid, ret, seen>>

WakeTimedOut(w) ==
  /\ pc[w] = "asleep"
  /\ ret' = [ret EXCEPT ![w] = "timedout"]
  /\ Goto(w, "relock")
  /\ UNCHANGED <<locking, state, kill, mutex, valid, seen>>

Relock(w) ==
  /\ pc[w] = "relock"
  /\ mutex = NoThread
  /\ mutex' = w
  /\ Goto(w, "test")
  /\ UNCHANGED <<locking, state, kill, valid, ret, seen>>

UnlockMutex(w) ==
  /\ pc[w] = "unlock"
  /\ mutex' = NoThread
  /\ valid' = [valid EXCEPT ![w] = TRUE]   \* the deadline is gone
  /\ Goto(w, "clear")
  /\ UNCHANGED <<locking, state, kill, ret, seen>>

(* ClearEvent after the wait, whatever ended it                             *)
ClearAfterWait(w) ==
  /\ pc[w] = "clear" /\ ClearLocks
  /\ state' = 0
  /\ Goto(w, "return")
  /\ UNCHANGED <<locking, kill, mutex, valid, ret, seen>>

Leave(w) ==   \* the locals of the call are gone
  /\ Goto(w, "idle")
  /\ ret' = [ret EXCEPT ![w] = "ok"]
  /\ seen' = [seen EXCEPT ![w] = FALSE]

Result(w) ==   \* what the call returns; reads kill_ again after a wait
  IF pc[w] = "clearset" THEN 1 ELSE IF kill THEN -1
  ELSE CASE ret[w] = "ok"       -> 1
         [] ret[w] = "timedout" -> 0
         [] ret[w] = "invalid"  -> -1

ReturnFromWait(w) ==
  /\ pc[w] = "return"
  /\ Leave(w)
  /\ UNCHANGED <<locking, state, kill, mutex, valid>>

ClearAndReturn(w) ==   \* the branch that did not block
  /\ pc[w] = "clearset" /\ ClearLocks
  /\ state' = 0
  /\ Leave(w)
  /\ UNCHANGED <<locking, kill, mutex, valid>>
-----------------------------------------------------------------------------
Waiting(w) ==
  \/ LookAtState(w) \/ TestLoop(w) \/ WaitInvalid(w) \/ WaitPast(w)
  \/ Sleep(w) \/ UnlockMutex(w) \/ ReturnFromWait(w)

Locking(w) ==   \* may have to wait for the mutex
  \/ LockMutex(w) \/ Relock(w) \/ ClearAfterWait(w) \/ ClearAndReturn(w)

Waking(w) == WakeTimedOut(w) \/ WakeSpurious(w)

Waiter(w) == CallWait(w) \/ Waiting(w) \/ Locking(w) \/ Waking(w)

Next ==
  \/ \E s \in Setters : SetState(s) \/ Notify(s)
  \/ \E w \in Waiters : Waiter(w)
  \/ SetKill \/ NotifyKill

Spec == Init /\ [][Next]_eventVars
-----------------------------------------------------------------------------
(* Properties *)

Locked == {"test", "wait", "unlock"}
SlowPath == Locked \cup {"lock", "asleep", "relock", "clear", "return"}

(* Every variable has its type, and mtx_ is held by the one thread that is  *)
(* between its lock and its unlock.                                         *)
TypeOK ==
  /\ locking \in BOOLEAN /\ state \in {0, 1} /\ kill \in BOOLEAN
  /\ mutex \in Setters \cup Waiters \cup {NoThread}
  /\ pc \in [Threads -> {"idle", "notify", "destroyed", "look", "clearset"}
                          \cup SlowPath]
  /\ \A w \in Waiters : pc[w] \in Locked <=> mutex = w
  /\ \A s \in Setters : locking /\ pc[s] = "notify" <=> mutex = s
  /\ valid \in [Waiters -> BOOLEAN]
  /\ ret \in [Waiters -> {"ok", "timedout", "invalid"}]
  /\ seen \in [Waiters -> BOOLEAN]

(* WaitForEvent returns 1 only if the event was set during the call: the    *)
(* loop tests state_ again after each wakeup.                               *)
SuccessMeansSet ==
  \A w \in Waiters :
    pc[w] \in {"return", "clearset"} /\ Result(w) = 1 => seen[w]

(* Every call of WaitForEvent returns, even if its wakeup is lost: the      *)
(* deadline is fixed once, before the loop.                                 *)
EveryWaitEnds == \A w \in Waiters : []<>(pc[w] = "idle")

(* No thread sleeps on an event that is set, once SetEvent has returned, if *)
(* SetEvent holds the lock that events2.h has commented out: without it the *)
(* test of state_ and the sleep are not one step for the setter.            *)
NoSleepWhileSet ==
  locking /\ state = 1 /\ (\A s \in Setters : pc[s] # "notify")
    => \A w \in Waiters : pc[w] # "asleep"

(* A call waits for the condition: it gives up only out of a sleep.         *)
GivesUpAsleep ==
  [][\A w \in Waiters :
       ret[w] = "ok" /\ ret'[w] # "ok" => pc[w] = "asleep"]_eventVars
=============================================================================
