# AtomicMessageQueue in TLA+

A formal model of the shared-memory message queue in `src/ShmAtomicMsgQueue`:
what it promises, the steps it takes to keep that promise, what is checked of
them by TLC and what is proved by TLAPS. Line numbers refer to the files of that
directory.

## 1. The system

A queue is one shared-memory segment holding a ring of `BLOCK_COUNT` blocks.
Any number of threads of any number of processes map it and send and receive
messages of at most `BLOCK_SIZE` bytes. There is no lock around the ring: four
cursors and two flags per block are changed by compare-and-swap.

| Component | File | State | Operations |
|---|---|---|---|
| Ring | `shmIPC.h` 70-413 | per block `Next`, `Prev`, `doneRead`, `doneWrite`, `Amount`, `Data`; `m_writeStart`, `m_writeEnd`, `m_readStart`, `m_readEnd`, `m_msgCount` | `read`, `write`, and under them `get_block_write`, `post_block`, `get_block_read`, `return_block` |
| Event | `events2.h` | `state_`, `kill_`, a mutex, a condition variable, all in shared memory; the ring has two, `m_signal` (data) and `m_avail` (room) | `CreateEvent`, `SetEvent`, `ClearEvent`, `WaitForEvent`, `DestroyEvent` |
| Segment | `shmIPC.h` 416-630 | the shared-memory object and its size, a mapping per `ShmQueue` | `create`, `disconnect`, `close`, `removeOldQueues` |
| Handle | `MessageQueue.h` | `queue_`, `connected_`, `timeout_` of one object | `connect`, `send`, `receive`, `getMessageCount`, `clearQueue`, `close`, `disconnect` |
| Demonstration | `main.cpp` | none of its own | two threads that `send` for ever, one that `receive`s for ever |
| Windows-style events | `pevents.h` | per event a state, a mutex, a condition variable and a list of registered waiters; per waiter a mutex, a condition variable, a reference count and what it still waits for | `CreateEvent`, `SetEvent`, `ResetEvent`, `WaitForEvent`, `WaitForMultipleEvents`, `DestroyEvent` |
| Locked event | `events.h` | as the event | as the event, but `SetEvent` and `ClearEvent` take the mutex |
| Earlier rings | `shmIPC_impl.h`, `shmIPC_before_postcrement.h` | as the ring; the first has semaphores in the place of events | as the ring, split over `ShmQueue` and `ShmClient` in the first |

`events.h` has the include guard of `events2.h`, `main.cpp` does not include it,
and as it stands it does not compile (`DestroyEvent` is not closed and calls
`pthread_cond_broadcast` on a boost condition). `MessageQueue2.h`, `boostmq.hpp.old`, `shmIPC_impl.h`,
`shmIPC_before_postcrement.h` and `MessageQueue.cpp.old` are earlier versions
that nothing includes. `pevents.h` is included by `main.cpp` and called by nothing. `USING_BOOST` is commented out (`shmIPC.h` 18), so the
POSIX branches are the code.

**How the ring works.** The four cursors follow each other round the ring.

    readEnd ..... readStart ..... writeEnd ..... writeStart ..... (free) ... readEnd
        taken, being read   published       claimed, being written

* A writer *claims* the block under `m_writeStart` by moving that cursor with a
  compare-and-swap, if the next block is not `m_readEnd` (one block always stays
  free). It fills the block and *posts* it: sets `doneWrite`, then, as long as
  the flag of the block under `m_writeEnd` can be consumed with a
  compare-and-swap, moves `m_writeEnd` over it. So blocks are published in the
  order they were claimed although they are finished in any order.
* A reader *takes* the block under `m_readStart` if that is not `m_writeEnd`,
  copies it, and *returns* it with `doneRead` and `m_readEnd` in the same way. A
  block with `Amount` 0 is returned uncopied and the reader starts again.
* The message count is changed after the post and after the return.
* A thread with nothing to do waits on an event, which whoever publishes into
  an empty ring, or reclaims from a full one, sets.

**What is hard.** Every access to shared memory is a step that others run
between. The compare-and-swaps compare an index, which comes back after a lap
(ABA). Some stores are plain and may be seen after later loads (x86 store
buffers). A flag is consumed in one step and its cursor moved in another.
`SetEvent` and `DestroyEvent` no longer take the mutex of the event. The count
is not changed together with the cursors. Section 7 says what that leads to.

## 2. The modules

| Module | What it is |
|---|---|
| `Mailbox` | the abstract specification: what callers of `read` and `write` may rely on |
| `Ring` | the ring, one action per access to shared memory |
| `RingInv` | its properties, the scheduling assumptions `Prompt` and `ClearsInTime`, the inductive invariant, the refinement mapping to `Mailbox` |
| `MCRing` | instances for TLC, and a view that forgets dead locals |
| `MailboxProofs` | what the mailbox means to its users |
| `RingExclusion` | arithmetic of slots; `TypeOK`; the inductive invariant's placement part; mutual exclusion; what the room check is worth |
| `RingMailbox` | one writer and one reader need no scheduling assumption, either of the two; what the blocks hold; the ring implements the mailbox, and so delivers as it does |
| `RingRest` | nothing finished is left behind an end cursor; all of `IInv`; the message count |
| `Event` | the event, in both versions, and its properties |
| `Channel` | one direction of the ring with its event: composes `Event` with a pair of cursors and the decision to signal |
| `MCChannel` | instances for TLC |
| `ChannelProofs` | of the event: types and mutex, what a result of 1 means, nobody sleeps on a set event; the channel uses the event as any caller may; somebody is awake |
| `PEvents` | the Windows-style events |
| `MCPEvents` | instances for TLC |
| `PEventsProofs` | mutexes, references, registrations, wakeups, lock order |
| `Earlier` | the two earlier rings, step for step as `Ring`: its actions where the code is the same, those that differ, signals and count; shown to implement `Mailbox` too |
| `MCEarlier` | instances for TLC |
| `EarlierProofs` | the ring's invariant for the earlier rings, the refinement and what it delivers |
| `Segment` | `create`, `disconnect` and `removeOldQueues` on the shared-memory segment |
| `Handle` | `MessageQueue` over `Segment`, the calling order of `main.cpp`, properties |
| `MCHandle` | instances for TLC |
| `HandleProofs` | what callers get whose clients wait for the server to be connected |

### Ring

A thread has a program counter `pc` and the locals of its call: `idx`
(`blockIndex`), `own` (`pBlock` of `read` or `write`), `len` (`dwAmount`,
`amount`). The labels name the access that comes next:

| Writer | | Reader | |
|---|---|---|---|
| `claim`, `room`, `await`, `cas` | 295, 297, 300, 309 | `take`, `avail`, `await`, `grab` | 357, 361, 364, 375 |
| `fill` | 273-274 | `size`, `copy` | 237-244, 249-251 |
| `post` | 324 | `release`, `clear` | 389, 390 |
| `advance`, `consume`, `move` | 329, 332, 339 | `reclaim`, `unmark`, `retire` | 396, 398, 406 |
| `count` | 283 | `count` | 260 |

What is abstracted:

* A payload is the pair (writer, number of its message); a block's `Data` holds
  one. Filling a block is one action, and so is copying it. That is sound where
  `Exclusive` holds, which is an invariant of the same runs: nobody else
  touches a block between the first and the last access of its holder, but for the late
  clear of 390, which `ClearsInTime` excludes where it matters.
* `WaitForEvent` is its outcome: look again, or give up. Either may happen at
  any time, so whatever the event does (module `Event` shows it may lose
  wakeups, fail at once or report a timeout) is allowed, and the safety results do
  not depend on it. `SetEvent` changes no state of the ring.
* `Amount` is not volatile: `Copy` uses the value read at 237 or a new one. The
  buffer of the caller (`buffSize`, 249) always holds a block: `receive` passes
  `BLOCK_SIZE` (`MessageQueue.h` 189), and nothing else calls `read`.
* With `StoreBuffer`, the loads of 329 and 396 may be done before the plain
  stores in front of them are visible (`EarlyLoadWriteEnd`, `EarlyLoadReadEnd`,
  and the flag `early`). The compare-and-swap that follows drains the stores. No
  other plain store of this code is followed by a plain load that matters
  before a locked instruction.
* Between calls a thread is `idle`; a call ends with `pc` back there. The result
  of the call is not kept: it is `len`, or 0 where `AwaitRoom` and `AwaitData`
  give up.
* `claims`, `published`, `taken`, `returned` count the moves of the cursors;
  `ticket` and `lap` remember such a count; `sent` and `inbox` record the
  messages. No guard reads them.

Threads need not go on, so a process that dies in the middle of a call is a
behaviour of `Spec`: it breaks no safety property (it does stop the ring).

The operators under *Slips* are actions with one mistake each (a store where the
compare-and-swap should be, a flag that is not reset, ...). No behaviour uses
them. They are what each property is tested against: put in the place of the
right action, TLC must find the property violated.

### Prompt and ClearsInTime

With several threads on one side the ring as written is *not* correct for every
schedule. Two assumptions say which schedules are left out, each as narrowly as
the properties allow.

`Prompt` is about the four compare-and-swaps on a cursor or a flag. Each uses an index that
was loaded some steps before, and succeeds on an index that has come back just as
on one that has not changed. `Overtaken(t)` says that `t` stands before such a
compare-and-swap and that the block its index names has been claimed (for a
reader: taken) *again* since the cursor was loaded:

* before 309 and 375 the cursor that was loaded has made `BLOCK_COUNT` moves since:
  a full lap of claims, or of takes, passed during the suspension;
* before 332 and 398 the block under the loaded end cursor has been published
  (reclaimed) by another and claimed (taken) again. How far away that is when the
  cursor is loaded depends on how full the ring is: the start cursor may
  already be up to `BLOCK_COUNT - 1` moves ahead of the end cursor, and in a
  nearly full ring a few sends and receives bring it about.

`ClearsInTime` is about the two plain stores 389 and 390 of `return_block`. A reader
between them no longer owns its block: another reader may reclaim it, and in a full
ring the first or second send that follows claims it. The assumption is that nobody *has* claimed it
while the reader stands there. This is no matter of a lap. With two readers on a full ring two
sends are enough for the reader to wipe the length of a message that was sent
successfully (`ring_late_clear`).

`PromptSpec` takes the steps that lead to a state where `Prompt` holds, `TimelySpec`
those where both hold (`Timely`). What needs only `Prompt` is stated for
`PromptSpec`: mutual exclusion, that claims have room, that nothing is left behind.
Contents, the mailbox and the count need `Timely`. For one writer and one
reader neither is an assumption: `Timely` is checked as an invariant (`ring_spsc`)
and proved (`SoloCorrect`).

### Mailbox

Accepted messages form one sequence. They become visible in order, each is handed
to one reader, in order; a reader receives what was accepted, unchanged; empty
messages are dropped by the reader that gets them; at most
`BLOCK_COUNT - 1` messages take up space and space is given back in order, never
that of a message still held. `RingInv` maps the ring to it: `visible` is
`published`, `freed` is `returned`, a reader holds its ticket until it has
copied. `ExactlyOnce` and `WriterOrder` say in terms of what was sent and received what
these steps come to. They are stated of the mailbox, and proved of all three rings through
the mapping.

### Event

`state_` and `kill_`, the mutex with its holder, and per waiter the label, whether
its deadline is a valid time, and the value of `ret`. `SetEvent` is two steps,
the compare-and-swap and the broadcast; `DestroyEvent` likewise. The condition
variable is external: it fails on a `tv_nsec` that is no fraction of a second,
times out at once if the deadline has passed, and otherwise sleeps until a
broadcast, the deadline or a spurious wakeup. The deadline's nanoseconds are
computed as the code does, in 32 bits (in two halves of 16 bits, so that the
numbers fit TLC's integers). `Clocks` says what the real-time clock may read against a
deadline that was made from the monotonic one.

`locking`, which never changes, is the version: FALSE for `events2.h`, TRUE for
`events.h`. There `SetEvent` holds the mutex from before the compare-and-swap to
the end of the broadcast (so `SetState` locks and `Notify` unlocks), `ClearEvent`
locks and unlocks around its one step, and the deadline is a valid time to come.
`SetLocks`, `SetUnlocks`, `ClearLocks` and `Deadline` are all the difference.

### Channel

`Ring` lets a wait end in any way at any time, so it cannot say whether anybody is
left asleep. `Channel` is the complement: the waiting and signalling is exact, and
the cursors are only the pair that decides about it, `end` and `start`:

| `side` | setters | `end` | guard | event | waiters | `start` |
|---|---|---|---|---|---|---|
| `data` | writers in `post_block` | `m_writeEnd` | 342 | `m_signal` | readers in `get_block_read` | `m_readStart` |
| `room` | readers in `return_block` | `m_readEnd` | 409 | `m_avail` | writers in `get_block_write` | `m_writeStart` |

A setter moves `end` (`MoveEnd`), reads `start` (`LookSignal`) and sets the event
(`Signal`, then `Notify`): three steps with anything in between. A waiter loads `start`
(`Look`) and makes of it what it can in a later step: it takes if the index is still that
of `start` (`Take`), tries again if it is not (`TakeLost`), or calls `WaitForEvent` if the
ring is empty *for the index it has* (`CallOnEmpty`, then the steps of `Event`), which for
a writer may be a ring with room (section 7). Whatever the wait
returned, it looks at the ring again: at once if it got 1, when its caller comes back if
not. That a check holds when the compare-and-swap succeeds is `ClaimHasRoom` of `RingInv`,
and that an end cursor moves in one step is what `Ring` and `Mailbox` justify.

### PEvents

A step is what a thread does between two operations on a mutex or a condition
variable. `held` and `waiter[o].holder` are the mutexes. A call of
`WaitForMultipleEvents` allocates one of `Waiters`, registers it with each event
that is not set (with its place in the list, the `WaitIndex`) and holds its mutex
all the while except in its sleep. `refs` is `RefCount`, `still` is
`StillWaiting`, and `status` the union of `FiredEvent` and `EventsLeft`: the same
field, as in the code. `SetEvent` visits the registrations in order; the last
reference frees the waiter, and a freed one may be allocated again, so that a
thread that still holds a pointer to it signals a stranger. `CreateEvent` sets an
event initially without a visit, since nothing can be registered with it. A caller
uses an event only while it exists, and it is destroyed only when no call uses it:
the contract that the code relies on.

### Earlier

The two earlier rings have the code of today's ring with a few lines changed, so
`Earlier` takes the actions of `Ring` as they are, one access to shared memory at a
time, and adds what differs. Line numbers of `shmIPC_impl.h` (impl) and
`shmIPC_before_postcrement.h` (before):

| What | `impl` | `before` | Action |
|---|---|---|---|
| the ring that `create` lays out: write cursors one block ahead | 75-79 | 445-449 | `EarlierInit` |
| emptiness check | the *next* block (99) | the block itself (321), as today | `ImplCheckAvail`, `CheckAvail` |
| `Amount` cleared on return | no (125) | yes (352), as today | `ImplSetDoneRead`, `SetDoneRead` |
| signal, per block that a cursor moves over | 144, 283 | 297, 371 | `GuardSignal`, `Signal` |
| count, per block | 148, 287 | 305, 378 | `Count` |
| wait | `timed_wait` on a semaphore (105, 242) | `WaitForEvent`, which clears the event | `WaitRoom`, `WaitData`, `ResetEvent` |
| a block of length 0 | `read` returns 0 | `read` goes on (195) | `ReturnEnds` |

What a thread still has to do after a step of the ring (look at the guard, signal,
count, clear the event) is its `duty`; it does nothing else before that is done. Both
semaphores start at 1 (the constructor is only left commented out,
`shmIPC_before_postcrement.h` 88-89). The block that `create` leaves between the
cursors is a message of length 0 to the first reader: `sent` begins with it.
`EarlierImplements` is the mailbox for what comes after it (`Unblanked`): the numbers of moves
less one, and the log without its first message.

The windows before the compare-and-swaps are those of today's ring, and so is the
clear of 352 after 351 in `before`. `EarlierSpec` therefore has the same
assumptions: `Prompt`, and for `before` also `ClearsInTime`.

### Segment and Handle

A segment of a name has a size or has none, and is laid out in two steps (blocks
and cursors, events) after it has been zeroed. `create` is the labels in `step`:
open, look at the size, then either truncate, map, zero, link, events, or map what
is there. Its first branch has no `return`, so the constructor may throw although
all was done: both outcomes are behaviours. The handles belong to threads of one
process, as in `main.cpp`, so that their mappings share an address space:
`munmap` of a pointer that was unmapped before hits whatever is mapped there now,
and a use of memory that is not mapped is `fault`, after which nothing happens.
`SegmentInit` starts with what a dead process may have left: no segment, one
without a size, or one that is laid out in part or whole.

`Spec` lets every handle make every call at any time, and says in `fault` when a call
uses memory that is not there. `CarefulSpec` leaves some orders out. Those that
`main.cpp` itself avoids: the old queue is removed once and first, the server
connects before the clients, a handle connects only when it is not
connected, and `close` is not called after `disconnect`. And one that it does not: the
clients start only when the server's `connect` has returned 0 (`served`), whereas
`main.cpp` ignores that result (117) and starts them regardless (123-126). Any
handle's calls of `shm_open` and `mmap` may fail, the server's too (`Failing`), and `mmap` fails
when no address is free. A server that failed is not connected again: it would take the
segment that it has sized and not laid out for a finished one (section 7). Everything else, such as
a call after `close`, stays possible in `CarefulSpec` and faults as it does in the code.

## 3. The runs

| Run | Instance | Checks |
|---|---|---|
| `ring_mpmc` | 2 writers, 2 readers, 3 blocks, 2 messages each, delayed stores, `TimelySpec`, symmetry, view | `TypeOK`, `IInv`, `Exclusive`, `ExactlyOnce`, `WriterOrder`, `Implements`, `ClaimHasRoom` |
| `ring_live` | 2 writers, 2 readers, 3 blocks, 1 message each, sequential consistency, fairness | `AllPublished`, `AllReclaimed`, `CountAtRest`, `EveryMessageMoves` |
| `ring_spsc` | 1 writer, 1 reader, 3 blocks, 5 messages of length 0, 1 or 2 (clipped to 1), delayed stores, fairness, no assumption | `Timely`, `Implements`, `EveryMessageMoves` |
| `channel` | 2 setters, 2 waiters, the destroyer, 3 blocks, either side, either version, a valid and an overflowing timeout, both clocks, symmetry | `TypeOK`, `SuccessMeansSet`, `NoSleepWhileSet`, `SomebodyAwake` |
| `channel_live` | 1 setter, 2 waiters of which one loops, 2 blocks, either side, either version, a valid timeout, both clocks, fairness | `EveryWaitEnds`, `EverythingIsTaken` |
| `pevents` | 2 threads that set, reset, create and destroy, one that waits for one event, two that wait for several, an auto-reset and a manual-reset event, 2 waiter objects, all modes and timeouts, symmetry | `TypeOK`, `RefsCounted`, `LeftCounted`, `SetMeansUnregistered`, `FiredIsSignalled`, `SetWakesASleeper`, `NobodyWaitsInACircle`, `FiredOnce` |
| `earlier` | both versions, 2 writers, 1 reader, 3 blocks, 2 messages each, delayed stores, `EarlierSpec`, symmetry, view | `EarlierTypeOK`, `ReadersWoken`, `WritersWoken`, `EarlierImplements` |
| `handle` | a server and two clients, 2 segments, 4 addresses, any of them may fail, every leftover segment, `CarefulSpec`, symmetry | `TypeOK`, `ReadyWhenConnected`, `OneQueue`, `TrafficKept` |

Four more runs are expected to end in a violation; see section 7.

**Bounds.** `MaxWrites` messages are accepted from each writer; reads and waits
are not bounded. Three blocks are the smallest ring in which two blocks are filled, or
read, at once and may be finished in either order; four messages are more than a lap of
it, so a block is written a second time while threads still hold indexes from the
first time. In
`ring_live` the two messages do not complete a lap, so that nothing is ever
overtaken; full rings and laps under fairness are in `ring_spsc`. `CountMod` is 8 in
place of 2^32: larger than any count, so that it wraps only below 0. `BlockSize` is 1,
so length 0 is empty, 1 fits and 2 is clipped. Empty messages are in `ring_spsc` only;
`CountAtRest` is not checked there, since with them it is false (section 7).

The views of `MCRing` and `MCEarlier` leave out what a local holds when its thread will
not read it again, as the index after the compare-and-swap: states that differ in nothing else have the
same future, and no property reads such a local (`Held`, `Overtaken` and the parts of
`IInv` ask for the label first). `EarlierView` leaves out the count too,
which nothing depends on and no property of that run but its type reads.

In `handle` two segments are all there
can be: the one left behind and the one made after its removal. Four addresses are
one more than the handles need; a constructor that throws keeps its mapping, so they
are used up sooner or later and `mmap` fails. The run may end with all handles destroyed,
so it does not check for deadlock.

In `channel` nothing is bounded but the ring and the number of threads. Three blocks
hold two messages, so one setter can move `end` again before another has looked at
`start`, and one waiter can take what another was woken for. The overflowing timeout is left out of
`channel_live`: a wait that fails at once cannot last. In `pevents` the number
of waiter objects is the bound: two, as many as calls that may allocate one; a call
that ended leaves its object registered and so keeps it from being used again, until
an event fires or is scanned. Two events are the fewest with a lock order and with a
manual-reset one beside an auto-reset one. `Lists` is the one list `<<e1, e2>>`:
`NobodyWaitsInACircle` fails as soon as two calls list events in opposite orders, or
one lists an event twice, which is the caller's doing. In `earlier` four messages and the
blank block go round three blocks more than once. Messages are of length 2 and clipped to
1; empty ones are left to `ring_spsc`, and the blank block is one. Two readers as well are
too many for a run of minutes. They were checked by hand without delayed stores: 9 879 175
states of `impl` and 13 091 920 of `before`, no violation; and so were one writer of four
messages and two readers with them (1 081 348 states of both).

**Fairness.** `main.cpp` runs each client and the server in an endless loop; the
scheduler runs every thread. That is weak fairness of each thread as a whole:
`FairSpec` of `RingInv`. Which way an event lets a waiting thread go on is not
fair: it may give up every time and call again. In `Channel` the
steps of a call are weakly fair. Locking the mutex, and the timeout, are strongly
fair: others can leave the mutex free infinitely often, and a spurious wakeup can
take a waiter out of its sleep each time before the deadline does, but the deadline
is an absolute time fixed before the loop. A setter that has moved `end` finishes its
call. The waiters in `Callers` look for more again and again, as in `main.cpp`; the
others may stop after any call, and then a signal may go to one who wants no more.
Nobody is obliged to move `end`.

## 4. What is proved

**The ring.** For all sets of threads, all ring sizes from two blocks, all block
sizes, lengths and bounds, and with delayed stores or without (`RingAssumption` is all that is
assumed of the constants):

* `TypeCorrect` (`RingExclusion`): `Spec => []TypeOK`. No scheduling assumption: even
  with stale indexes every index names a block and every length fits one.
* `PlaceCorrect` (`RingExclusion`): `PromptSpec => []PInv`.
* `ExclusionCorrect` (`RingExclusion`): `PromptSpec => []Exclusive`. No block is claimed,
  filled, sized or copied by two threads at once. It says nothing of a reader between
  389 and 390, which has given its block away: that its store hits nobody is
  `ContentsCorrect`, and needs `ClearsInTime`.
* `ClaimCorrect` (`RingExclusion`): `PromptSpec => ClaimHasRoom`. No writer claims in a full
  ring.
* `SoloCorrect` (`RingMailbox`): with one writer and one reader,
  `Spec => [](Timely /\ Exclusive)`, hence `Spec => TimelySpec` (`SoloIsTimelySpec`).
* `ContentsCorrect` (`RingMailbox`): `TimelySpec => []MInv`: between `write` and `read`
  a message is in its block, unchanged.
* `ImplementsCorrect` (`RingMailbox`): `TimelySpec => Implements`, the refinement. For one
  writer and one reader `SoloImplements`: `Spec => Implements`.
* `DeliveryCorrect` (`RingMailbox`): `TimelySpec => [](ExactlyOnce /\ WriterOrder)`, and
  `SoloDelivery` from `Spec` with one writer and one reader. Both are the refinement and
  `MailCorrect` (`MailboxProofs`): `MailSpec => [](ExactlyOnce /\ WriterOrder)`.
* `CountCorrect` (`RingRest`): if no length is 0, `TimelySpec => []CountAtRest`; `SoloCount`
  from `Spec`. With empty messages it is false.
* `InvCorrect` (`RingRest`): `TimelySpec => []IInv`.
* `RestCorrect` (`RingRest`): without delayed stores, `PromptSpec => [](AllPublished /\
  AllReclaimed)`. `SoloRest`: with one writer and one reader, delayed stores or not,
  `Spec => [](AllPublished /\ AllReclaimed)`.

The argument. `Exclusive` is about indexes, and indexes repeat; so the
invariant is about move numbers. `CursorsOK` says that each cursor is the number of
its moves modulo `BLOCK_COUNT` (`Slot`), that
`returned <= taken <= published <= claims` and that `claims < returned +
BLOCK_COUNT`. Whoever holds a block holds it under a ticket, the number of the
move that gave it out. Tickets of writers that fill lie in
`published .. claims - 1`, of readers in `returned .. taken - 1` (a reader
between 389 and 390 has a ticket below `taken` and no more), and no two are equal. Different tickets less than a lap apart are different blocks (`SlotInj`).

For this to be inductive it must say why the cursor moves are right. `WindowOK`
says of every index that was loaded and not used that it is a value the cursor
had, `Slot(lap)`, and that, *if it is still the latest value*, the checks made
about it hold. A compare-and-swap that succeeds proves only that the index is
equal; `Prompt` puts `lap` less than a lap behind, so it is the latest value
(`FreshClaim`, `FreshTake`), and the checks hold. For the end cursors
`WriteFlagsOK` and `ReadFlagsOK` say that a flag is up only for a block between
the cursors, so that a consumed flag is that of the block under the cursor
(`FreshConsume`, `FreshUnmark`), and `MoversOK` and `RetirersOK` that its consumer
is alone until it has moved the cursor. The proof that a step keeps it has one
step per action that moves something; all others are quiet for the part in
question. `SoloCorrect` uses the same invariant: with one thread on each side the
latest value is the only one, so `Prompt` follows and its assumption falls
away, and with it `ClearsInTime`, since nobody but that reader reclaims.

Given the places, the contents follow. A message is `Settled` from the end of `Fill` to
its copy, however it moves on: posted, flagged, being published, visible, taken. A step
settles no message but the one it fills (`WriterSettles`, `ReaderSettles`), and of the two
actions that store to a block neither has the block of a settled message
(`StoreElsewhere`; for `ClearAmount` this is `ClearsInTime`). So a reader copies what was
accepted, which is the one hard step of the refinement (`CopyDelivers`). The others are a
claim, a move of an end cursor and a take, for which `FreshClaim`, `MoverMoves` and
`FreshTake` say that the mailbox allows them; all else is invisible there (`WriterMaps`,
`ReaderMaps`). At rest: `NothingLost` says that every block between the cursors has a holder,
a flag or a mover, and `LookersOK` that a flag under an end cursor has a thread that is going to
look at it. A thread breaks that by looking at the cursor before its flag is up, unless the
cursor is still there (`OnTime`): without delayed stores nobody does, and with one
thread on each side it is. The run `ring_left_behind` is what happens otherwise.

What a check is worth. `m_readEnd` only moves on, so a check that found room is as good
later, as long as the start cursor is still where it was loaded: `FreshClaim`, from which
`ClaimCorrect`. The opposite finding is acted upon with no compare-and-swap, and may be
wrong: a thread may wait with an old index on a ring that is not full, or not empty, any
more. What follows from that is the subject of `Channel`.

Delivery (`MailInv`). Writers number their messages, so that no two in the log are equal
(`Numbered`, `SentOnce`); a message is held by one reader (`HeldOnce`); what a reader has
received lies in the log at rising places, before what it holds, and where nobody holds
anything (`Received`).

The count (`CountOK`). Up to a multiple of `CountMod`, `m_msgCount` is the number of
messages that are not taken or were empty (`Unread`), less the writers that have
claimed and not counted yet, plus the readers that have taken a message that is not empty
and not uncounted it yet. A reader learns whether it is empty from `Amount`, which is its
length in the log by `ContentsOK`. At rest both sets are empty, and without empty messages
(`NoEmpties`) `Unread` is what is claimed and not taken. The multiple is an
existential over the integers, which each step instantiates anew when the counter wraps.

**The event and the channel.** For any sets of setters and waiters, timeouts,
clocks and, for the channel, ring sizes from two blocks and at least one waiter
(`EventAssumption`, `ChannelAssumption`):

* `TypeCorrect` (`ChannelProofs`): `Spec => []TypeOK`, which says who holds the mutex.
* `SuccessCorrect` (`ChannelProofs`): `Spec => []SuccessMeansSet`.
* `NoSleepCorrect` (`ChannelProofs`): `Spec => []NoSleepWhileSet`.
* `ChannelIsEvent` (`ChannelProofs`): `ChannelSpec => Spec`. The channel's steps are
  steps of the event or leave it alone, so the three theorems hold in the channel.
* `AwakeCorrect` (`ChannelProofs`): `ChannelSpec => []SomebodyAwake`.

The argument. `SeenOK` says of a call at each label what it knows of the
event: a call that has left its loop without error and without a kill has seen
the state set. `Asleep` strengthens `NoSleepWhileSet` by the label before the sleep:
with the lock, a thread between test and sleep holds the mutex, so no setter can come
in between, and the broadcast of the one that set the event has emptied the condition
variable before it counts as returned. `SomebodyAwake` is not inductive
either, since a waiter falls asleep long after it looked at the ring. `Watched` is: if every
waiter is off (between its call of `WaitForEvent` and the end of its wait, or with an index
that `start` has left), then the ring is empty, or the event is set, or a setter will set it.
A waiter may go to sleep on an old index with something to take; but then another has
moved `start` since, and that one looks again. A step
that fills an empty ring makes its own setter one that will (`NoDistance`: nothing
available means that the cursors the guard compares are equal), and start does not move
while all are waiting, so that the guard stays true until it is read. `Watched` needs no
lock and no assumption on the event; `NoSleepCorrect` does the rest.

**The handle.** For any number of handles, segments and addresses
(`SegmentAssumption`, `HandleAssumption`):

* `TypeCorrect`: `Spec => []TypeOK`, whatever order the handles are called in.
* `CarefulCorrect`: `CarefulSpec => []CarefulInv`, and from it `ReadyCorrect`,
  `OneQueueCorrect` and `TrafficCorrect` for the other three properties.
  `CarefulIsSpec`: `CarefulSpec => Spec`.

The argument. Everything rests on there being one segment. `NameOK` says that whoever
opened the name has the segment that bears it now; this is kept because the name is
removed only before the first `open`. Until the server has connected (`ServerFirst`,
`ServerOK`) it is alone, it has one try, and its label says how far the layout has come, so
that it never finds a segment that looks old and is not. If it fails, nobody ever
connects. From then on (`AfterServed`) the segment is finished and no handle
is at a label of the first branch of `create`, which is why nothing is laid out twice.
`FlagsOK` ties `connected_` and `queue_` to the
calls made so far, and `PlacesOK` says that every handle with a live mapping has an
address of its own that still maps its segment. A step that unmaps is `UnmapOwn`: the
handle gives up its own address and lives no longer. In this order no pointer is unmapped
twice, since `close` is called only on a connected handle and so never after `disconnect`.

**The earlier rings.** Both versions, for any finite sets of threads, rings from two blocks,
lengths and bounds (`RingAssumption`, `VersionsAssumption`), under `EarlierTimely`:

* `EarlierPlaceCorrect`: `EarlierSpec => []EInv`, from which `EarlierTypeCorrect`
  (`[]EarlierTypeOK`) and `EarlierExclusion` (`[]Exclusive`).
* `EarlierImplementsCorrect`: `EarlierSpec => EarlierImplements`.
* `EarlierDelivery`: what the mailbox means to its users, without the blank message.

The argument. The invariant is that of today's ring (`EInv` is `MInv` and `ImplOK`), and
the lemmas of `RingExclusion` and `RingMailbox` are about steps of `Ring` from any state
in which it holds, so they serve for the steps that the versions share with it. What is left is
that the laid-out ring satisfies it, with the blank block as a message that is
visible (`EarlierPlaceInit`); the steps that only look at a cursor, a flag or the counter
(`OwnStep`, `OwnKeeps`); and that setting `doneRead` without clearing `Amount` keeps it (`GiveBackKeeps`).
`EarlierSteps` says that there are no others. `ImplCheckAvail` is sound because a reader of
`impl` takes a block only when there is a second one behind it (`ImplSees`); `ImplOK`
keeps that, and that no reader of `impl` is ever between the two stores, which is why that version
needs no `ClearsInTime`. The refinement is that of the ring, with the first message
struck off the log and one off every count (`UnblankedStep`): the blank message is
visible from the start (`BlankFirst`), so a step of the mailbox is one of the
mailbox without it, or is about it and changes nothing there.

**The Windows-style events.** For any threads, any finite set of events, any lists and any
number of waiter objects (`PEventsAssumption`):

* `EventsCorrect`: `Spec => []EventsInv`, and from it `TypeCorrect`, `RefsCorrect`,
  `LeftCorrect`, `SetCorrect`, `SignalCorrect`, `WakeCorrect` and the action property
  `FiredOnceCorrect`: every property of the run but the next.
* `OrderCorrect`: for any `rank` of the events, if every list names them by falling rank
  (`InOrder`), `Spec => []NobodyWaitsInACircle`. For lists in different orders, or a list
  with an event twice, the statement is false, and the code deadlocks.

The argument. `LocksInv` comes first, since every other part speaks of what others may do
meanwhile: `HeldOK` and `LocksOK` say that a mutex is held by exactly the thread whose
label is between its lock and its unlock, `OwnersOK` that a waiter has one caller, and `RefsOK` that `RefCount` is the number of
registrations, of forgotten ones and of the caller. Registrations are
places in lists: `CountAppend`, `CountRemove` and `CountClear` say how many there are
after one is added, after one is taken out of the middle so that those behind it move up,
and after all are dropped. On that stand:

* `ListsOK`: a call uses events that exist, and an event that does not has no registrations.
  `PlacesOK`: a waiter is registered only with events that its call has already probed.
* `WaitersOK`: `StillWaiting` and `FiredEvent` by the label of the caller. With it `LeftOK`
  follows: `EventsLeft` drops by one with a registration that fires or an event that was set
  when probed, and in no other way; a waiter for all is never left with `StillWaiting` off
  before its caller is through, which is the argument of the comment at 365.
* `SetOK`: a set event with registrations has a setter that is still visiting them.
  `ManualOK`: the same for a manual-reset event and its sleepers; `SetWakesASleeper` needs
  it for the setter's last label before the broadcast.
* For a circle, `PlacesOK` is the point. A setter with the mutex of an event waits for a
  waiter registered there; that waiter's caller waits for an event behind those it
  has probed, which ranks lower. So the caller that waits for the event of least rank
  would need one of lower rank still (`NoCircle`); the scan only tries a waiter's lock and so
  waits for nobody.

A step of this component changes several variables under two locks, so the proofs are
arranged by variable: one lemma per variable says which step may change it and how
(`HeldStep`, `WaitsStep`, `LocksStep`, `StateStep`, ...), and the invariants are proved from
these instead of from the actions.

**What is only model-checked.** Liveness (`EveryMessageMoves`, `EveryWaitEnds`,
`EverythingIsTaken`) is out of the prover's reach and stays with TLC, and so are `ReadersWoken`
and `WritersWoken` of the earlier rings, which are not proved at the grain of single
accesses. Every other invariant and action property of the passing
runs is a theorem. No proof removes `Prompt` or `ClearsInTime` for several threads on a
side, since without them the statements are false (section 7).

## 5. The properties

* `Exclusive`: no block is in the hands of two threads.
* `Implements`: the mailbox (order, capacity, exactly once, unmodified).
* `ExactlyOnce`, `WriterOrder`: the same in terms of what went in and came out. Nothing is
  received that was not sent, nothing twice or by two readers, nothing taken is lost unless
  it was empty; a reader gets the messages of a writer in order.
* `ClaimHasRoom`: the room check still holds when the claim succeeds.
* `Timely`: one writer and one reader are never overtaken and always clear in time,
  however long they are suspended.
* `AllPublished`, `AllReclaimed`: when nobody is publishing (returning) any more,
  nothing finished is left behind the end cursor.
* `CountAtRest`: when nobody is calling, the count is the number of messages in the queue
  (`MessageQueue.h` 222), modulo the width of the counter. Checked without empty messages.
* `EveryMessageMoves`: an accepted message is taken and its block comes back.
* `SuccessMeansSet`: `WaitForEvent` returns 1 only if the event was set during
  the call. `NoSleepWhileSet`: with the lock in `SetEvent`, nobody sleeps on a set
  event after it has returned. `EveryWaitEnds`: every call returns.
* `SomebodyAwake`: with that lock, the guards 342 and 409 are enough: while
  something can be taken and no setter is about to signal, some waiter is awake.
  `EverythingIsTaken`: with or without the lock, what is available is taken; a lost
  wakeup costs a timeout.
* `RefsCounted`: a waiter object has a reference for its caller and one for each
  registration (those that `DestroyEvent` forgets included), so that nobody frees
  one that another will lock. `LeftCounted`: `EventsLeft` is exact at every point,
  which the comment at 365 relies on. `FiredOnce`: of two events for one waiter for
  any, the second is kept.
* `SetMeansUnregistered`, `SetWakesASleeper`, `FiredIsSignalled`: an event that is
  set is not kept from a registered waiter, nor from a sleeper, nor is one that it was
  handed to left asleep, unless the thread that will wake it is still at it.
* `NobodyWaitsInACircle`: with one order of the events in all lists, the two lock
  orders (event before waiter, waiter before event) cannot deadlock: the scan
  only tries, and a setter that waits for a waiter's mutex finds its holder waiting for
  a later event.
* `ReadersWoken`, `WritersWoken`: the same question as `SomebodyAwake`, for the earlier
  rings. Readers of `impl` do not all sleep over more than the one block that it keeps in
  hand; of `before` nothing of the kind holds (section 7). Writers of either version do not
  *all* sleep while there is room. One of them may.
* `EarlierImplements`: the mailbox, for the earlier rings, past their blank block.
* `ReadyWhenConnected`: a connected handle has mapped a finished segment, whatever
  was left under its name. `OneQueue`: all have the same one, at different
  addresses. `TrafficKept`: a segment in use is not laid out again.

## 6. What is not modelled

* `ShmQueue::close`, which nothing calls. Its two calls of `DestroyEvent` are in
  `Event`; its `shmctl` on a descriptor of `shm_open` (605-606) removes nothing.
* A failing `ftruncate` (494), whose result is not looked at.
* `memcpy` byte by byte, message priorities (ignored by the code), printing,
  statistics and timing in `main.cpp`.
* In `Earlier`, creation and closing of the segment and `ShmClient::waitAvailable`. A wait
  on a semaphore or an event is one step that succeeds or gives up.
* `MessageQueue2.h` and `boostmq.hpp.old`: a wrapper of a third-party queue that
  keeps nothing but a flag, and a copy of that queue; `MessageQueue.cpp.old`: a wrapper
  of POSIX queues. The build files.
* A process that dies with the mutex of an event: nothing recovers it.

## 7. Where the code differs from what it says

Runs that must find a violation:

| Run | Property | What happens |
|---|---|---|
| `ring_late_clear` | `ExactlyOnce` | two readers on a full ring: the first is suspended after 389, the second reclaims both blocks, two sends fill the ring, and the first clears the length (390) of a new message, which `read` then drops as empty (240-244) although its sender was told that it succeeded (388 "Set the done flag for this block and clear the "amount" field in it") |
| `ring_left_behind` | `AllPublished` | two writers, each with its store 324 still buffered, both find the other's flag not up and return; a finished message stays unpublished until the next send (326, 333-334) |
| `event_no_wait` | `GivesUpAsleep` | `msTimeout * 1000000` for the default `INT32_MAX` is no valid `tv_nsec`; the wait fails at once with EINVAL (82; `shmIPC.h` 299) |
| `pevents_dangling` | `SignalsLiveWaiter` | `SetEvent` unlocks a waiter (373) and then signals it (376, 433); its caller finds the event, returns and frees the waiter in between (46-47, 377) |

Other differences met while modelling, each visible in the model:

* A writer suspended before 309 while the others claim `BLOCK_COUNT` blocks claims a block
  of a full ring, on the check that it made a lap ago (294 "Check if there is room", 308
  "Make sure the operation is atomic"): `ClaimHasRoom` fails for `Spec` with two writers.
* `write()` may wait, and report a timeout, on a ring with room, even on an empty one (294,
  299). A writer has loaded
  `m_writeStart` (295); another sends a message in that block and a reader returns it, so
  that `m_readEnd` is the block after it; the first finds that at 297 and waits on
  `m_avail`. No suspension for a lap is needed. With the lock in `SetEvent` somebody is
  still awake to use the room (`AwakeCorrect`).
* A reader may decrement the count before the writer of its message has incremented
  it (283): it is then 2^32 - 1 and `getMessageCount` returns -1, "not connected"
  (`MessageQueue.h` 224).
* `events2.h` comments out the lock of `SetEvent`: the state may be set and broadcast
  between the test 83 and the wait 85, and the waiter sleeps on a set event in spite of
  74. `NoSleepWhileSet` without `locking` fails.
* `msTimeout` below 4295 but at least 1000 is just as invalid; and where it is
  valid, the deadline's seconds come from `CLOCK_MONOTONIC` while the condition
  variable goes by `CLOCK_REALTIME`: on a host whose clock is set the deadline has
  passed and `WaitForEvent` never waits (`WaitPast`; `Clocks`).
* `events2.h` 93 resets the event after every wait. A signal that arrives between
  the timeout and the reset is lost and 0 is returned (67).
* `DestroyEvent` may broadcast between the test of `kill_` and the wait; that waiter
  sleeps until its deadline (114). `kill_` is never reset.
* A stale `m_writeEnd` can make a writer consume a flag of a later lap at 332 without
  moving the cursor at 339, whose result is ignored: the ring then stops. The
  part `MoversOK` of `IInv` excludes this under `Prompt`.
* A message of length 0 is counted by `write` and dropped by `read` without being uncounted
  (239-244), so that from then on `getMessageCount` is not "the current number of
  messages" (`MessageQueue.h` 222): `CountAtRest` fails as soon as 0 is among `Lengths`; `send` reports it as a timeout (`MessageQueue.h` 155).
* `main.cpp` does not look at what the server's `connect` returns (117) and starts the
  clients in any case (123-126). If the server's `create` failed after `ftruncate`,
  say in `mmap` (500-502), the segment has a size and is not laid out: the clients take it for a
  finished one. `ReadyWhenConnected` fails when `served` is not asked for.
* Outside the order of `CarefulSpec` every property of `Handle` but `TypeOK` fails
  for `Spec`. Two creators race from 475 to 531, since the mutex (420-426) is
  commented out: one uses a segment that the other has not finished, or lays it
  out again under messages already sent. `close` leaves `connected_` true
  (268-278), so that the next `send` uses a null pointer. `disconnect` keeps the
  pointer it unmapped (575-577), so that a `close` after it unmaps what another
  handle has mapped there since. `clearQueue` tests the inverse condition (249)
  and uses a queue that is null or unmapped. A name removed while handles are
  connected splits them into two queues.
* `WaitForMultipleEvents` with `waitAll` and timeout 0 returns `ETIMEDOUT` even if all
  events were set, and has consumed the auto-reset ones (270-273). It consumes
  those that fired before a timeout as well.
* A timeout ends its loop untested (300-302): an event that was handed to the caller
  meanwhile is gone and `ETIMEDOUT` is returned, although the comment at 159 says that
  an event is acquired only if the wait succeeded.
* A scan whose trylock fails keeps the registration (73), and `DestroyEvent` then
  drops it with the event: the waiter object is never freed (`leaked`). `DestroyEvent`
  deletes an event that `CreateEvent` did not allocate (120, 448).
* Two callers that list events in opposite orders, or one that lists an event twice,
  deadlock (238).
* In `shmIPC_before_postcrement.h` the emptiness check has moved by one block (320-321) and
  the guard of the signal has not (297): a lone message wakes nobody, although 296 says
  "Signal availability of more data but only if threads are waiting". `ReadersWoken` allows
  one block for what `impl` keeps in hand, which `before` does not, and so is stated for
  `impl` alone. The blank first block
  is counted out and was not counted in: the count of an empty queue is 2^32 - 1. (In `impl`
  it is one less than the number of messages, of which the one in hand is never handed out.) The clear at 352 after the flag at 351 is the late clear of today's ring.

## 8. What is left

* That `Earlier` with `version = "before"` and `Ring` agree on when a thread may move a
  cursor, so that the guards of the signals can be compared in one statement.
* A refinement of `Channel` by `Ring` and `Event` together. Here the two are joined by
  what each assumes of the other: `Ring` lets a wait end anyhow, `Channel` takes moves of
  the cursors that the mailbox allows.
