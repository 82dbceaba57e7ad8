------------------------------ MODULE PEvents -------------------------------
(***************************************************************************)
(* The Windows-style events of pevents.h: SetEvent, ResetEvent,            *)
(* WaitForEvent, WaitForMultipleEvents, CreateEvent and DestroyEvent.      *)
(*                                                                         *)
(* An event has a mutex; so has each waiter object (wfmo_t_), which a call *)
(* of WaitForMultipleEvents allocates, locks and registers with the events *)
(* it waits for.  The caller holds its waiter's mutex while it locks the   *)
(* events; SetEvent holds the event's mutex while it locks the waiters.    *)
(* Waiters outlive their call as long as an event has them registered and  *)
(* are freed by whoever drops the last reference.                          *)
(*                                                                         *)
(* A step is what happens between two operations on a mutex or condition   *)
(* variable.  A call that finds the first mutex it wants taken has not     *)
(* begun; WaitForEvent with timeout 0 returns ETIMEDOUT then, a stutter.   *)
(* An event is used only between its CreateEvent and its DestroyEvent, and *)
(* destroyed only when no call uses it.                                    *)
(***************************************************************************)
EXTENDS Integers, Sequences, FiniteSets

CONSTANTS
  Setters,      \* threads that call SetEvent and ResetEvent
  Singles,      \* threads that call WaitForEvent
  Multis,       \* threads that call WaitForMultipleEvents
  Keepers,      \* threads that call CreateEvent and DestroyEvent
  Events,
  AutoEvents,   \* those with AutoReset
  Lists,        \* the lists of events that callers wait for
  Modes,        \* the values of waitAll they pass
  Timeouts,     \* "poll" (0), "timed" or "forever" (uint64_t -1)
  Waiters,      \* bound: wfmo_t_ objects allocated at a time
  NoThread      \* the holder of a free mutex

Threads == Setters \cup Singles \cup Multis \cup Keepers

ASSUME PEventsAssumption ==
  /\ AutoEvents \subseteq Events
  /\ Lists \subseteq Seq(Events) \ {<<>>}
  /\ Modes \subseteq BOOLEAN
  /\ Timeouts \subseteq {"poll", "timed", "forever"}
  /\ NoThread \notin Threads
  /\ IsFiniteSet(Events)

VARIABLES
  created,      \* events between their CreateEvent and DestroyEvent
  state,        \* pevent_t::State
  held,         \* pevent_t::Mutex: the thread that holds it, or NoThread
  waits,        \* pevent_t::RegisteredWaits
  live,         \* waiters that are allocated
  waiter,       \* their contents; status is the union FiredEvent, EventsLeft
  pc,
  call,         \* parameters and locals of a thread's call
  leaked        \* history: registrations a DestroyEvent dropped uncounted

events == <<created, state, held, waits>>
vars == <<events, live, waiter, pc, call, leaked>>

Blank == [holder |-> NoThread, refs |-> 0, all |-> FALSE, still |-> FALSE,
          status |-> 0]
NoCall == [list |-> <<>>, i |-> 1, timeout |-> "poll", timedout |-> FALSE,
           own |-> {}, k |-> 1]

Goto(t, label) == pc' = [pc EXCEPT ![t] = label]
Return(t) == Goto(t, "idle") /\ call' = [call EXCEPT ![t] = NoCall]

Ev(t)    == call[t].list[call[t].i]                    \* the event in hand
Own(t)   == CHOOSE o \in Waiters : o \in call[t].own   \* the waiter in hand
AutoReset(t) == Ev(t) \in AutoEvents
Entry(t) == waits[Ev(t)][call[t].k].waiter             \* in the scan's hand

Taken(e)     == [state EXCEPT ![e] = e \notin AutoEvents]
Lock(e, t)   == held[e] = NoThread /\ held' = [held EXCEPT ![e] = t]
Unlock(e)    == held' = [held EXCEPT ![e] = NoThread]
Acquire(o, t) ==
  /\ waiter[o].holder = NoThread
  /\ waiter' = [waiter EXCEPT ![o].holder = t]

(* Waiter o is unlocked with contents w; destroyed and deleted if that was  *)
(* the last reference to it.                                                *)
Release(o, w) ==
  /\ waiter' = [waiter EXCEPT ![o] = IF w.refs = 0 THEN Blank
                                     ELSE [w EXCEPT !.holder = NoThread]]
  /\ live' = IF w.refs = 0 THEN live \ {o} ELSE live

(* Slips: definitions with one mistake each.  No behaviour uses them; put   *)
(* in the place of the one they follow from, each must break a property.    *)

FiredAsAny(w, i) == [w EXCEPT !.status = i]   \* the wrong half of the union

(* What firing the event at place i of its list does to a waiter.           *)
Fired(w, i) == [w EXCEPT !.status = IF w.all THEN @ - 1 ELSE i]

Init ==
  /\ created = Events
  /\ state \in [Events -> BOOLEAN]
  /\ held = [e \in Events |-> NoThread]
  /\ waits = [e \in Events |-> <<>>]
  /\ live = {} /\ waiter = [o \in Waiters |-> Blank]
  /\ pc = [t \in Threads |-> "idle"]
  /\ call = [t \in Threads |-> NoCall]
  /\ leaked = [o \in Waiters |-> 0]

(* A call that locks event e first.                                         *)
Enter(t, e, timeout, label) ==
  /\ pc[t] = "idle" /\ e \in created
  /\ Lock(e, t)
  /\ call' = [call EXCEPT ![t].list = <<e>>, ![t].timeout = timeout]
  /\ Goto(t, label)
-----------------------------------------------------------------------------
(* More slips *)

ExpireUncounted(t) ==
  /\ pc[t] = "hand" /\ ~waiter[Own(t)].still
  /\ Release(Own(t), waiter[Own(t)])
  /\ waits' = [waits EXCEPT ![Ev(t)] = Tail(@)]
  /\ call' = [call EXCEPT ![t].own = {}]
  /\ Goto(t, "visit")
  /\ UNCHANGED <<created, state, held, leaked>>

HandTo(t, still, stays) ==
  /\ pc[t] = "hand" /\ waiter[Own(t)].still
  /\ LET w == Fired(waiter[Own(t)], Head(waits[Ev(t)]).index)
     IN Release(Own(t), [w EXCEPT !.refs = @ - 1, !.still = w.all \/ still])
  /\ waits' = [waits EXCEPT ![Ev(t)] = Tail(@)]
  /\ state' = IF stays THEN state ELSE Taken(Ev(t))
  /\ Goto(t, "signal")
  /\ UNCHANGED <<created, held, call, leaked>>

HandKeepsWaiting(t) == HandTo(t, TRUE, FALSE)   \* StillWaiting stays
HandStaysSet(t)     == HandTo(t, FALSE, TRUE)   \* State stays

SignalNobody(t) ==
  /\ pc[t] = "signal"
  /\ IF AutoReset(t) THEN Unlock(Ev(t)) /\ Return(t)
     ELSE /\ Goto(t, "visit") /\ held' = held
          /\ call' = [call EXCEPT ![t].own = {}]
  /\ UNCHANGED <<created, state, waits, live, waiter, leaked>>

WakeNobody(t) ==
  /\ pc[t] = "wake"
  /\ Return(t)
  /\ UNCHANGED <<events, live, waiter, leaked>>

ScanKeepsLock(t) ==
  /\ pc[t] = "drop" /\ waiter[Entry(t)].still
  /\ call' = [call EXCEPT ![t].k = @ + 1]
  /\ Goto(t, "scan")
  /\ UNCHANGED <<events, live, waiter, leaked>>

NextEventSame(t) ==   \* the same event twice in a list
  Goto(t, "reg") /\ call' = call
-----------------------------------------------------------------------------
(* SetEvent and ResetEvent *)

SetEvent(t, e) ==
  /\ Enter(t, e, "poll", "visit")
  /\ state' = [state EXCEPT ![e] = TRUE]
  /\ UNCHANGED <<created, waits, live, waiter, leaked>>

LockRegistered(t) ==
  /\ pc[t] = "visit" /\ waits[Ev(t)] # <<>>
  /\ LET o == Head(waits[Ev(t)]).waiter
     IN Acquire(o, t) /\ call' = [call EXCEPT ![t].own = {o}]
  /\ Goto(t, "hand")
  /\ UNCHANGED <<events, live, leaked>>

Expire(t) ==   \* its call is over: forget the registration
  /\ pc[t] = "hand" /\ ~waiter[Own(t)].still
  /\ Release(Own(t), [waiter[Own(t)] EXCEPT !.refs = @ - 1])
  /\ waits' = [waits EXCEPT ![Ev(t)] = Tail(@)]
  /\ call' = [call EXCEPT ![t].own = {}]
  /\ Goto(t, "visit")
  /\ UNCHANGED <<created, state, held, leaked>>

Hand(t) ==
  /\ pc[t] = "hand" /\ waiter[Own(t)].still
  /\ LET w == Fired(waiter[Own(t)], Head(waits[Ev(t)]).index)
     IN Release(Own(t), [w EXCEPT !.refs = @ - 1, !.still = w.all])
  /\ waits' = [waits EXCEPT ![Ev(t)] = Tail(@)]
  /\ state' = Taken(Ev(t))
  /\ Goto(t, "signal")
  /\ UNCHANGED <<created, held, call, leaked>>

(* The waiter is signalled after it was unlocked: it may have been freed    *)
(* since, and even allocated again.                                         *)
Signal(t) ==
  /\ pc[t] = "signal"
  /\ pc' = [u \in Threads |->
              IF u = t THEN IF AutoReset(t) THEN "idle" ELSE "visit"
              ELSE IF pc[u] = "dozing" /\ call[u].own = call[t].own
                   THEN "redoze" ELSE pc[u]]
  /\ IF AutoReset(t)
     THEN Unlock(Ev(t)) /\ call' = [call EXCEPT ![t] = NoCall]
     ELSE held' = held /\ call' = [call EXCEPT ![t].own = {}]
  /\ UNCHANGED <<created, state, waits, live, waiter, leaked>>

NoneRegistered(t) ==
  /\ pc[t] = "visit" /\ waits[Ev(t)] = <<>>
  /\ Unlock(Ev(t))
  /\ Goto(t, "wake")
  /\ UNCHANGED <<created, state, waits, live, waiter, call, leaked>>

Sleepers(e) == {u \in Threads : pc[u] = "asleep" /\ Ev(u) = e}

Wake(t) ==   \* one sleeper, or all of a manual-reset event
  /\ pc[t] = "wake"
  /\ \E W \in SUBSET Sleepers(Ev(t)) :
       /\ AutoReset(t) => Cardinality(W) <= 1
       /\ W = {} \/ ~AutoReset(t) => W = Sleepers(Ev(t))
       /\ pc' = [u \in Threads |-> IF u = t THEN "idle"
                                   ELSE IF u \in W THEN "relock" ELSE pc[u]]
  /\ call' = [call EXCEPT ![t] = NoCall]
  /\ UNCHANGED <<events, live, waiter, leaked>>

ResetEvent(t, e) ==
  /\ pc[t] = "idle" /\ e \in created /\ held[e] = NoThread
  /\ state' = [state EXCEPT ![e] = FALSE]
  /\ UNCHANGED <<created, held, waits, live, waiter, pc, call, leaked>>
-----------------------------------------------------------------------------
(* WaitForEvent *)

WaitForEvent(t, e) ==
  /\ \E timeout \in Timeouts : Enter(t, e, timeout, "test")
  /\ UNCHANGED <<created, state, waits, live, waiter, leaked>>

TakeEvent(t) ==
  /\ pc[t] = "test" /\ state[Ev(t)] /\ ~call[t].timedout
  /\ state' = Taken(Ev(t))
  /\ Unlock(Ev(t)) /\ Return(t)
  /\ UNCHANGED <<created, waits, live, waiter, leaked>>

GiveUp(t) ==   \* past the deadline even if the event is set by now
  /\ pc[t] = "test"
  /\ call[t].timedout \/ (call[t].timeout = "poll" /\ ~state[Ev(t)])
  /\ Unlock(Ev(t)) /\ Return(t)
  /\ UNCHANGED <<created, state, waits, live, waiter, leaked>>

Sleep(t) ==
  /\ pc[t] = "test" /\ ~state[Ev(t)]
  /\ ~call[t].timedout /\ call[t].timeout # "poll"
  /\ Unlock(Ev(t)) /\ Goto(t, "asleep")
  /\ UNCHANGED <<created, state, waits, live, waiter, call, leaked>>

Relock(t) ==
  /\ pc[t] = "relock"
  /\ Lock(Ev(t), t) /\ Goto(t, "test")
  /\ UNCHANGED <<created, state, waits, live, waiter, call, leaked>>

(* pthread_cond_timedwait and pthread_cond_wait wake of themselves          *)
Resume(t) ==
  Goto(t, IF pc[t] = "asleep" THEN "relock" ELSE "redoze")

WakeSpurious(t) ==
  /\ pc[t] \in {"asleep", "dozing"}
  /\ Resume(t)
  /\ UNCHANGED <<events, live, waiter, call, leaked>>

WakeTimedOut(t) ==
  /\ pc[t] \in {"asleep", "dozing"} /\ call[t].timeout = "timed"
  /\ Resume(t)
  /\ call' = [call EXCEPT ![t].timedout = TRUE]
  /\ UNCHANGED <<events, live, waiter, leaked>>
-----------------------------------------------------------------------------
(* RemoveExpiredWaitHelper, for the registrations of the event in hand *)

ScanBusy(t) ==   \* trylock fails: keep the registration
  /\ pc[t] = "scan" /\ call[t].k <= Len(waits[Ev(t)])
  /\ waiter[Entry(t)].holder # NoThread
  /\ call' = [call EXCEPT ![t].k = @ + 1]
  /\ UNCHANGED <<events, live, waiter, pc, leaked>>

ScanTry(t) ==
  /\ pc[t] = "scan" /\ call[t].k <= Len(waits[Ev(t)])
  /\ Acquire(Entry(t), t)
  /\ Goto(t, "drop")
  /\ UNCHANGED <<events, live, call, leaked>>

ScanKeep(t) ==
  /\ pc[t] = "drop" /\ waiter[Entry(t)].still
  /\ Release(Entry(t), waiter[Entry(t)])
  /\ call' = [call EXCEPT ![t].k = @ + 1]
  /\ Goto(t, "scan")
  /\ UNCHANGED <<events, leaked>>

ScanDrop(t) ==
  /\ pc[t] = "drop" /\ ~waiter[Entry(t)].still
  /\ Release(Entry(t), [waiter[Entry(t)] EXCEPT !.refs = @ - 1])
  /\ waits' = [waits EXCEPT ![Ev(t)] = SubSeq(@, 1, call[t].k - 1)
                                      \o SubSeq(@, call[t].k + 1, Len(@))]
  /\ Goto(t, "scan")
  /\ UNCHANGED <<created, state, held, call, leaked>>

Scanned(t) == pc[t] = "scan" /\ call[t].k > Len(waits[Ev(t)])
-----------------------------------------------------------------------------
(* CreateEvent and DestroyEvent *)

CreateEvent(t, e) ==   \* with either initialState
  /\ pc[t] = "idle" /\ e \notin created /\ held[e] = NoThread
  /\ created' = created \cup {e}
  /\ \E s \in BOOLEAN : state' = [state EXCEPT ![e] = s]
  /\ UNCHANGED <<held, waits, live, waiter, pc, call, leaked>>

DestroyEvent(t, e) ==
  /\ \A u \in Threads : \A i \in DOMAIN call[u].list : call[u].list[i] # e
  /\ Enter(t, e, "poll", "scan")
  /\ created' = created \ {e}
  /\ UNCHANGED <<state, waits, live, waiter, leaked>>

Registrations(o, e) == {k \in DOMAIN waits[e] : waits[e][k].waiter = o}

Delete(t) ==   \* with the registrations the scan found busy
  /\ Scanned(t) /\ call[t].own = {}
  /\ leaked' = [o \in Waiters |->
                  leaked[o] + Cardinality(Registrations(o, Ev(t)))]
  /\ waits' = [waits EXCEPT ![Ev(t)] = <<>>]
  /\ Unlock(Ev(t)) /\ Return(t)
  /\ UNCHANGED <<created, state, live, waiter>>
-----------------------------------------------------------------------------
(* WaitForMultipleEvents *)

WaitForMultipleEvents(t) ==
  /\ pc[t] = "idle"
  /\ \E list \in Lists, all \in Modes, timeout \in Timeouts,
        o \in Waiters \ live :
       /\ \A i \in DOMAIN list : list[i] \in created
       /\ live' = live \cup {o}
       /\ waiter' = [waiter EXCEPT ![o] =
            [holder |-> t, refs |-> 1, all |-> all, still |-> TRUE,
             status |-> IF all THEN Len(list) ELSE -1]]
       /\ call' = [call EXCEPT ![t] = [NoCall EXCEPT !.list = list,
                                         !.timeout = timeout, !.own = {o}]]
  /\ Goto(t, "reg")
  /\ UNCHANGED <<events, leaked>>

LockNext(t) ==
  /\ pc[t] = "reg"
  /\ Lock(Ev(t), t)
  /\ call' = [call EXCEPT ![t].k = 1]
  /\ Goto(t, "scan")
  /\ UNCHANGED <<created, state, waits, live, waiter, leaked>>

(* The next event of the list; after the last, a poll is over.              *)
NextEvent(t) ==
  IF call[t].i < Len(call[t].list)
  THEN /\ call' = [call EXCEPT ![t].i = @ + 1]
       /\ Goto(t, "reg")
  ELSE /\ call' = [call EXCEPT ![t].timedout = (call[t].timeout = "poll")]
       /\ Goto(t, IF call[t].timeout = "poll" THEN "finish" ELSE "loop")

ProbeFired(t) ==   \* already set: take it
  /\ Scanned(t) /\ call[t].own # {} /\ state[Ev(t)]
  /\ state' = Taken(Ev(t))
  /\ waiter' = [waiter EXCEPT ![Own(t)] = Fired(@, call[t].i - 1)]
  /\ Unlock(Ev(t))
  /\ IF waiter[Own(t)].all THEN NextEvent(t)
                           ELSE Goto(t, "finish") /\ call' = call
  /\ UNCHANGED <<created, waits, live, leaked>>

Register(t) ==
  /\ Scanned(t) /\ call[t].own # {} /\ ~state[Ev(t)]
  /\ waits' = [waits EXCEPT ![Ev(t)] =
                 Append(@, [waiter |-> Own(t), index |-> call[t].i - 1])]
  /\ waiter' = [waiter EXCEPT ![Own(t)].refs = @ + 1]
  /\ Unlock(Ev(t))
  /\ NextEvent(t)
  /\ UNCHANGED <<created, state, live, leaked>>

Done(w) == IF w.all THEN w.status = 0 ELSE w.status # -1

LoopEnds(t) ==
  /\ pc[t] = "loop" /\ Done(waiter[Own(t)])
  /\ Goto(t, "finish")
  /\ UNCHANGED <<events, live, waiter, call, leaked>>

Doze(t) ==
  /\ pc[t] = "loop" /\ ~Done(waiter[Own(t)])
  /\ Release(Own(t), waiter[Own(t)])
  /\ Goto(t, "dozing")
  /\ UNCHANGED <<events, call, leaked>>

Redoze(t) ==   \* the deadline ends the loop untested
  /\ pc[t] = "redoze"
  /\ Acquire(Own(t), t)
  /\ Goto(t, IF call[t].timedout THEN "finish" ELSE "loop")
  /\ UNCHANGED <<events, live, call, leaked>>

Finish(t) ==
  /\ pc[t] = "finish"
  /\ Release(Own(t), [waiter[Own(t)] EXCEPT !.refs = @ - 1, !.still = FALSE])
  /\ Return(t)
  /\ UNCHANGED <<events, leaked>>
-----------------------------------------------------------------------------
SetterStep(t) ==
  \/ \E e \in Events : SetEvent(t, e) \/ ResetEvent(t, e)
  \/ LockRegistered(t) \/ Expire(t) \/ Hand(t) \/ Signal(t)
  \/ NoneRegistered(t) \/ Wake(t)

WaitStep(t) ==
  \/ TakeEvent(t) \/ GiveUp(t) \/ Sleep(t) \/ Relock(t)
  \/ WakeSpurious(t) \/ WakeTimedOut(t)

ScanStep(t) == ScanBusy(t) \/ ScanTry(t) \/ ScanKeep(t) \/ ScanDrop(t)

MultiStep(t) ==
  \/ LockNext(t) \/ ProbeFired(t) \/ Register(t)
  \/ LoopEnds(t) \/ Doze(t) \/ Redoze(t) \/ Finish(t)

Next ==
  \/ \E t \in Setters : SetterStep(t)
  \/ \E t \in Singles : \E e \in Events : WaitForEvent(t, e)
  \/ \E t \in Multis  : WaitForMultipleEvents(t) \/ MultiStep(t)
  \/ \E t \in Keepers : Delete(t) \/ \E e \in Events :
                          CreateEvent(t, e) \/ DestroyEvent(t, e)
  \/ \E t \in Threads : WaitStep(t) \/ ScanStep(t)

Spec == Init /\ [][Next]_vars
-----------------------------------------------------------------------------
(* Properties *)

HoldsEvent  == {"visit", "hand", "signal", "test", "scan", "drop"}
HoldsOwn    == {"reg", "scan", "drop", "loop", "finish"}

(* The waiters that thread t has locked.                                    *)
Holding(t) ==
  (IF pc[t] \in HoldsOwn \cup {"hand"} THEN call[t].own ELSE {})
    \cup (IF pc[t] = "drop" THEN {Entry(t)} ELSE {})

(* Every variable has its type, and a mutex is held by the thread that is   *)
(* between its lock and its unlock: no path leaves one locked.              *)
TypeOK ==
  /\ created \subseteq Events /\ state \in [Events -> BOOLEAN]
  /\ \A e \in Events, t \in Threads :
       held[e] = t <=> pc[t] \in HoldsEvent /\ Ev(t) = e
  /\ \A o \in Waiters, t \in Threads : waiter[o].holder = t <=> o \in Holding(t)
  /\ \A o \in Waiters : waiter[o].refs \in Nat /\ waiter[o].status \in Int
  /\ pc \in [Threads -> HoldsEvent \cup HoldsOwn \cup
                {"idle", "wake", "asleep", "relock", "dozing", "redoze"}]

Owner(o, t) == o \in call[t].own
               /\ pc[t] \in HoldsOwn \cup {"dozing", "redoze"}
RegisteredAt(o) == {e \in created : Registrations(o, e) # {}}
Count(o) == Cardinality(UNION {{e} \X Registrations(o, e) : e \in Events})

(* RefCount counts the caller and every registration, those a DestroyEvent  *)
(* forgot included: nobody frees a waiter that another will still lock.     *)
RefsCounted ==
  \A o \in Waiters :
    waiter[o].refs = Count(o) + leaked[o]
                       + Cardinality({t \in Threads : Owner(o, t)})

(* pevents.h:365 argues that the waiters for all events need no update of   *)
(* StillWaiting, since EventsLeft counts the registrations that are left:   *)
(* it does, with the events that are still to be probed.                    *)
Unprobed(t) == IF pc[t] \in {"reg", "scan", "drop"}
               THEN Len(call[t].list) - call[t].i + 1 ELSE 0
LeftCounted ==
  \A t \in Threads, o \in Waiters :
    Owner(o, t) /\ waiter[o].all
      => waiter[o].status = Count(o) + Unprobed(t)

(* An event that is set has handed itself to every waiter: nobody is still  *)
(* registered with it when its mutex is free.                               *)
SetMeansUnregistered ==
  \A e \in created : held[e] = NoThread /\ state[e] => waits[e] = <<>>

(* A caller of WaitForMultipleEvents sleeps on after its last event only    *)
(* until the thread that set it, which has unlocked the waiter, signals it. *)
FiredIsSignalled ==
  \A t \in Threads :
    pc[t] = "dozing" /\ Done(waiter[Own(t)])
      => \E s \in Setters : pc[s] = "signal" /\ call[s].own = call[t].own

(* No caller of WaitForEvent sleeps on a set event, unless a wakeup is on   *)
(* its way: a setter that still holds the event or has just released it, or *)
(* a caller that was woken for it.                                          *)
SetWakesASleeper ==
  \A e \in created : state[e] /\ Sleepers(e) # {} =>
    \E t \in Threads :
      /\ pc[t] \in {"visit", "hand", "signal", "wake", "relock", "test"}
      /\ Ev(t) = e /\ ~call[t].timedout

(* A waiter for any event is given one: a second setter finds StillWaiting  *)
(* reset and keeps its event for somebody else.                             *)
FiredOnce ==
  [][\A o \in live \cap live' :
       ~waiter[o].all /\ waiter[o].status # -1
         => waiter'[o].status = waiter[o].status]_vars

(* The locks are taken in both orders, waiter before event by the caller,   *)
(* event before waiter by the setter.  If all callers list the events in    *)
(* one order, no threads wait for each other in a circle.                   *)
Awaits(t, u) ==   \* t waits for a mutex that u holds
  \/ pc[t] \in {"reg", "relock"} /\ held[Ev(t)] = u
  \/ pc[t] = "visit" /\ waits[Ev(t)] # <<>>
       /\ waiter[Head(waits[Ev(t)]).waiter].holder = u
  \/ pc[t] = "redoze" /\ waiter[Own(t)].holder = u
NobodyWaitsInACircle ==
  \A T \in (SUBSET Threads) \ {{}} : \E t \in T : \A u \in T : ~Awaits(t, u)

(* SetEvent signals the condition variable of a waiter that still exists    *)
(* (the assertions of pevents.h:377 and 434).                               *)
SignalsLiveWaiter ==
  \A t \in Threads : pc[t] = "signal" => call[t].own \subseteq live
=============================================================================
