------------------------------ MODULE Segment -------------------------------
(***************************************************************************)
(* The shared-memory segment of ShmQueue (shmIPC.h): create(), which each  *)
(* queue object runs in its constructor, disconnect() and                  *)
(* removeOldQueues(), as steps of threads that share one address space.    *)
(*                                                                         *)
(* create() takes a segment of size 0 for one that it has to initialise    *)
(* and any other for one that is ready.  The mutex that would make the     *)
(* test and the initialisation one step is commented out.                  *)
(*                                                                         *)
(* External: shm_open, ftruncate, mmap, munmap and shm_unlink.  A segment  *)
(* lives on after its name is removed; a mapping takes a free address.     *)
(***************************************************************************)
EXTENDS Naturals, FiniteSets

CONSTANTS
  Handles,      \* queue objects, each used by a thread of its own
  Failing,      \* those whose shm_open and mmap may fail
  MaxSegments,  \* bound: segments that ever exist
  Addresses,    \* bound: places of the address space for a mapping
  Nowhere       \* the null pointer

ASSUME SegmentAssumption ==
  /\ Failing \subseteq Handles
  /\ MaxSegments \in Nat \ {0}
  /\ Nowhere \notin Addresses

Segments == 1 .. MaxSegments
Parts == {"links", "events"}   \* what create() lays out, cursors with the links

VARIABLES
  segments,   \* number of segments that were ever created
  named,      \* the segment that the name stands for, or 0
  sized,      \* per segment: ftruncate has given it its size
  ready,      \* per segment: the parts that are laid out
  traffic,    \* per segment: messages were sent through it
  mapping,    \* per address: the segment mapped there, or 0
  step,       \* of a thread in create(), or "done" or "failed"
  fd,         \* m_shmfd: the segment opened
  base        \* m_pBuffer of the object that create() runs for

segmentVars == <<segments, named, sized, ready, traffic, mapping, step, fd, base>>

(* A process that died in create(), or later, may have left a segment.      *)
SegmentInit ==
  /\ \E left \in 0 .. 1, s \in BOOLEAN, p \in {{}, {"links"}, Parts} :
       /\ left = 0 \/ ~s => p = {}
       /\ left = 0 => ~s
       /\ segments = left /\ named = left
       /\ sized = [i \in Segments |-> i = left /\ s]
       /\ ready = [i \in Segments |-> IF i = left THEN p ELSE {}]
  /\ traffic = [i \in Segments |-> FALSE]
  /\ mapping = [a \in Addresses |-> 0]
  /\ step = [h \in Handles |-> "done"]
  /\ fd   = [h \in Handles |-> 0]
  /\ base = [h \in Handles |-> Nowhere]

At(h, from) == step[h] = from
Goto(h, to) == step' = [step EXCEPT ![h] = to]
Free == {a \in Addresses : mapping[a] = 0}
-----------------------------------------------------------------------------
(* Slips: actions of this module with one mistake each.  No behaviour uses  *)
(* them; put in an action's place, each must break a property.              *)

OpenAlwaysNew(h) ==   \* a name of its own for each queue object
  /\ At(h, "open")
  /\ segments < MaxSegments
  /\ segments' = segments + 1
  /\ named' = segments + 1 /\ fd' = [fd EXCEPT ![h] = segments + 1]
  /\ Goto(h, "stat")
  /\ UNCHANGED <<sized, ready, traffic, mapping, base>>

LookAtNoSize(h) ==   \* whoever connects initialises
  /\ At(h, "stat")
  /\ Goto(h, "truncate")
  /\ UNCHANGED <<segments, named, sized, ready, traffic, mapping, fd, base>>

MapOldUnchecked(h) ==   \* MAP_FAILED not tested
  /\ At(h, "mapold")
  /\ \/ \E a \in Free : /\ mapping' = [mapping EXCEPT ![a] = fd[h]]
                        /\ base' = [base EXCEPT ![h] = a]
     \/ UNCHANGED <<mapping, base>>
  /\ Goto(h, "created")
  /\ UNCHANGED <<segments, named, sized, ready, traffic, fd>>

RemoveNothing == UNCHANGED segmentVars
-----------------------------------------------------------------------------
(* create() *)

OpenSegment(h) ==   \* O_CREAT: opens the segment of that name or makes one
  /\ At(h, "open")
  /\ \/ /\ named # 0
        /\ fd' = [fd EXCEPT ![h] = named]
        /\ UNCHANGED <<segments, named>>
     \/ /\ named = 0 /\ segments < MaxSegments
        /\ segments' = segments + 1
        /\ named' = segments + 1 /\ fd' = [fd EXCEPT ![h] = segments + 1]
  /\ Goto(h, "stat")
  /\ UNCHANGED <<sized, ready, traffic, mapping, base>>

LookAtSize(h) ==
  /\ At(h, "stat")
  /\ Goto(h, IF sized[fd[h]] THEN "mapold" ELSE "truncate")
  /\ UNCHANGED <<segments, named, sized, ready, traffic, mapping, fd, base>>

Truncate(h) ==
  /\ At(h, "truncate")
  /\ sized' = [sized EXCEPT ![fd[h]] = TRUE]
  /\ Goto(h, "mapnew")
  /\ UNCHANGED <<segments, named, ready, traffic, mapping, fd, base>>

Map(h, from, to) ==
  /\ At(h, from)
  /\ \E a \in Free : /\ mapping' = [mapping EXCEPT ![a] = fd[h]]
                     /\ base' = [base EXCEPT ![h] = a]
  /\ Goto(h, to)
  /\ UNCHANGED <<segments, named, sized, ready, traffic, fd>>

MapNew(h) == Map(h, "mapnew", "zero")
MapOld(h) == Map(h, "mapold", "created")

ZeroBuffer(h) ==   \* new (shmaddr) MemBuff() zeroes all of it
  /\ At(h, "zero")
  /\ ready' = [ready EXCEPT ![fd[h]] = {}]
  /\ traffic' = [traffic EXCEPT ![fd[h]] = FALSE]
  /\ Goto(h, "link")
  /\ UNCHANGED <<segments, named, sized, mapping, fd, base>>

LinkBlocks(h) ==
  /\ At(h, "link")
  /\ ready' = [ready EXCEPT ![fd[h]] = @ \cup {"links"}]
  /\ Goto(h, "events")
  /\ UNCHANGED <<segments, named, sized, traffic, mapping, fd, base>>

(* This branch ends without a return: what the caller compares with -1 is   *)
(* whatever is found where the result should be.                            *)
CreateEvents(h) ==
  /\ At(h, "events")
  /\ ready' = [ready EXCEPT ![fd[h]] = @ \cup {"events"}]
  /\ \E result \in {"created", "failed"} : Goto(h, result)
  /\ UNCHANGED <<segments, named, sized, traffic, mapping, fd, base>>

(* shm_open or mmap gives an error, which mmap does when no address is free. *)
CreateFails(h) ==
  /\ \/ h \in Failing /\ step[h] \in {"open", "mapnew", "mapold"}
     \/ Free = {} /\ step[h] \in {"mapnew", "mapold"}
  /\ Goto(h, "failed")
  /\ UNCHANGED <<segments, named, sized, ready, traffic, mapping, fd, base>>

Create(h) ==
  \/ OpenSegment(h) \/ LookAtSize(h) \/ Truncate(h) \/ MapNew(h)
  \/ ZeroBuffer(h) \/ LinkBlocks(h) \/ CreateEvents(h)
  \/ MapOld(h) \/ CreateFails(h)
-----------------------------------------------------------------------------
(* removeOldQueues: the name is gone, the segment is not.                   *)
RemoveName ==
  /\ named' = 0
  /\ UNCHANGED <<segments, sized, ready, traffic, mapping, step, fd, base>>

(* disconnect(): the pointer keeps its value.                               *)
Unmap(a) == mapping' = IF a = Nowhere THEN mapping ELSE [mapping EXCEPT ![a] = 0]
=============================================================================
