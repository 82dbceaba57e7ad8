---------------------------- MODULE PEventsProofs ----------------------------
(***************************************************************************)
(* Proofs about the Windows-style events of pevents.h, for any threads,     *)
(* events, lists and number of waiters.                                     *)
(*                                                                          *)
(* LocksInv says who holds which mutex, and who refers to which waiter.     *)
(* EventsInv adds what the properties need of the lists of the calls, the   *)
(* registrations, the waiters and the states of the events.  A step is      *)
(* taken apart twice: what it does to one variable (HeldStep, WaitsStep,    *)
(* LocksStep, WaiterMoves, StateStep, ...), and what the other threads see  *)
(* of it (OthersStay, OthersVisit).                                         *)
(***************************************************************************)
EXTENDS PEvents, FiniteSetTheorems, SequenceTheorems, WellFoundedInduction,
        TLAPS

Awake == {"idle", "wake", "asleep", "relock", "dozing", "redoze"}
Labels == HoldsEvent \cup HoldsOwn \cup Awake

Entries == [waiter : Waiters, index : Nat]
Objects == [holder : Threads \cup {NoThread}, refs : Nat, all : BOOLEAN,
            still : BOOLEAN, status : Int]
Calls == [list : Seq(Events), i : Nat \ {0},
          timeout : {"poll", "timed", "forever"}, timedout : BOOLEAN,
          own : SUBSET Waiters, k : Nat \ {0}]
-----------------------------------------------------------------------------
(* Counting registrations. *)

(* The places at which waiter o is registered in the lists W.               *)
PlacesIn(W, o, e) == {k \in DOMAIN W[e] : W[e][k].waiter = o}
Places(W, o) == UNION {{e} \X PlacesIn(W, o, e) : e \in Events}
WaitLists == [Events -> Seq(Entries)]

(* The places of a waiter, one by one.                                      *)
LEMMA PlacesAre ==
  ASSUME NEW W \in WaitLists, NEW o, NEW e \in Events, NEW k
  PROVE  <<e, k>> \in Places(W, o)
           <=> k \in 1 .. Len(W[e]) /\ W[e][k].waiter = o
<1>1. W[e] \in Seq(Entries) BY DEF WaitLists
<1>2. DOMAIN W[e] = 1 .. Len(W[e]) BY <1>1, LenProperties
<1> QED BY <1>2 DEF Places, PlacesIn

(* Places are positions of the list.                                        *)
LEMMA PlacesBelow ==
  ASSUME NEW W \in WaitLists, NEW o, NEW e \in Events
  PROVE  PlacesIn(W, o, e) \subseteq 1 .. Len(W[e])
<1>1. W[e] \in Seq(Entries) BY DEF WaitLists
<1>2. DOMAIN W[e] = 1 .. Len(W[e]) BY <1>1, LenProperties
<1> QED BY <1>2 DEF PlacesIn

(* Every place is an event with a position in its list.                     *)
LEMMA PlacesPairs ==
  ASSUME NEW W \in WaitLists, NEW o, NEW x \in Places(W, o)
  PROVE  \E e \in Events : \E k \in 1 .. Len(W[e]) :
           x = <<e, k>> /\ W[e][k].waiter = o
<1>1. PICK e \in Events : x \in {e} \X PlacesIn(W, o, e) BY DEF Places
<1>2. PICK k \in PlacesIn(W, o, e) : x = <<e, k>> BY <1>1
<1>3. k \in 1 .. Len(W[e]) /\ W[e][k].waiter = o
  BY <1>2, PlacesBelow DEF PlacesIn
<1> QED BY <1>2, <1>3

(* A waiter has finitely many places.                                       *)
LEMMA PlacesFinite ==
  ASSUME NEW W \in WaitLists, NEW o
  PROVE  /\ IsFiniteSet(Places(W, o))
         /\ \A e \in Events : IsFiniteSet(PlacesIn(W, o, e))
<1>1. \A e \in Events : IsFiniteSet(PlacesIn(W, o, e))
  <2> TAKE e \in Events
  <2>1. W[e] \in Seq(Entries) BY DEF WaitLists
  <2>2. Len(W[e]) \in Nat BY <2>1, LenProperties
  <2>3. IsFiniteSet(1 .. Len(W[e])) BY <2>2, FS_Interval
  <2>4. PlacesIn(W, o, e) \in SUBSET (1 .. Len(W[e])) BY PlacesBelow
  <2> QED BY ONLY <2>3, <2>4, FS_Subset
<1> DEFINE part == [e \in Events |-> {e} \X PlacesIn(W, o, e)]
           parts == {part[e] : e \in Events}
<1>2. \A e \in Events : IsFiniteSet(part[e])
  BY <1>1, FS_Product, FS_Singleton
<1>3. part \in Surjection(Events, parts) BY DEF Surjection
<1>4. IsFiniteSet(parts)
  BY <1>3, FS_Surjection, PEventsAssumption DEF PEventsAssumption
<1>5. IsFiniteSet(UNION parts) BY <1>2, <1>4, FS_UNION
<1>6. UNION parts = Places(W, o) BY DEF Places
<1> QED BY <1>1, <1>5, <1>6

NumPlaces(W, o) == Cardinality(Places(W, o))

(* The number of registrations, which is 0 if there is none.                *)
LEMMA CountType ==
  ASSUME NEW W \in WaitLists, NEW o
  PROVE  /\ NumPlaces(W, o) \in Nat
         /\ NumPlaces(W, o) = 0 <=>
              \A e \in Events : \A k \in 1 .. Len(W[e]) : W[e][k].waiter # o
<1>1. IsFiniteSet(Places(W, o)) BY PlacesFinite
<1>2. NumPlaces(W, o) \in Nat /\ (NumPlaces(W, o) = 0 <=> Places(W, o) = {})
  BY <1>1, FS_CardinalityType, FS_EmptySet DEF NumPlaces
<1>3. Places(W, o) = {} <=>
        \A e \in Events : \A k \in 1 .. Len(W[e]) : W[e][k].waiter # o
  <2>1. ASSUME Places(W, o) = {}
        PROVE  \A e \in Events : \A k \in 1 .. Len(W[e]) : W[e][k].waiter # o
    BY <2>1, PlacesAre
  <2>2. ASSUME Places(W, o) # {}
        PROVE  \E e \in Events : \E k \in 1 .. Len(W[e]) : W[e][k].waiter = o
    BY <2>2, PlacesPairs
  <2> QED BY <2>1, <2>2
<1> QED BY <1>2, <1>3

(* The lists with another one for event e.                                  *)
Put(W, e, r) == [W EXCEPT ![e] = r]

(* A registration more.                                                     *)
LEMMA CountAppend ==
  ASSUME NEW W \in WaitLists, NEW e \in Events, NEW x \in Entries, NEW o,
         NEW V, V = Put(W, e, Append(W[e], x))
  PROVE  /\ V \in WaitLists
         /\ NumPlaces(V, o) = NumPlaces(W, o) + (IF x.waiter = o THEN 1 ELSE 0)
<1> DEFINE n == Len(W[e]) + 1
<1>1. W[e] \in Seq(Entries) /\ \A f \in Events : Len(W[f]) \in Nat
  BY LenProperties DEF WaitLists
<1>2. /\ Append(W[e], x) \in Seq(Entries) /\ Len(Append(W[e], x)) = n
      /\ \A i \in 1 .. Len(W[e]) : Append(W[e], x)[i] = W[e][i]
      /\ Append(W[e], x)[n] = x
  BY <1>1, AppendProperties
<1>3. /\ V \in WaitLists /\ V[e] = Append(W[e], x)
      /\ \A f \in Events \ {e} : V[f] = W[f]
  BY <1>2 DEF WaitLists, Put
<1>4. \A f \in Events : \A k : <<f, k>> \in Places(V, o) <=>
        <<f, k>> \in Places(W, o) \/ (f = e /\ k = n /\ x.waiter = o)
  <2> TAKE f \in Events
  <2> TAKE k
  <2>3. <<f, k>> \in Places(V, o) <=> k \in 1 .. Len(V[f]) /\ V[f][k].waiter = o
    BY <1>3, PlacesAre
  <2>4. <<f, k>> \in Places(W, o) <=> k \in 1 .. Len(W[f]) /\ W[f][k].waiter = o
    BY PlacesAre
  <2>1. CASE f # e BY <1>3, <2>1, <2>3, <2>4
  <2>2. CASE f = e
    <3>1. k \in 1 .. n <=> k \in 1 .. Len(W[e]) \/ k = n BY <1>1
    <3>2. n \notin 1 .. Len(W[e]) BY <1>1
    <3> QED BY <1>2, <1>3, <2>2, <2>3, <2>4, <3>1, <3>2
  <2> QED BY <2>1, <2>2
<1>5. <<e, n>> \notin Places(W, o)
  <2>1. n \notin 1 .. Len(W[e]) BY <1>1
  <2> QED BY <2>1, PlacesAre
<1>6. Places(V, o) = Places(W, o) \cup (IF x.waiter = o THEN {<<e, n>>} ELSE {})
  <2>1. ASSUME NEW y \in Places(V, o)
        PROVE  y \in Places(W, o) \cup (IF x.waiter = o THEN {<<e, n>>} ELSE {})
    BY <1>3, <1>4, PlacesPairs
  <2>2. ASSUME NEW y \in Places(W, o) PROVE y \in Places(V, o)
    <3>1. \E f \in Events : \E k \in 1 .. Len(W[f]) : y = <<f, k>>
      BY PlacesPairs
    <3>2. PICK f \in Events : \E k : y = <<f, k>> BY <3>1
    <3>3. PICK k : y = <<f, k>> BY <3>2
    <3> QED BY <1>4, <3>3
  <2>3. x.waiter = o => <<e, n>> \in Places(V, o) BY <1>4
  <2> QED BY <2>1, <2>2, <2>3
<1>7. NumPlaces(V, o) = NumPlaces(W, o) + (IF x.waiter = o THEN 1 ELSE 0)
  <2>1. CASE x.waiter = o
    <3>1. Places(V, o) = Places(W, o) \cup {<<e, n>>} BY <1>6, <2>1
    <3>2. IsFiniteSet(Places(W, o)) BY PlacesFinite
    <3>3. Cardinality(Places(V, o)) = Cardinality(Places(W, o)) + 1
      BY <1>5, <3>1, <3>2, FS_AddElement
    <3> QED BY <2>1, <3>3 DEF NumPlaces
  <2>2. CASE x.waiter # o
    <3>1. Places(V, o) = Places(W, o) BY <1>6, <2>2
    <3>2. NumPlaces(W, o) \in Nat BY CountType
    <3> QED BY <2>2, <3>1, <3>2 DEF NumPlaces
  <2> QED BY <2>1, <2>2
<1> QED BY <1>3, <1>7

(* Sequence s without its element at place k.                               *)
Without(s, k, r) ==
  /\ Len(r) = Len(s) - 1
  /\ \A j \in 1 .. Len(r) : r[j] = IF j < k THEN s[j] ELSE s[j + 1]

(* A registration less: those behind it move up.                            *)
LEMMA CountRemove ==
  ASSUME NEW W \in WaitLists, NEW e \in Events, NEW k \in 1 .. Len(W[e]),
         NEW r \in Seq(Entries), Without(W[e], k, r), NEW o,
         NEW V, V = Put(W, e, r)
  PROVE  /\ V \in WaitLists
         /\ NumPlaces(W, o) =
              NumPlaces(V, o) + (IF W[e][k].waiter = o THEN 1 ELSE 0)
<1> DEFINE old == Places(W, o) \ {<<e, k>>}
           new == Places(V, o)
           up == [y \in new |-> IF y[1] = e /\ y[2] >= k THEN <<e, y[2] + 1>>
                                ELSE y]
<1>1. /\ W[e] \in Seq(Entries) /\ \A f \in Events : Len(W[f]) \in Nat
      /\ Len(r) \in Nat /\ k \in Nat
  BY LenProperties DEF WaitLists
<1>2. /\ V \in WaitLists /\ V[e] = r /\ \A f \in Events \ {e} : V[f] = W[f]
  BY DEF WaitLists, Put
<1>3. \A f \in Events : Len(V[f]) \in Nat BY <1>1, <1>2
<1>0. ASSUME NEW f \in Events, NEW j
      PROVE  /\ <<f, j>> \in Places(V, o) <=>
                  j \in 1 .. Len(V[f]) /\ V[f][j].waiter = o
             /\ <<f, j>> \in Places(W, o) <=>
                  j \in 1 .. Len(W[f]) /\ W[f][j].waiter = o
  <2>1. <<f, j>> \in Places(V, o) <=>
                  j \in 1 .. Len(V[f]) /\ V[f][j].waiter = o
    BY <1>2, PlacesAre
  <2>2. <<f, j>> \in Places(W, o) <=>
                  j \in 1 .. Len(W[f]) /\ W[f][j].waiter = o
    BY PlacesAre
  <2> QED BY <2>1, <2>2
<1>4. ASSUME NEW j
      PROVE  /\ <<e, j>> \in new <=> j \in 1 .. Len(r) /\ r[j].waiter = o
             /\ <<e, j>> \in old <=>
                  j \in 1 .. Len(W[e]) /\ W[e][j].waiter = o /\ j # k
             /\ \A f \in Events \ {e} : <<f, j>> \in new <=> <<f, j>> \in old
  <2>1. <<e, j>> \in new <=> j \in 1 .. Len(r) /\ r[j].waiter = o
    BY <1>0, <1>2
  <2>2. <<e, j>> = <<e, k>> <=> j = k OBVIOUS
  <2>3. <<e, j>> \in old <=>
          j \in 1 .. Len(W[e]) /\ W[e][j].waiter = o /\ j # k
    BY <1>0, <2>2
  <2>4. ASSUME NEW f \in Events \ {e}
        PROVE  <<f, j>> \in new <=> <<f, j>> \in old
    <3>1. V[f] = W[f] /\ <<f, j>> # <<e, k>> BY <1>2
    <3> QED BY <1>0, <3>1
  <2> QED BY <2>1, <2>3, <2>4
<1>5. \A y \in new : \E f \in Events : \E j \in Nat : y = <<f, j>>
  BY <1>2, <1>3, PlacesPairs
<1>6. \A y \in old : \E f \in Events : \E j \in Nat : y = <<f, j>>
  BY <1>1, PlacesPairs
<1> HIDE DEF new, old
<1>7. ASSUME NEW j \in Nat
      PROVE  /\ j < k => (<<e, j>> \in new <=> <<e, j>> \in old)
             /\ j >= k => (<<e, j>> \in new <=> <<e, j + 1>> \in old)
             /\ <<e, k>> \notin old
  <2>1. j + 1 # k \/ j < k BY <1>1
  <2>2. j < k => (j \in 1 .. Len(r) <=> j \in 1 .. Len(W[e]))
    BY <1>1 DEF Without
  <2>3. j >= k => (j \in 1 .. Len(r) <=> j + 1 \in 1 .. Len(W[e]))
    BY <1>1 DEF Without
  <2>4. j \in 1 .. Len(r) => r[j] = IF j < k THEN W[e][j] ELSE W[e][j + 1]
    BY DEF Without
  <2>5. <<e, k>> \notin old BY <1>4
  <2>6. j < k => (<<e, j>> \in new <=> <<e, j>> \in old)
    BY <1>1, <1>4, <2>2, <2>4
  <2>7. j >= k => (<<e, j>> \in new <=> <<e, j + 1>> \in old)
    BY <1>1, <1>4, <2>3, <2>4
  <2> QED BY <2>5, <2>6, <2>7
<1>8. up \in [new -> old]
  <2> SUFFICES ASSUME NEW y \in new PROVE up[y] \in old OBVIOUS
  <2>1. PICK f \in Events, j \in Nat : y = <<f, j>> BY <1>5
  <2>2. CASE f # e BY <1>4, <2>1, <2>2
  <2>3. CASE f = e /\ j < k
    <3>1. up[y] = <<e, j>> BY <1>1, <2>1, <2>3
    <3> QED BY <1>7, <2>1, <2>3, <3>1
  <2>4. CASE f = e /\ j >= k
    <3>1. up[y] = <<e, j + 1>> BY <1>1, <2>1, <2>4
    <3> QED BY <1>7, <2>1, <2>4, <3>1
  <2> QED BY <1>1, <2>2, <2>3, <2>4
<1>9. ASSUME NEW y \in new, NEW z \in new, up[y] = up[z] PROVE y = z
  <2>1. PICK f \in Events, j \in Nat : y = <<f, j>> BY <1>5
  <2>2. PICK g \in Events, i \in Nat : z = <<g, i>> BY <1>5
  <2>3. up[y] = <<f, IF f = e /\ j >= k THEN j + 1 ELSE j>> BY <2>1
  <2>4. up[z] = <<g, IF g = e /\ i >= k THEN i + 1 ELSE i>> BY <2>2
  <2>5. f = g /\ (IF f = e /\ j >= k THEN j + 1 ELSE j)
                   = (IF g = e /\ i >= k THEN i + 1 ELSE i)
    BY <1>9, <2>3, <2>4
  <2> QED BY <1>1, <2>1, <2>2, <2>5
<1>10. ASSUME NEW z \in old PROVE \E y \in new : up[y] = z
  <2>1. PICK f \in Events, j \in Nat : z = <<f, j>> BY <1>6
  <2>2. CASE f # e
    <3>1. z \in new /\ up[z] = z BY <1>4, <2>1, <2>2
    <3> QED BY <3>1
  <2>3. CASE f = e /\ j < k
    <3>1. z \in new BY <1>7, <2>1, <2>3
    <3>2. up[z] = z BY <1>1, <2>1, <2>3, <3>1
    <3> QED BY <3>1, <3>2
  <2>4. CASE f = e /\ j > k
    <3>1. j - 1 \in Nat /\ j - 1 >= k /\ (j - 1) + 1 = j BY <1>1, <2>4
    <3>2. <<e, j - 1>> \in new BY <1>7, <2>1, <2>4, <3>1
    <3>3. up[<<e, j - 1>>] = z BY <2>1, <2>4, <3>1, <3>2
    <3> QED BY <3>2, <3>3
  <2>5. ~(f = e /\ j = k) BY <1>7, <2>1
  <2> QED BY <1>1, <2>2, <2>3, <2>4, <2>5
<1>11. IsFiniteSet(new) /\ IsFiniteSet(Places(W, o))
  BY <1>2, PlacesFinite DEF new
<1>12. Cardinality(old) = Cardinality(new)
  <2> HIDE DEF up
  <2>0. up \in Injection(new, old) BY <1>8, <1>9 DEF Injection, IsInjective
  <2>3. up \in Surjection(new, old) BY <1>8, <1>10 DEF Surjection
  <2>1. up \in Bijection(new, old) BY <2>0, <2>3 DEF Bijection
  <2>2. ExistsBijection(new, old) BY <2>1 DEF ExistsBijection
  <2> QED BY <1>11, <2>2, FS_Bijection
<1>13. NumPlaces(W, o) \in Nat /\ NumPlaces(V, o) \in Nat BY <1>2, CountType
<1>14. <<e, k>> \in Places(W, o) <=> W[e][k].waiter = o BY <1>0
<1>15. Cardinality(old) =
         IF W[e][k].waiter = o THEN NumPlaces(W, o) - 1 ELSE NumPlaces(W, o)
  BY <1>11, <1>14, FS_RemoveElement DEF old, NumPlaces
<1>16. NumPlaces(W, o) = NumPlaces(V, o) + (IF W[e][k].waiter = o THEN 1 ELSE 0)
  BY <1>12, <1>13, <1>15 DEF new, NumPlaces
<1> QED BY <1>2, <1>16

(* All registrations of an event less.                                      *)
LEMMA CountClear ==
  ASSUME NEW W \in WaitLists, NEW e \in Events, NEW o,
         NEW V, V = Put(W, e, <<>>)
  PROVE  /\ V \in WaitLists
         /\ Cardinality(PlacesIn(W, o, e)) \in Nat
         /\ NumPlaces(W, o) = NumPlaces(V, o) + Cardinality(PlacesIn(W, o, e))
<1> DEFINE gone == {e} \X PlacesIn(W, o, e)
<1>1. V \in WaitLists /\ V[e] = <<>> /\ \A f \in Events \ {e} : V[f] = W[f]
  BY DEF WaitLists, Put
<1>0. V \in WaitLists BY <1>1
<1>2. Len(V[e]) = 0 BY <1>1
<1>3. IsFiniteSet(PlacesIn(W, o, e)) BY PlacesFinite
<1>4. /\ IsFiniteSet(gone) /\ Cardinality(PlacesIn(W, o, e)) \in Nat
      /\ Cardinality(gone) = Cardinality(PlacesIn(W, o, e))
  <2>1. /\ IsFiniteSet({e} \X PlacesIn(W, o, e))
        /\ Cardinality({e} \X PlacesIn(W, o, e))
             = Cardinality({e}) * Cardinality(PlacesIn(W, o, e))
    BY <1>3, FS_Product, FS_Singleton
  <2>2. Cardinality({e}) = 1 /\ Cardinality(PlacesIn(W, o, e)) \in Nat
    BY <1>3, FS_Singleton, FS_CardinalityType
  <2> QED BY <2>1, <2>2
<1>5. ASSUME NEW f \in Events, NEW j
      PROVE  /\ f # e =>
                  (<<f, j>> \in Places(V, o) <=> <<f, j>> \in Places(W, o))
             /\ <<e, j>> \notin Places(V, o)
  <2>1. <<f, j>> \in Places(V, o) <=>
                  j \in 1 .. Len(V[f]) /\ V[f][j].waiter = o
    BY <1>0, PlacesAre
  <2>2. <<f, j>> \in Places(W, o) <=>
                  j \in 1 .. Len(W[f]) /\ W[f][j].waiter = o
    BY PlacesAre
  <2>3. <<e, j>> \in Places(V, o) => j \in 1 .. Len(V[e])
    BY <1>1, PlacesAre
  <2>4. j \notin 1 .. 0 OBVIOUS
  <2> QED BY <1>1, <1>2, <2>1, <2>2, <2>3, <2>4
<1>6. \A j : <<e, j>> \in Places(W, o) <=> <<e, j>> \in gone
  BY PlacesAre DEF Places
<1>7. \A y \in Places(W, o) \cup Places(V, o) \cup gone :
        \E f \in Events : \E j : y = <<f, j>> /\ (y \in gone => f = e)
  <2>1. \A y \in Places(W, o) : \E f \in Events : \E j : y = <<f, j>>
    BY PlacesPairs
  <2>2. \A y \in Places(V, o) : \E f \in Events : \E j : y = <<f, j>>
    BY <1>1, PlacesPairs
  <2>3. \A y \in gone : \E j : y = <<e, j>> OBVIOUS
  <2> QED BY <2>1, <2>2, <2>3
<1> HIDE DEF gone
<1>8. \A y \in gone : \E j : y = <<e, j>> BY <1>7
<1>9. Places(W, o) = Places(V, o) \cup gone
  <2>1. ASSUME NEW y \in Places(W, o) PROVE y \in Places(V, o) \cup gone
    <3>1. PICK f \in Events : \E j : y = <<f, j>> BY <1>7
    <3>2. PICK j : y = <<f, j>> BY <3>1
    <3> QED BY <1>5, <1>6, <3>2
  <2>2. ASSUME NEW y \in Places(V, o) PROVE y \in Places(W, o)
    <3>1. PICK f \in Events : \E j : y = <<f, j>> BY <1>7
    <3>2. PICK j : y = <<f, j>> BY <3>1
    <3> QED BY <1>5, <3>2
  <2>3. ASSUME NEW y \in gone PROVE y \in Places(W, o)
    BY <1>6, <1>8
  <2> QED BY <2>1, <2>2, <2>3
<1>10. Places(V, o) \cap gone = {}
  BY <1>5, <1>8
<1>11. IsFiniteSet(Places(V, o)) BY <1>1, PlacesFinite
<1>12. NumPlaces(V, o) \in Nat BY <1>1, CountType
<1>13. NumPlaces(W, o) = NumPlaces(V, o) + Cardinality(gone)
  <2>1. Cardinality(Places(V, o) \cup gone) =
          Cardinality(Places(V, o)) + Cardinality(gone) - Cardinality({})
    BY <1>4, <1>10, <1>11, FS_Union
  <2> QED BY <1>4, <1>9, <1>12, <2>1, FS_EmptySet DEF NumPlaces
<1> QED BY <1>1, <1>4, <1>13

USE PEventsAssumption DEF PEventsAssumption

(* SetEvent drops the first registration of a list.                         *)
LEMMA TailWithout ==
  ASSUME NEW s \in Seq(Entries), s # <<>>
  PROVE  /\ Tail(s) \in Seq(Entries) /\ Without(s, 1, Tail(s))
         /\ Head(s) = s[1] /\ 1 \in 1 .. Len(s)
<1>1. /\ Tail(s) \in Seq(Entries) /\ Len(Tail(s)) = Len(s) - 1
      /\ \A i \in 1 .. Len(Tail(s)) : Tail(s)[i] = s[i + 1]
  BY HeadTailProperties
<1>2. Len(s) \in Nat \ {0} BY EmptySeq
<1>3. Head(s) = s[1] OBVIOUS
<1> QED BY <1>1, <1>2, <1>3 DEF Without

(* RemoveExpiredWaitHelper drops the registration at place k.               *)
LEMMA CutWithout ==
  ASSUME NEW s \in Seq(Entries), NEW k \in 1 .. Len(s)
  PROVE  LET r == SubSeq(s, 1, k - 1) \o SubSeq(s, k + 1, Len(s))
         IN  r \in Seq(Entries) /\ Without(s, k, r)
<1> DEFINE a == SubSeq(s, 1, k - 1)
           b == SubSeq(s, k + 1, Len(s))
<1>1. Len(s) \in Nat /\ \A i \in 1 .. Len(s) : s[i] \in Entries
  BY LenProperties, ElementOfSeq
<1>2. /\ a \in Seq(Entries) /\ Len(a) = k - 1
      /\ \A i \in 1 .. k - 1 : a[i] = s[i]
  <2>1. 1 \in Int /\ k - 1 \in Int /\ \A i \in 1 .. k - 1 : s[i] \in Entries
    BY <1>1
  <2>2. /\ a \in Seq(Entries)
        /\ Len(a) = IF 1 <= k - 1 THEN (k - 1) - 1 + 1 ELSE 0
        /\ \A i \in 1 .. (k - 1) - 1 + 1 : a[i] = s[1 + i - 1]
    BY <2>1, SubSeqProperties
  <2> QED BY <2>2, <1>1
<1>3. /\ b \in Seq(Entries) /\ Len(b) = Len(s) - k
      /\ \A i \in 1 .. Len(s) - k : b[i] = s[k + i]
  <2>1. k + 1 \in Int /\ Len(s) \in Int
        /\ \A i \in k + 1 .. Len(s) : s[i] \in Entries
    BY <1>1
  <2>2. /\ b \in Seq(Entries)
        /\ Len(b) = IF k + 1 <= Len(s) THEN Len(s) - (k + 1) + 1 ELSE 0
        /\ \A i \in 1 .. Len(s) - (k + 1) + 1 : b[i] = s[(k + 1) + i - 1]
    BY <2>1, SubSeqProperties
  <2> QED BY <2>2, <1>1
<1> HIDE DEF a, b
<1>4. /\ a \o b \in Seq(Entries) /\ Len(a \o b) = Len(a) + Len(b)
      /\ \A i \in 1 .. Len(a) + Len(b) :
           (a \o b)[i] = IF i <= Len(a) THEN a[i] ELSE b[i - Len(a)]
  BY <1>2, <1>3, ConcatProperties
<1>5. ASSUME NEW j \in 1 .. Len(s) - 1
      PROVE  (a \o b)[j] = IF j < k THEN s[j] ELSE s[j + 1]
  <2>0. (a \o b)[j] = IF j <= k - 1 THEN a[j] ELSE b[j - (k - 1)]
    BY <1>1, <1>2, <1>3, <1>4
  <2>1. CASE j < k
    <3>1. j \in 1 .. k - 1 /\ j <= k - 1 BY <1>1, <2>1
    <3> QED BY <2>0, <2>1, <3>1, <1>2
  <2>2. CASE ~(j < k)
    <3>1. /\ j - (k - 1) \in 1 .. Len(s) - k /\ k + (j - (k - 1)) = j + 1
          /\ ~(j <= k - 1)
      BY <1>1, <2>2
    <3>2. b[j - (k - 1)] = s[j + 1] BY <1>3, <3>1
    <3> QED BY <2>0, <2>2, <3>1, <3>2
  <2> QED BY <2>1, <2>2
<1>6. Len(a \o b) = Len(s) - 1 BY <1>1, <1>2, <1>3, <1>4
<1>7. Without(s, k, a \o b) BY <1>1, <1>5, <1>6 DEF Without
<1> QED BY <1>4, <1>7 DEF a, b
-----------------------------------------------------------------------------
(* The invariant. *)

TypesOK ==
  /\ created \subseteq Events /\ state \in [Events -> BOOLEAN]
  /\ held \in [Events -> Threads \cup {NoThread}]
  /\ waits \in WaitLists
  /\ live \subseteq Waiters /\ waiter \in [Waiters -> Objects]
  /\ pc \in [Threads -> Labels] /\ call \in [Threads -> Calls]
  /\ leaked \in [Waiters -> Nat]

Single(t) == \E o \in Waiters : call[t].own = {o}

(* What a call is at each label.                                            *)
Calling(t) ==
  /\ IF pc[t] = "idle" THEN call[t] = NoCall
     ELSE call[t].i \in 1 .. Len(call[t].list)
  /\ pc[t] \in {"visit", "wake", "test", "asleep", "relock"}
       => call[t].own = {}
  /\ pc[t] \in {"hand", "signal", "reg", "loop", "finish", "dozing", "redoze"}
       => Single(t)
  /\ pc[t] \in {"scan", "drop"}
       => /\ call[t].own = {} \/ Single(t)
          /\ call[t].k \in 1 .. Len(waits[Ev(t)]) + 1
  /\ pc[t] = "hand" => /\ waits[Ev(t)] # <<>>
                       /\ call[t].own = {Head(waits[Ev(t)]).waiter}
  /\ pc[t] = "drop" => /\ call[t].k <= Len(waits[Ev(t)])
                       /\ Entry(t) \notin call[t].own
  /\ pc[t] \in {"visit", "hand", "signal", "wake", "asleep"}
       => ~call[t].timedout

HeldOK == \A e \in Events, t \in Threads :
            held[e] = t <=> pc[t] \in HoldsEvent /\ Ev(t) = e
LocksOK == \A o \in Waiters, t \in Threads :
             waiter[o].holder = t <=> o \in Holding(t)
OwnersOK == \A o \in Waiters, t, u \in Threads :
              Owner(o, t) /\ Owner(o, u) => t = u
UnusedOK == \A o \in Waiters \ live : waiter[o] = Blank
Owned(o) == IF \E t \in Threads : Owner(o, t) THEN 1 ELSE 0
RefsOK == \A o \in Waiters :
            waiter[o].refs = NumPlaces(waits, o) + leaked[o] + Owned(o)

LocksInv == /\ TypesOK /\ \A t \in Threads : Calling(t)
        /\ HeldOK /\ LocksOK /\ OwnersOK /\ UnusedOK /\ RefsOK

(* All steps of a thread.                                                   *)
Step(t) ==
  \/ t \in Setters /\ SetterStep(t)
  \/ t \in Singles /\ \E e \in Events : WaitForEvent(t, e)
  \/ t \in Multis /\ (WaitForMultipleEvents(t) \/ MultiStep(t))
  \/ Delete(t)
  \/ \E e \in Events : CreateEvent(t, e) \/ DestroyEvent(t, e)
  \/ WaitStep(t) \/ ScanStep(t)

(* Every step is one of a thread.                                           *)
LEMMA NextIsStep == ASSUME Next PROVE \E t \in Threads : Step(t)
BY DEF Next, Step, Threads

(* RefsOK counts what RefsCounted counts.                                   *)
LEMMA RefsAreCounted == ASSUME LocksInv PROVE RefsCounted
<1> SUFFICES ASSUME NEW o \in Waiters
             PROVE  waiter[o].refs = Count(o) + leaked[o]
                      + Cardinality({t \in Threads : Owner(o, t)})
  BY DEF RefsCounted
<1>1. Count(o) = NumPlaces(waits, o)
  BY DEF Count, NumPlaces, Places, PlacesIn, Registrations
<1>2. Cardinality({t \in Threads : Owner(o, t)}) = Owned(o)
  <2>1. CASE \E t \in Threads : Owner(o, t)
    <3>1. PICK t \in Threads : Owner(o, t) BY <2>1
    <3>2. {u \in Threads : Owner(o, u)} = {t} BY <3>1 DEF LocksInv, OwnersOK
    <3> QED BY <2>1, <3>2, FS_Singleton DEF Owned
  <2>2. CASE ~\E t \in Threads : Owner(o, t)
    <3>1. {u \in Threads : Owner(o, u)} = {} BY <2>2
    <3> QED BY <2>2, <3>1, FS_EmptySet DEF Owned
  <2> QED BY <2>1, <2>2
<1> QED BY <1>1, <1>2 DEF LocksInv, RefsOK

(* What is registered or owned exists.                                      *)
LEMMA Alive ==
  ASSUME LocksInv, NEW o \in Waiters
  PROVE  /\ (\E e \in Events : \E k \in 1 .. Len(waits[e]) :
               waits[e][k].waiter = o) => waiter[o].refs > 0 /\ o \in live
         /\ (\E t \in Threads : Owner(o, t)) => waiter[o].refs > 0 /\ o \in live
<1>1. /\ NumPlaces(waits, o) \in Nat
      /\ NumPlaces(waits, o) = 0 <=>
           \A e \in Events : \A k \in 1 .. Len(waits[e]) :
             waits[e][k].waiter # o
  BY CountType DEF LocksInv, TypesOK
<1>2. /\ waiter[o].refs = NumPlaces(waits, o) + leaked[o] + Owned(o)
      /\ leaked[o] \in Nat /\ Owned(o) \in {0, 1}
  BY DEF LocksInv, RefsOK, TypesOK, Owned
<1>3. o \notin live => waiter[o].refs = 0 BY DEF LocksInv, UnusedOK, Blank
<1>4. (\E t \in Threads : Owner(o, t)) => Owned(o) = 1 BY DEF Owned
<1> QED BY <1>1, <1>2, <1>3, <1>4

(* The waiter in hand.                                                      *)
LEMMA OwnIs ==
  ASSUME LocksInv, NEW t \in Threads, Single(t)
  PROVE  Own(t) \in Waiters /\ call[t].own = {Own(t)}
BY DEF Single, Own

-----------------------------------------------------------------------------
(* What the parts of a step do to the waiters.                              *)

(* A waiter that is unlocked.                                               *)
LEMMA ReleaseIs ==
  ASSUME waiter \in [Waiters -> Objects], NEW o \in Waiters,
         NEW w \in Objects, Release(o, w)
  PROVE  /\ waiter' \in [Waiters -> Objects]
         /\ \A p \in Waiters \ {o} : waiter'[p] = waiter[p]
         /\ waiter'[o].holder = NoThread /\ waiter'[o].refs = w.refs
         /\ IF w.refs = 0 THEN waiter'[o] = Blank /\ live' = live \ {o}
            ELSE /\ live' = live /\ waiter'[o].all = w.all
                 /\ waiter'[o].still = w.still /\ waiter'[o].status = w.status
<1>1. Blank \in Objects /\ Blank.refs = 0 /\ Blank.holder = NoThread
  BY DEF Blank, Objects
<1>2. /\ [w EXCEPT !.holder = NoThread] \in Objects
      /\ [w EXCEPT !.holder = NoThread].holder = NoThread
      /\ [w EXCEPT !.holder = NoThread].refs = w.refs
      /\ [w EXCEPT !.holder = NoThread].all = w.all
      /\ [w EXCEPT !.holder = NoThread].still = w.still
      /\ [w EXCEPT !.holder = NoThread].status = w.status
  BY DEF Objects
<1>3. CASE w.refs = 0 BY <1>1, <1>3 DEF Release
<1>4. CASE w.refs # 0 BY <1>2, <1>4 DEF Release
<1> QED BY <1>3, <1>4

(* Locking a waiter changes who holds it, and nothing else.                 *)
LEMMA AcquireIs ==
  ASSUME waiter \in [Waiters -> Objects], NEW o \in Waiters,
         NEW t \in Threads, Acquire(o, t)
  PROVE  /\ waiter' \in [Waiters -> Objects]
         /\ \A p \in Waiters \ {o} : waiter'[p] = waiter[p]
         /\ waiter[o].holder = NoThread /\ waiter'[o].holder = t
         /\ waiter'[o].refs = waiter[o].refs
         /\ waiter'[o].all = waiter[o].all
         /\ waiter'[o].still = waiter[o].still
         /\ waiter'[o].status = waiter[o].status
<1>1. /\ [waiter[o] EXCEPT !.holder = t] \in Objects
      /\ [waiter[o] EXCEPT !.holder = t].holder = t
      /\ [waiter[o] EXCEPT !.holder = t].refs = waiter[o].refs
      /\ [waiter[o] EXCEPT !.holder = t].all = waiter[o].all
      /\ [waiter[o] EXCEPT !.holder = t].still = waiter[o].still
      /\ [waiter[o] EXCEPT !.holder = t].status = waiter[o].status
  BY DEF Objects
<1> QED BY <1>1 DEF Acquire

(* Firing a waiter changes its status, and nothing else.                    *)
LEMMA FiredIs ==
  ASSUME NEW w \in Objects, NEW i \in Int
  PROVE  /\ Fired(w, i) \in Objects /\ Fired(w, i).refs = w.refs
         /\ Fired(w, i).holder = w.holder /\ Fired(w, i).all = w.all
         /\ Fired(w, i).still = w.still
         /\ Fired(w, i).status = IF w.all THEN w.status - 1 ELSE i
BY DEF Fired, Objects

(* What a thread does to the waiter it has locked.                          *)
LEMMA LessRefs ==
  ASSUME NEW w \in Objects, w.refs > 0, NEW s \in BOOLEAN
  PROVE  /\ [w EXCEPT !.refs = @ - 1] \in Objects
         /\ [w EXCEPT !.refs = @ - 1].refs = w.refs - 1
         /\ [w EXCEPT !.refs = @ - 1].all = w.all
         /\ [w EXCEPT !.refs = @ - 1].still = w.still
         /\ [w EXCEPT !.refs = @ - 1].status = w.status
         /\ [w EXCEPT !.refs = @ - 1, !.still = s] \in Objects
         /\ [w EXCEPT !.refs = @ - 1, !.still = s].refs = w.refs - 1
         /\ [w EXCEPT !.refs = @ - 1, !.still = s].all = w.all
         /\ [w EXCEPT !.refs = @ - 1, !.still = s].still = s
         /\ [w EXCEPT !.refs = @ - 1, !.still = s].status = w.status
<1>1. w.refs - 1 \in Nat BY DEF Objects
<1> QED BY <1>1 DEF Objects

(* The event in hand, the waiter at the head of its list and in the scan.   *)
LEMMA HandIs ==
  ASSUME LocksInv, NEW t \in Threads
  PROVE  /\ pc[t] # "idle" => Ev(t) \in Events
         /\ pc[t] \in {"hand", "visit"} /\ waits[Ev(t)] # <<>>
              => /\ Head(waits[Ev(t)]) \in Entries
                 /\ Head(waits[Ev(t)]).waiter \in Waiters
                 /\ Head(waits[Ev(t)]).waiter \in live
                 /\ waiter[Head(waits[Ev(t)]).waiter].refs > 0
         /\ pc[t] \in {"scan", "drop"} /\ call[t].k <= Len(waits[Ev(t)])
              => /\ call[t].k \in 1 .. Len(waits[Ev(t)])
                 /\ Entry(t) \in Waiters /\ Entry(t) \in live
                 /\ waiter[Entry(t)].refs > 0
<1>1. Calling(t) /\ call[t] \in Calls BY DEF LocksInv, TypesOK
<1>2. pc[t] # "idle" => Ev(t) \in Events
  <2> SUFFICES ASSUME pc[t] # "idle" PROVE Ev(t) \in Events OBVIOUS
  <2>1. call[t].list \in Seq(Events) BY <1>1 DEF Calls
  <2>2. call[t].i \in 1 .. Len(call[t].list) BY <1>1 DEF Calling
  <2> QED BY <2>1, <2>2, ElementOfSeq DEF Ev
<1>3. pc[t] # "idle" => waits[Ev(t)] \in Seq(Entries)
  BY <1>2 DEF LocksInv, TypesOK, WaitLists
<1>4. ASSUME pc[t] \in {"hand", "visit"}, waits[Ev(t)] # <<>>
      PROVE  /\ Head(waits[Ev(t)]) \in Entries
             /\ Head(waits[Ev(t)]).waiter \in Waiters
             /\ Head(waits[Ev(t)]).waiter \in live
             /\ waiter[Head(waits[Ev(t)]).waiter].refs > 0
  <2>1. /\ Head(waits[Ev(t)]) = waits[Ev(t)][1]
        /\ 1 \in 1 .. Len(waits[Ev(t)])
    BY <1>3, <1>4, TailWithout
  <2>2. waits[Ev(t)][1] \in Entries BY <1>3, <1>4, <2>1, ElementOfSeq
  <2>3. waits[Ev(t)][1].waiter \in Waiters BY <2>2 DEF Entries
  <2>4. \E e \in Events : \E k \in 1 .. Len(waits[e]) :
          waits[e][k].waiter = waits[Ev(t)][1].waiter
    BY <1>2, <1>4, <2>1
  <2> QED BY <2>1, <2>2, <2>3, <2>4, Alive
<1>5. ASSUME pc[t] \in {"scan", "drop"}, call[t].k <= Len(waits[Ev(t)])
      PROVE  /\ call[t].k \in 1 .. Len(waits[Ev(t)])
             /\ Entry(t) \in Waiters /\ Entry(t) \in live
             /\ waiter[Entry(t)].refs > 0
  <2>1. call[t].k \in 1 .. Len(waits[Ev(t)]) + 1 BY <1>1, <1>5 DEF Calling
  <2>2. Len(waits[Ev(t)]) \in Nat BY <1>3, <1>5, LenProperties
  <2>3. call[t].k \in 1 .. Len(waits[Ev(t)]) BY <1>5, <2>1, <2>2
  <2>4. waits[Ev(t)][call[t].k] \in Entries BY <1>3, <1>5, <2>3, ElementOfSeq
  <2>5. Entry(t) \in Waiters BY <2>4 DEF Entries, Entry
  <2>6. \E e \in Events : \E k \in 1 .. Len(waits[e]) :
          waits[e][k].waiter = Entry(t)
    BY <1>2, <1>5, <2>3 DEF Entry
  <2> QED BY <2>3, <2>5, <2>6, Alive
<1> QED BY <1>2, <1>4, <1>5

-----------------------------------------------------------------------------
(* The mutexes of the events.                                               *)

(* Taking an event leaves every event set or not set.                       *)
LEMMA TakenIs ==
  ASSUME state \in [Events -> BOOLEAN], NEW e \in Events
  PROVE  Taken(e) \in [Events -> BOOLEAN]
BY DEF Taken

(* A call that begins with event e.                                         *)
LEMMA EnterIs ==
  ASSUME LocksInv, NEW t \in Threads, NEW e \in Events, NEW timeout, NEW label,
         Enter(t, e, timeout, label)
  PROVE  /\ held' = [held EXCEPT ![e] = t] /\ held[e] = NoThread
         /\ call'[t].list = <<e>> /\ call'[t].i = 1 /\ call'[t].k = 1
         /\ call'[t].own = {} /\ ~call'[t].timedout
         /\ call[t] = NoCall /\ pc[t] = "idle" /\ call[t].own = {}
         /\ Ev(t)' = e /\ pc'[t] = label
<1>0. pc \in [Threads -> Labels] /\ call \in [Threads -> Calls]
  BY DEF LocksInv, TypesOK
<1>1. call[t] = NoCall BY DEF Enter, LocksInv, Calling
<1>2. call' = [call EXCEPT ![t] = [NoCall EXCEPT !.list = <<e>>,
                                                 !.timeout = timeout]]
  BY <1>0, <1>1 DEF Enter
<1>3. /\ call'[t].list = <<e>> /\ call'[t].i = 1 /\ call'[t].k = 1
      /\ call'[t].own = {} /\ ~call'[t].timedout
  BY <1>0, <1>2 DEF NoCall
<1>4. Ev(t)' = e BY <1>3 DEF Ev
<1>5. held' = [held EXCEPT ![e] = t] /\ held[e] = NoThread BY DEF Enter, Lock
<1>6. pc[t] = "idle" /\ pc'[t] = label BY <1>0 DEF Enter, Goto
<1>7. call[t].own = {} BY <1>1 DEF NoCall
<1> QED BY <1>1, <1>3, <1>4, <1>5, <1>6, <1>7

(* A call of WaitForMultipleEvents begins with a new waiter.                *)
Begins(t, list, all, timeout, o) ==
  /\ \A i \in DOMAIN list : list[i] \in created
  /\ live' = live \cup {o}
  /\ waiter' = [waiter EXCEPT ![o] =
       [holder |-> t, refs |-> 1, all |-> all, still |-> TRUE,
        status |-> IF all THEN Len(list) ELSE -1]]
  /\ call' = [call EXCEPT ![t] = [NoCall EXCEPT !.list = list,
                                    !.timeout = timeout, !.own = {o}]]

(* What a call of WaitForMultipleEvents starts with.                        *)
LEMMA BeginIs ==
  ASSUME LocksInv, NEW t \in Threads, WaitForMultipleEvents(t)
  PROVE  \E list \in Lists, all \in BOOLEAN, o \in Waiters \ live :
           /\ \A i \in 1 .. Len(list) : list[i] \in created
           /\ list \in Seq(Events) /\ Len(list) \in Nat /\ list # <<>>
           /\ live' = live \cup {o} /\ waiter' \in [Waiters -> Objects]
           /\ \A p \in Waiters \ {o} : waiter'[p] = waiter[p]
           /\ waiter'[o] = [holder |-> t, refs |-> 1, all |-> all,
                            still |-> TRUE,
                            status |-> IF all THEN Len(list) ELSE -1]
           /\ call'[t].list = list /\ call'[t].i = 1 /\ call'[t].k = 1
           /\ call'[t].own = {o} /\ ~call'[t].timedout
           /\ call' \in [Threads -> Calls]
<1>0. /\ waiter \in [Waiters -> Objects] /\ call \in [Threads -> Calls]
  BY DEF LocksInv, TypesOK
<1>1. \E list \in Lists, all \in Modes, timeout \in Timeouts,
         o \in Waiters \ live : Begins(t, list, all, timeout, o)
  BY Zenon DEF WaitForMultipleEvents, Begins
<1>2. PICK list \in Lists, all \in Modes, timeout \in Timeouts,
           o \in Waiters \ live : Begins(t, list, all, timeout, o)
  BY <1>1
<1>3. list \in Seq(Events) /\ list # <<>> /\ all \in BOOLEAN
      /\ timeout \in {"poll", "timed", "forever"}
  BY PEventsAssumption DEF PEventsAssumption
<1>4. Len(list) \in Nat /\ DOMAIN list = 1 .. Len(list)
  BY <1>3, LenProperties
<1> DEFINE w == [holder |-> t, refs |-> 1, all |-> all, still |-> TRUE,
                 status |-> IF all THEN Len(list) ELSE -1]
           c == [NoCall EXCEPT !.list = list, !.timeout = timeout, !.own = {o}]
<1>5. w \in Objects BY <1>3, <1>4 DEF Objects
<1>6. /\ c \in Calls /\ c.list = list /\ c.i = 1 /\ c.k = 1 /\ c.own = {o}
      /\ ~c.timedout
  <2>1. /\ NoCall \in Calls /\ NoCall.i = 1 /\ NoCall.k = 1
        /\ ~NoCall.timedout
    BY DEF NoCall, Calls
  <2>2. {o} \in SUBSET Waiters OBVIOUS
  <2>3. c.list = list /\ c.own = {o} /\ c.i = NoCall.i /\ c.k = NoCall.k
        /\ c.timedout = NoCall.timedout
    BY <2>1 DEF Calls
  <2>4. c \in Calls BY <1>3, <2>1, <2>2 DEF Calls
  <2> QED BY <2>1, <2>3, <2>4
<1>7. /\ waiter' = [waiter EXCEPT ![o] = w] /\ call' = [call EXCEPT ![t] = c]
      /\ live' = live \cup {o} /\ \A i \in 1 .. Len(list) : list[i] \in created
  BY <1>2, <1>4 DEF Begins
<1> HIDE DEF c
<1>8. /\ waiter' \in [Waiters -> Objects] /\ waiter'[o] = w
      /\ \A p \in Waiters \ {o} : waiter'[p] = waiter[p]
  BY <1>0, <1>5, <1>7
<1>9. call'[t] = c /\ call' \in [Threads -> Calls] BY <1>0, <1>6, <1>7
<1> QED BY <1>3, <1>4, <1>6, <1>7, <1>8, <1>9

HeldMoved(t) ==
  /\ held' \in [Events -> Threads \cup {NoThread}]
  /\ \A e \in Events, u \in Threads \ {t} : held'[e] = u <=> held[e] = u
  /\ \A e \in Events : held'[e] = t <=> pc'[t] \in HoldsEvent /\ Ev(t)' = e

(* What a step does to the mutexes of the events.                           *)
LEMMA HeldStep ==
  ASSUME LocksInv, NEW t \in Threads, Step(t)
  PROVE  HeldMoved(t)
<1>0. /\ call[t] \in Calls /\ Calling(t) /\ t # NoThread
      /\ pc[t] # "idle" => Ev(t) \in Events
      /\ \A e \in Events : held[e] = t <=> pc[t] \in HoldsEvent /\ Ev(t) = e
      /\ held \in [Events -> Threads \cup {NoThread}]
      /\ pc \in [Threads -> Labels] /\ call \in [Threads -> Calls]
  BY HandIs DEF LocksInv, TypesOK, HeldOK
<1>1. ASSUME NEW e \in Events, NEW label, NEW timeout,
             Enter(t, e, timeout, label), label \in {"visit", "test", "scan"}
      PROVE  HeldMoved(t)
  <2>1. held' = [held EXCEPT ![e] = t] /\ held[e] = NoThread
    BY <1>1, EnterIs
  <2>2. Ev(t)' = e BY <1>1, EnterIs
  <2>3. pc'[t] = label BY <1>1, EnterIs
  <2>4. pc[t] = "idle" BY <1>1, EnterIs
  <2> QED BY <1>0, <1>1, <2>1, <2>2, <2>3, <2>4 DEF HeldMoved, HoldsEvent
<1>2. ASSUME held' = held, Ev(t)' = Ev(t),
             pc'[t] \in HoldsEvent <=> pc[t] \in HoldsEvent
      PROVE  HeldMoved(t)
  BY <1>0, <1>2 DEF HeldMoved
<1>3. ASSUME held' = held, pc[t] \notin HoldsEvent, pc'[t] \notin HoldsEvent
      PROVE  HeldMoved(t)
  BY <1>0, <1>3 DEF HeldMoved
<1>4. ASSUME pc[t] \in HoldsEvent, Unlock(Ev(t)), pc'[t] \notin HoldsEvent
      PROVE  HeldMoved(t)
  BY <1>0, <1>4 DEF HeldMoved, Unlock, HoldsEvent
<1>5. ASSUME pc[t] # "idle", pc[t] \notin HoldsEvent, Ev(t)' = Ev(t),
             pc'[t] \in HoldsEvent, Lock(Ev(t), t)
      PROVE  HeldMoved(t)
  BY <1>0, <1>5 DEF HeldMoved, Lock
<1> USE <1>0 DEF Goto, Return, Labels, HoldsEvent, HoldsOwn, Awake, events
<1>6. CASE \E e \in Events : SetEvent(t, e) BY <1>1, <1>6 DEF SetEvent
<1>7. CASE \E e \in Events : WaitForEvent(t, e) BY <1>1, <1>7 DEF WaitForEvent
<1>8. CASE \E e \in Events : DestroyEvent(t, e) BY <1>1, <1>8 DEF DestroyEvent
<1>9. CASE \E e \in Events : ResetEvent(t, e) \/ CreateEvent(t, e)
  BY <1>3, <1>9 DEF ResetEvent, CreateEvent
<1>10. CASE LockRegistered(t) \/ Expire(t) \/ Hand(t)
  <2>1. call'[t].list = call[t].list /\ call'[t].i = call[t].i
    BY <1>10 DEF LockRegistered, Expire, Hand, Calls
  <2>2. Ev(t)' = Ev(t) BY <2>1 DEF Ev
  <2> QED BY <1>2, <1>10, <2>2 DEF LockRegistered, Expire, Hand
<1>11. CASE Signal(t)
  <2>0. /\ pc[t] = "signal"
        /\ pc'[t] = IF AutoReset(t) THEN "idle" ELSE "visit"
        /\ IF AutoReset(t) THEN Unlock(Ev(t))
           ELSE held' = held /\ call' = [call EXCEPT ![t].own = {}]
    BY <1>11 DEF Signal
  <2>1. CASE AutoReset(t) BY <1>4, <2>0, <2>1
  <2>2. CASE ~AutoReset(t)
    <3>1. call'[t].list = call[t].list /\ call'[t].i = call[t].i
      BY <2>0, <2>2 DEF Calls
    <3>2. Ev(t)' = Ev(t) BY <3>1 DEF Ev
    <3> QED BY <1>2, <2>0, <2>2, <3>2
  <2> QED BY <2>1, <2>2
<1>12. CASE NoneRegistered(t) \/ TakeEvent(t) \/ GiveUp(t) \/ Sleep(t)
  <2>1. /\ pc[t] \in {"visit", "test"} /\ Unlock(Ev(t))
        /\ \E label \in {"wake", "idle", "asleep"} : Goto(t, label)
    BY <1>12 DEF NoneRegistered, TakeEvent, GiveUp, Sleep
  <2> QED BY <1>4, <2>1
<1>13. CASE Delete(t) \/ ProbeFired(t) \/ Register(t)
  BY <1>4, <1>13 DEF Delete, ProbeFired, Register, NextEvent, Scanned
<1>14. CASE Wake(t) \/ WaitForMultipleEvents(t) \/ WakeSpurious(t)
            \/ WakeTimedOut(t) \/ LoopEnds(t) \/ Doze(t) \/ Redoze(t)
            \/ Finish(t)
  BY <1>3, <1>14 DEF Wake, WaitForMultipleEvents, WakeSpurious, WakeTimedOut,
     Resume, LoopEnds, Doze, Redoze, Finish
<1>15. CASE Relock(t) \/ LockNext(t)
  <2>3. call'[t].list = call[t].list /\ call'[t].i = call[t].i
    BY <1>15 DEF Relock, LockNext, Calls
  <2>1. Ev(t)' = Ev(t) BY <2>3 DEF Ev
  <2>2. Lock(Ev(t), t) BY <1>15 DEF Relock, LockNext
  <2> QED BY <1>5, <1>15, <2>1, <2>2 DEF Relock, LockNext
<1>16. CASE ScanStep(t)
  <2>2. call'[t].list = call[t].list /\ call'[t].i = call[t].i
    BY <1>16 DEF ScanStep, ScanBusy, ScanTry, ScanKeep, ScanDrop, Calls
  <2>1. Ev(t)' = Ev(t) BY <2>2 DEF Ev
  <2> QED BY <1>2, <1>16, <2>1
      DEF ScanStep, ScanBusy, ScanTry, ScanKeep, ScanDrop
<1> QED BY <1>6, <1>7, <1>8, <1>9, <1>10, <1>11, <1>12, <1>13, <1>14, <1>15,
           <1>16 DEF Step, SetterStep, MultiStep, WaitStep

-----------------------------------------------------------------------------
(* The registrations, and the calls of the other threads.                   *)

WaitsMoved(t) ==
  /\ waits' \in WaitLists
  /\ \A e \in Events : waits'[e] # waits[e] => pc[t] \in HoldsEvent /\ Ev(t) = e

(* The first registration of a list is dropped; it is of the waiter in      *)
(* hand.                                                                    *)
LEMMA TailMoves ==
  ASSUME LocksInv, NEW t \in Threads, pc[t] = "hand",
         waits' = [waits EXCEPT ![Ev(t)] = Tail(@)]
  PROVE  /\ Ev(t) \in Events /\ waits' \in WaitLists
         /\ 1 \in 1 .. Len(waits[Ev(t)])
         /\ waits[Ev(t)][1].waiter = Own(t)
         /\ Tail(waits[Ev(t)]) \in Seq(Entries)
         /\ Without(waits[Ev(t)], 1, Tail(waits[Ev(t)]))
<1>1. Ev(t) \in Events BY HandIs
<1>2. waits \in WaitLists /\ waits[Ev(t)] \in Seq(Entries)
  BY <1>1 DEF LocksInv, TypesOK, WaitLists
<1>3. /\ waits[Ev(t)] # <<>> /\ call[t].own = {Head(waits[Ev(t)]).waiter}
      /\ Single(t)
  BY DEF LocksInv, Calling
<1>4. /\ Tail(waits[Ev(t)]) \in Seq(Entries)
      /\ Without(waits[Ev(t)], 1, Tail(waits[Ev(t)]))
      /\ Head(waits[Ev(t)]) = waits[Ev(t)][1] /\ 1 \in 1 .. Len(waits[Ev(t)])
  BY <1>2, <1>3, TailWithout
<1>5. call[t].own = {Own(t)} BY <1>3, OwnIs
<1>6. waits[Ev(t)][1].waiter = Own(t) BY <1>3, <1>4, <1>5
<1>7. waits' \in WaitLists BY <1>1, <1>2, <1>4 DEF WaitLists
<1> QED BY <1>1, <1>4, <1>6, <1>7

(* The registration at the place of the scan is dropped.                    *)
LEMMA CutMoves ==
  ASSUME LocksInv, NEW t \in Threads, ScanDrop(t)
  PROVE  /\ Ev(t) \in Events /\ waits' \in WaitLists
         /\ call[t].k \in 1 .. Len(waits[Ev(t)])
         /\ \E r \in Seq(Entries) : /\ Without(waits[Ev(t)], call[t].k, r)
                                    /\ waits' = [waits EXCEPT ![Ev(t)] = r]
<1>1. pc[t] = "drop" BY DEF ScanDrop
<1>2. Ev(t) \in Events BY <1>1, HandIs
<1>3. waits \in WaitLists /\ waits[Ev(t)] \in Seq(Entries)
  BY <1>2 DEF LocksInv, TypesOK, WaitLists
<1>4. call[t].k \in 1 .. Len(waits[Ev(t)])
  <2>1. call[t].k <= Len(waits[Ev(t)]) BY <1>1 DEF LocksInv, Calling
  <2> QED BY <1>1, <2>1, HandIs
<1> DEFINE r == SubSeq(waits[Ev(t)], 1, call[t].k - 1)
                  \o SubSeq(waits[Ev(t)], call[t].k + 1, Len(waits[Ev(t)]))
<1>5. r \in Seq(Entries) /\ Without(waits[Ev(t)], call[t].k, r)
  BY <1>3, <1>4, CutWithout
<1>6. waits' = [waits EXCEPT ![Ev(t)] = r] BY DEF ScanDrop
<1> HIDE DEF r
<1>7. waits' \in WaitLists BY <1>2, <1>3, <1>5, <1>6 DEF WaitLists
<1> QED BY <1>2, <1>4, <1>5, <1>6, <1>7

(* A registration is added, of the waiter in hand.                          *)
LEMMA AppendMoves ==
  ASSUME LocksInv, NEW t \in Threads, Register(t)
  PROVE  /\ Ev(t) \in Events /\ waits' \in WaitLists /\ Single(t)
         /\ call[t].own = {Own(t)} /\ Own(t) \in Waiters
         /\ [waiter |-> Own(t), index |-> call[t].i - 1] \in Entries
         /\ waits' = [waits EXCEPT ![Ev(t)] =
              Append(@, [waiter |-> Own(t), index |-> call[t].i - 1])]
<1>1. pc[t] = "scan" /\ call[t].own # {} BY DEF Register, Scanned
<1>2. Ev(t) \in Events BY <1>1, HandIs
<1>3. Single(t) /\ call[t] \in Calls BY <1>1 DEF LocksInv, Calling, TypesOK
<1>4. call[t].own = {Own(t)} /\ Own(t) \in Waiters BY <1>3, OwnIs
<1>5. call[t].i - 1 \in Nat BY <1>3 DEF Calls
<1>6. [waiter |-> Own(t), index |-> call[t].i - 1] \in Entries
  BY <1>4, <1>5 DEF Entries
<1>7. waits' = [waits EXCEPT ![Ev(t)] =
         Append(@, [waiter |-> Own(t), index |-> call[t].i - 1])]
  BY DEF Register
<1>8. waits \in WaitLists /\ waits[Ev(t)] \in Seq(Entries)
  BY <1>2 DEF LocksInv, TypesOK, WaitLists
<1>9. waits' \in WaitLists
  BY <1>2, <1>6, <1>7, <1>8, AppendProperties DEF WaitLists
<1> QED BY <1>2, <1>3, <1>4, <1>6, <1>7, <1>9

(* Only the thread that holds an event changes its registrations.           *)
LEMMA WaitsStep ==
  ASSUME LocksInv, NEW t \in Threads, Step(t)
  PROVE  WaitsMoved(t)
<1>0. /\ waits \in WaitLists
      /\ pc[t] # "idle" => Ev(t) \in Events
  BY HandIs DEF LocksInv, TypesOK
<1>1. CASE waits' = waits BY <1>0, <1>1 DEF WaitsMoved
<1>2. CASE Expire(t) \/ Hand(t)
  <2>1. pc[t] = "hand" /\ waits' = [waits EXCEPT ![Ev(t)] = Tail(@)]
    BY <1>2 DEF Expire, Hand
  <2>2. waits' \in WaitLists /\ Ev(t) \in Events BY <2>1, TailMoves
  <2> QED BY <1>0, <2>1, <2>2 DEF WaitsMoved, HoldsEvent, WaitLists
<1>3. CASE ScanDrop(t)
  <2>1. pc[t] = "drop" BY <1>3 DEF ScanDrop
  <2> QED BY <1>0, <1>3, <2>1, CutMoves DEF WaitsMoved, HoldsEvent, WaitLists
<1>4. CASE Register(t)
  <2>1. pc[t] = "scan" BY <1>4 DEF Register, Scanned
  <2> QED BY <1>0, <1>4, <2>1, AppendMoves DEF WaitsMoved, HoldsEvent, WaitLists
<1>5. CASE Delete(t)
  <2>1. pc[t] = "scan" /\ waits' = [waits EXCEPT ![Ev(t)] = <<>>]
    BY <1>5 DEF Delete, Scanned
  <2> QED BY <1>0, <2>1 DEF WaitsMoved, HoldsEvent, WaitLists
<1>6. Expire(t) \/ Hand(t) \/ ScanDrop(t) \/ Register(t) \/ Delete(t)
        \/ waits' = waits
  BY DEF Step, SetterStep, MultiStep, WaitStep, ScanStep, SetEvent, ResetEvent,
     LockRegistered, Signal, NoneRegistered, Wake, WaitForEvent, TakeEvent,
     GiveUp, Sleep, Relock, WakeSpurious, WakeTimedOut, ScanBusy, ScanTry,
     ScanKeep, CreateEvent, DestroyEvent, WaitForMultipleEvents, LockNext,
     ProbeFired, LoopEnds, Doze, Redoze, Finish, events
<1> QED BY <1>1, <1>2, <1>3, <1>4, <1>5, <1>6

(* Another thread's call goes on as it was; it may have been woken.         *)
CallsMoved(t) ==
  /\ pc' \in [Threads -> Labels]
  /\ \A u \in Threads \ {t} :
       /\ call'[u] = call[u]
       /\ \/ pc'[u] = pc[u]
          \/ pc[u] = "dozing" /\ pc'[u] = "redoze"
          \/ pc[u] = "asleep" /\ pc'[u] = "relock"

(* A step changes the call of nobody else, and wakes others at most.        *)
LEMMA CallsStep ==
  ASSUME LocksInv, NEW t \in Threads, Step(t)
  PROVE  CallsMoved(t)
<1>0. pc \in [Threads -> Labels] /\ call \in [Threads -> Calls]
  BY DEF LocksInv, TypesOK
<1>1. CASE Signal(t)
  BY <1>0, <1>1 DEF Signal, CallsMoved, Labels, HoldsEvent, Awake
<1>2. CASE Wake(t)
  BY <1>0, <1>2 DEF Wake, CallsMoved, Labels, Sleepers, Awake
<1> USE <1>0 DEF CallsMoved, Labels, HoldsEvent, HoldsOwn, Awake, Goto, Return,
        Enter
<1>3. CASE \E e \in Events : \/ SetEvent(t, e) \/ WaitForEvent(t, e)
                              \/ ResetEvent(t, e) \/ CreateEvent(t, e)
                              \/ DestroyEvent(t, e)
  BY <1>3 DEF SetEvent, WaitForEvent, ResetEvent, CreateEvent, DestroyEvent
<1>4. CASE LockRegistered(t) \/ Expire(t) \/ Hand(t) \/ NoneRegistered(t)
  BY <1>4 DEF LockRegistered, Expire, Hand, NoneRegistered
<1>5. CASE WaitStep(t)
  BY <1>5 DEF WaitStep, TakeEvent, GiveUp, Sleep, Relock, WakeSpurious,
     WakeTimedOut, Resume
<1>6. CASE ScanStep(t) \/ Delete(t)
  BY <1>6 DEF ScanStep, ScanBusy, ScanTry, ScanKeep, ScanDrop, Delete
<1>7. CASE WaitForMultipleEvents(t)
  BY <1>7 DEF WaitForMultipleEvents
<1>8. CASE MultiStep(t)
  BY <1>8 DEF MultiStep, LockNext, ProbeFired, Register, LoopEnds, Doze, Redoze,
     Finish, NextEvent
<1> QED BY <1>1, <1>2, <1>3, <1>4, <1>5, <1>6, <1>7, <1>8
        DEF Step, SetterStep

(* A step of thread t leaves the others where they are.                     *)
LEMMA OthersStay ==
  ASSUME LocksInv, NEW t \in Threads, Step(t), NEW u \in Threads \ {t}
  PROVE  /\ call'[u] = call[u] /\ Ev(u)' = Ev(u) /\ Own(u)' = Own(u)
         /\ pc[u] \in HoldsEvent => /\ pc'[u] = pc[u]
                                    /\ waits'[Ev(u)] = waits[Ev(u)]
         /\ Holding(u)' = Holding(u)
         /\ \A o : Owner(o, u)' <=> Owner(o, u)
<1>1. /\ call'[u] = call[u]
      /\ \/ pc'[u] = pc[u]
         \/ pc[u] = "dozing" /\ pc'[u] = "redoze"
         \/ pc[u] = "asleep" /\ pc'[u] = "relock"
  BY CallsStep DEF CallsMoved
<1>2. Ev(u)' = Ev(u) BY <1>1 DEF Ev
<1>3. Own(u)' = Own(u) BY <1>1 DEF Own
<1>4. ASSUME pc[u] \in HoldsEvent
      PROVE  pc'[u] = pc[u] /\ waits'[Ev(u)] = waits[Ev(u)]
  <2>1. Ev(u) \in Events BY <1>4, HandIs DEF HoldsEvent
  <2>2. held[Ev(u)] = u BY <1>4, <2>1 DEF LocksInv, HeldOK
  <2>3. ~(pc[t] \in HoldsEvent /\ Ev(t) = Ev(u))
    BY <2>1, <2>2 DEF LocksInv, HeldOK
  <2>4. waits'[Ev(u)] = waits[Ev(u)] BY <2>1, <2>3, WaitsStep DEF WaitsMoved
  <2> QED BY <1>1, <1>4, <2>4 DEF HoldsEvent
<1>5. pc[u] = "drop" <=> pc'[u] = "drop" BY <1>1
<1>6. pc[u] = "drop" => Entry(u)' = Entry(u)
  BY <1>1, <1>2, <1>4 DEF Entry, HoldsEvent
<1>7. pc[u] \in HoldsOwn \cup {"hand"} <=> pc'[u] \in HoldsOwn \cup {"hand"}
  BY <1>1 DEF HoldsOwn
<1>8. Holding(u)' = Holding(u)
  BY <1>1, <1>5, <1>6, <1>7 DEF Holding
<1>9. \A o : Owner(o, u)' <=> Owner(o, u) BY <1>1 DEF Owner, HoldsOwn
<1> QED BY <1>1, <1>2, <1>3, <1>4, <1>8, <1>9

(* What holds of the call of another thread holds after a step.             *)
LEMMA OthersCall ==
  ASSUME LocksInv, NEW t \in Threads, Step(t), NEW u \in Threads \ {t}
  PROVE  Calling(u)'
<1>1. /\ call'[u] = call[u] /\ Ev(u)' = Ev(u)
      /\ pc[u] \in HoldsEvent => /\ pc'[u] = pc[u]
                                 /\ waits'[Ev(u)] = waits[Ev(u)]
  BY OthersStay
<1>2. \/ pc'[u] = pc[u]
      \/ pc[u] = "dozing" /\ pc'[u] = "redoze"
      \/ pc[u] = "asleep" /\ pc'[u] = "relock"
  BY CallsStep DEF CallsMoved
<1>3. Calling(u) BY DEF LocksInv
<1>4. Single(u)' <=> Single(u) BY <1>1 DEF Single
<1>5. CASE pc[u] \in HoldsEvent
  <2>1. pc'[u] = pc[u] /\ waits'[Ev(u)] = waits[Ev(u)] BY <1>1, <1>5
  <2>2. Entry(u)' = Entry(u) BY <1>1, <2>1 DEF Entry
  <2> QED BY <1>1, <1>3, <1>4, <2>1, <2>2 DEF Calling
<1>6. CASE pc[u] \notin HoldsEvent
  BY <1>1, <1>2, <1>3, <1>4, <1>6 DEF Calling, HoldsEvent
<1> QED BY <1>5, <1>6

LocksMoved(t) ==
  /\ waiter' \in [Waiters -> Objects]
  /\ \A o \in Waiters, u \in Threads \ {t} :
       waiter'[o].holder = u <=> waiter[o].holder = u
  /\ \A o \in Waiters : waiter'[o].holder = t <=> o \in Holding(t)'

(* A step that locks and unlocks no waiter.                                 *)
LEMMA Kept ==
  ASSUME LocksInv, NEW t \in Threads,
         waiter' \in [Waiters -> Objects],
         \A o \in Waiters : waiter'[o].holder = waiter[o].holder,
         Holding(t)' = Holding(t)
  PROVE  LocksMoved(t)
BY DEF LocksMoved, LocksInv, LocksOK

(* A step that locks a waiter.                                              *)
LEMMA Locked ==
  ASSUME LocksInv, NEW t \in Threads, NEW o \in Waiters, Acquire(o, t),
         Holding(t)' = Holding(t) \cup {o}
  PROVE  LocksMoved(t)
<1>1. waiter \in [Waiters -> Objects] BY DEF LocksInv, TypesOK
<1>2. /\ waiter' \in [Waiters -> Objects]
      /\ \A p \in Waiters \ {o} : waiter'[p] = waiter[p]
      /\ waiter[o].holder = NoThread /\ waiter'[o].holder = t
  BY <1>1, AcquireIs
<1> QED BY <1>2 DEF LocksMoved, LocksInv, LocksOK

(* A step that unlocks a waiter it has held.                                *)
LEMMA Unlocked ==
  ASSUME LocksInv, NEW t \in Threads, NEW o \in Waiters, NEW w \in Objects,
         Release(o, w), o \in Holding(t), Holding(t)' = Holding(t) \ {o}
  PROVE  LocksMoved(t)
<1>1. waiter \in [Waiters -> Objects] BY DEF LocksInv, TypesOK
<1>2. /\ waiter' \in [Waiters -> Objects]
      /\ \A p \in Waiters \ {o} : waiter'[p] = waiter[p]
      /\ waiter'[o].holder = NoThread
  BY <1>1, ReleaseIs
<1>3. waiter[o].holder = t BY DEF LocksInv, LocksOK
<1> QED BY <1>2, <1>3 DEF LocksMoved, LocksInv, LocksOK

-----------------------------------------------------------------------------
(* The mutexes of the waiters.                                              *)

(* The waiter that a thread at one of these labels works on.                *)
LEMMA OwnWaiter ==
  ASSUME LocksInv, NEW t \in Threads,
         \/ pc[t] \in {"hand", "signal", "reg", "loop", "finish", "dozing",
                       "redoze"}
         \/ pc[t] = "scan" /\ call[t].own # {}
  PROVE  /\ Own(t) \in Waiters /\ call[t].own = {Own(t)}
         /\ waiter[Own(t)] \in Objects
         /\ pc[t] # "signal" => waiter[Own(t)].refs > 0 /\ Own(t) \in live
<1>1. Single(t) BY DEF LocksInv, Calling
<1>2. Own(t) \in Waiters /\ call[t].own = {Own(t)} BY <1>1, OwnIs
<1>3. waiter[Own(t)] \in Objects BY <1>2 DEF LocksInv, TypesOK
<1>4. CASE pc[t] = "hand"
  <2>1. Own(t) = Head(waits[Ev(t)]).waiter /\ waits[Ev(t)] # <<>>
    BY <1>2, <1>4 DEF LocksInv, Calling
  <2> QED BY <1>2, <1>3, <1>4, <2>1, HandIs
<1>5. CASE pc[t] # "hand" /\ pc[t] # "signal"
  <2>1. Owner(Own(t), t) BY <1>2, <1>5 DEF Owner, HoldsOwn
  <2> QED BY <1>2, <1>3, <2>1, Alive
<1> QED BY <1>2, <1>3, <1>4, <1>5

(* What a step does to the mutexes of the waiters.                          *)
LEMMA LocksStep ==
  ASSUME LocksInv, NEW t \in Threads, Step(t)
  PROVE  LocksMoved(t)
<1>0. /\ waiter \in [Waiters -> Objects] /\ pc \in [Threads -> Labels]
      /\ call \in [Threads -> Calls] /\ Calling(t) /\ call[t] \in Calls
  BY DEF LocksInv, TypesOK
<1>1. ASSUME UNCHANGED waiter, Holding(t) = {}, Holding(t)' = {}
      PROVE  LocksMoved(t)
  BY <1>0, <1>1, Kept
<1>2. CASE \E e \in Events : \/ SetEvent(t, e) \/ WaitForEvent(t, e)
                             \/ DestroyEvent(t, e)
  <2>1. PICK e \in Events : \/ SetEvent(t, e) \/ WaitForEvent(t, e)
                            \/ DestroyEvent(t, e)
    BY <1>2
  <2>2. PICK label \in {"visit", "test", "scan"} : \E timeout :
          Enter(t, e, timeout, label)
    BY <2>1 DEF SetEvent, WaitForEvent, DestroyEvent
  <2>3. PICK timeout : Enter(t, e, timeout, label) BY <2>2
  <2>4. pc[t] = "idle" BY <2>3, EnterIs
  <2>5. pc'[t] = label BY <2>3, EnterIs
  <2>6. call[t].own = {} /\ call'[t].own = {} BY <2>3, EnterIs
  <2>7. UNCHANGED waiter BY <2>1 DEF SetEvent, WaitForEvent, DestroyEvent
  <2>8. Holding(t) = {} BY <2>4, <2>6 DEF Holding
  <2>9. Holding(t)' = {} BY <2>5, <2>6 DEF Holding
  <2> QED BY <1>1, <2>7, <2>8, <2>9
<1>3. CASE \E e \in Events : ResetEvent(t, e) \/ CreateEvent(t, e)
  <2>1. UNCHANGED <<waiter, pc, call>> /\ pc[t] = "idle"
    BY <1>3 DEF ResetEvent, CreateEvent
  <2>2. Holding(t) = {} BY <2>1 DEF Holding, HoldsOwn
  <2>3. Holding(t)' = {} BY <2>1 DEF Holding, HoldsOwn
  <2> QED BY <1>1, <2>1, <2>2, <2>3
<1>4. CASE NoneRegistered(t) \/ TakeEvent(t) \/ GiveUp(t) \/ Sleep(t)
           \/ Relock(t) \/ WakeSpurious(t) \/ WakeTimedOut(t) \/ Wake(t)
           \/ Signal(t)
  <2>1. /\ UNCHANGED waiter
        /\ pc[t] \notin HoldsOwn \cup {"hand"}
        /\ pc'[t] \notin HoldsOwn \cup {"hand"}
    BY <1>0, <1>4 DEF NoneRegistered, TakeEvent, GiveUp, Sleep, Relock,
       WakeSpurious, WakeTimedOut, Wake, Signal, HoldsOwn, Goto, Return, Resume
  <2>2. Holding(t) = {} BY <2>1 DEF Holding, HoldsOwn
  <2>3. Holding(t)' = {} BY <2>1 DEF Holding, HoldsOwn
  <2> QED BY <1>1, <2>1, <2>2, <2>3
<1>5. CASE Delete(t)
  <2>1. /\ UNCHANGED waiter /\ pc[t] = "scan" /\ call[t].own = {}
        /\ pc'[t] = "idle"
    BY <1>0, <1>5 DEF Delete, Scanned, Return, Goto
  <2>2. Holding(t) = {} BY <2>1 DEF Holding
  <2>3. Holding(t)' = {} BY <2>1 DEF Holding, HoldsOwn
  <2> QED BY <1>1, <2>1, <2>2, <2>3
<1>6. CASE LockRegistered(t)
  <2> DEFINE o == Head(waits[Ev(t)]).waiter
  <2>1. /\ Acquire(o, t) /\ call'[t].own = {o} /\ pc[t] = "visit"
        /\ pc'[t] = "hand" /\ waits[Ev(t)] # <<>>
    BY <1>0, <1>6 DEF LockRegistered, Goto
  <2>2. o \in Waiters BY <2>1, HandIs
  <2> HIDE DEF o
  <2>3. Holding(t) = {} BY <2>1 DEF Holding, HoldsOwn
  <2>4. Holding(t)' = {o} BY <2>1 DEF Holding, HoldsOwn
  <2> QED BY <2>1, <2>2, <2>3, <2>4, Locked
<1>7. CASE Expire(t) \/ Hand(t)
  <2>1. pc[t] = "hand" /\ pc'[t] \in {"visit", "signal"}
    BY <1>0, <1>7 DEF Expire, Hand, Goto
  <2>2. /\ Own(t) \in Waiters /\ call[t].own = {Own(t)}
        /\ waiter[Own(t)] \in Objects /\ waiter[Own(t)].refs > 0
    BY <2>1, OwnWaiter
  <2>3. Holding(t) = {Own(t)} BY <2>1, <2>2 DEF Holding
  <2>4. Holding(t)' = {} BY <2>1 DEF Holding, HoldsOwn
  <2>5. \E w \in Objects : Release(Own(t), w)
    <3>1. CASE Expire(t)
      <4>1. Release(Own(t), [waiter[Own(t)] EXCEPT !.refs = @ - 1])
        BY <3>1 DEF Expire
      <4>2. [waiter[Own(t)] EXCEPT !.refs = @ - 1] \in Objects
        BY <2>2, LessRefs
      <4> QED BY <4>1, <4>2
    <3>2. CASE Hand(t)
      <4> DEFINE w == Fired(waiter[Own(t)], Head(waits[Ev(t)]).index)
      <4>1. Release(Own(t), [w EXCEPT !.refs = @ - 1, !.still = w.all])
        BY <3>2 DEF Hand
      <4>2. Head(waits[Ev(t)]).index \in Int
        <5>1. waits[Ev(t)] # <<>> BY <2>1 DEF LocksInv, Calling
        <5> QED BY <2>1, <5>1, HandIs DEF Entries
      <4>3. w \in Objects /\ w.refs = waiter[Own(t)].refs
        BY <2>2, <4>2, FiredIs
      <4> HIDE DEF w
      <4>4. w.all \in BOOLEAN BY <4>3 DEF Objects
      <4>5. [w EXCEPT !.refs = @ - 1, !.still = w.all] \in Objects
        BY <2>2, <4>3, <4>4, LessRefs
      <4> QED BY <4>1, <4>5
    <3> QED BY <1>7, <3>1, <3>2
  <2> QED BY <2>2, <2>3, <2>4, <2>5, Unlocked
<1>8. CASE ScanBusy(t) \/ LockNext(t) \/ LoopEnds(t)
  <2>1. /\ UNCHANGED waiter /\ call'[t].own = call[t].own
        /\ pc[t] \in HoldsOwn \ {"drop"} /\ pc'[t] \in HoldsOwn \ {"drop"}
    BY <1>0, <1>8 DEF ScanBusy, LockNext, LoopEnds, HoldsOwn, Goto, Calls
  <2>2. Holding(t)' = Holding(t) BY <2>1 DEF Holding
  <2> QED BY <1>0, <2>1, <2>2, Kept
<1>9. CASE ScanTry(t)
  <2>1. /\ Acquire(Entry(t), t) /\ UNCHANGED <<waits, call>>
        /\ pc[t] = "scan" /\ pc'[t] = "drop" /\ call[t].k <= Len(waits[Ev(t)])
    BY <1>0, <1>9 DEF ScanTry, Goto, events
  <2>2. Entry(t) \in Waiters BY <2>1, HandIs
  <2>3. Entry(t)' = Entry(t) BY <2>1 DEF Entry, Ev
  <2>4. Holding(t)' = Holding(t) \cup {Entry(t)}
    BY <2>1, <2>3 DEF Holding, HoldsOwn
  <2> QED BY <2>1, <2>2, <2>4, Locked
<1>10. CASE ScanKeep(t) \/ ScanDrop(t)
  <2>1. pc[t] = "drop" /\ pc'[t] = "scan" /\ call'[t].own = call[t].own
    BY <1>0, <1>10 DEF ScanKeep, ScanDrop, Goto, Calls
  <2>2. call[t].k <= Len(waits[Ev(t)]) /\ Entry(t) \notin call[t].own
    BY <2>1 DEF LocksInv, Calling
  <2>3. Entry(t) \in Waiters /\ waiter[Entry(t)].refs > 0 BY <2>1, <2>2, HandIs
  <2>4. waiter[Entry(t)] \in Objects BY <1>0, <2>3
  <2>5. [waiter[Entry(t)] EXCEPT !.refs = @ - 1] \in Objects
    BY <2>3, <2>4, LessRefs
  <2>6. \E w \in Objects : Release(Entry(t), w)
    BY <1>10, <2>4, <2>5 DEF ScanKeep, ScanDrop
  <2>7. Holding(t) = call[t].own \cup {Entry(t)} BY <2>1 DEF Holding, HoldsOwn
  <2>8. Holding(t)' = call[t].own BY <2>1 DEF Holding, HoldsOwn
  <2> QED BY <2>2, <2>3, <2>6, <2>7, <2>8, Unlocked
<1>11. CASE WaitForMultipleEvents(t)
  <2>1. PICK list \in Lists, all \in BOOLEAN, o \in Waiters \ live :
          /\ waiter' \in [Waiters -> Objects]
          /\ \A p \in Waiters \ {o} : waiter'[p] = waiter[p]
          /\ waiter'[o] = [holder |-> t, refs |-> 1, all |-> all,
                           still |-> TRUE,
                           status |-> IF all THEN Len(list) ELSE -1]
          /\ call'[t].own = {o}
    BY <1>11, BeginIs
  <2>2. pc[t] = "idle" /\ pc'[t] = "reg"
    BY <1>0, <1>11 DEF WaitForMultipleEvents, Goto
  <2>5. waiter[o].holder = NoThread BY DEF LocksInv, UnusedOK, Blank
  <2>6. Holding(t) = {} BY <2>2 DEF Holding, HoldsOwn
  <2>7. Holding(t)' = {o} BY <2>1, <2>2 DEF Holding, HoldsOwn
  <2>8. waiter'[o].holder = t BY <2>1
  <2> QED BY <2>1, <2>5, <2>6, <2>7, <2>8 DEF LocksMoved, LocksInv, LocksOK
<1>12. CASE ProbeFired(t) \/ Register(t)
  <2>1. /\ pc[t] = "scan" /\ call[t].own # {} /\ call'[t].own = call[t].own
        /\ pc'[t] \in HoldsOwn \ {"drop"}
    BY <1>0, <1>12 DEF ProbeFired, Register, NextEvent, Scanned, HoldsOwn, Goto,
       Calls
  <2>2. /\ Own(t) \in Waiters /\ waiter[Own(t)] \in Objects BY <2>1, OwnWaiter
  <2>3. call[t].i - 1 \in Int BY <1>0 DEF Calls
  <2>4. Fired(waiter[Own(t)], call[t].i - 1) \in Objects
        /\ Fired(waiter[Own(t)], call[t].i - 1).holder = waiter[Own(t)].holder
    BY <2>2, <2>3, FiredIs
  <2>5. /\ [waiter[Own(t)] EXCEPT !.refs = @ + 1] \in Objects
        /\ [waiter[Own(t)] EXCEPT !.refs = @ + 1].holder = waiter[Own(t)].holder
    BY <2>2 DEF Objects
  <2>6. /\ waiter' \in [Waiters -> Objects]
        /\ \A o \in Waiters : waiter'[o].holder = waiter[o].holder
    BY <1>0, <1>12, <2>2, <2>4, <2>5 DEF ProbeFired, Register
  <2>7. Holding(t)' = Holding(t) BY <2>1 DEF Holding, HoldsOwn
  <2> QED BY <2>6, <2>7, Kept
<1>13. CASE Doze(t) \/ Finish(t)
  <2>1. pc[t] \in {"loop", "finish"} /\ pc'[t] \in {"dozing", "idle"}
    BY <1>0, <1>13 DEF Doze, Finish, Return, Goto
  <2>2. /\ Own(t) \in Waiters /\ call[t].own = {Own(t)}
        /\ waiter[Own(t)] \in Objects /\ waiter[Own(t)].refs > 0
    BY <2>1, OwnWaiter
  <2>3. [waiter[Own(t)] EXCEPT !.refs = @ - 1, !.still = FALSE] \in Objects
    BY <2>2, LessRefs
  <2>4. \E w \in Objects : Release(Own(t), w)
    BY <1>13, <2>2, <2>3 DEF Doze, Finish
  <2>5. Holding(t) = {Own(t)} BY <2>1, <2>2 DEF Holding, HoldsOwn
  <2>6. Holding(t)' = {} BY <2>1 DEF Holding, HoldsOwn
  <2> QED BY <2>2, <2>4, <2>5, <2>6, Unlocked
<1>14. CASE Redoze(t)
  <2>1. /\ pc[t] = "redoze" /\ pc'[t] \in {"loop", "finish"}
        /\ call' = call /\ Acquire(Own(t), t)
    BY <1>0, <1>14 DEF Redoze, Goto
  <2>2. Own(t) \in Waiters /\ call[t].own = {Own(t)} BY <2>1, OwnWaiter
  <2>3. Holding(t) = {} BY <2>1 DEF Holding, HoldsOwn
  <2>4. Holding(t)' = {Own(t)} BY <2>1, <2>2 DEF Holding, HoldsOwn
  <2> QED BY <2>1, <2>2, <2>3, <2>4, Locked
<1> QED BY <1>2, <1>3, <1>4, <1>5, <1>6, <1>7, <1>8, <1>9, <1>10, <1>11, <1>12,
           <1>13, <1>14 DEF Step, SetterStep, MultiStep, WaitStep, ScanStep

-----------------------------------------------------------------------------
(* The types of the variables.                                              *)

(* A call with one of its fields changed.                                   *)
LEMMA CallParts ==
  ASSUME NEW c \in Calls
  PROVE  /\ [c EXCEPT !.own = {}] \in Calls
         /\ \A b \in BOOLEAN : [c EXCEPT !.timedout = b] \in Calls
         /\ [c EXCEPT !.k = @ + 1] \in Calls /\ [c EXCEPT !.k = 1] \in Calls
         /\ [c EXCEPT !.i = @ + 1] \in Calls
<1>1. c.k + 1 \in Nat \ {0} /\ c.i + 1 \in Nat \ {0} BY DEF Calls
<1>2. [c EXCEPT !.own = {}] \in Calls BY DEF Calls
<1>3. \A b \in BOOLEAN : [c EXCEPT !.timedout = b] \in Calls BY DEF Calls
<1>4. [c EXCEPT !.k = @ + 1] \in Calls /\ [c EXCEPT !.k = 1] \in Calls
  BY <1>1 DEF Calls
<1>5. [c EXCEPT !.i = @ + 1] \in Calls BY <1>1 DEF Calls
<1> QED BY <1>2, <1>3, <1>4, <1>5

(* A step leaves the calls well typed.                                      *)
LEMMA CallTyped ==
  ASSUME LocksInv, NEW t \in Threads, Step(t)
  PROVE  call' \in [Threads -> Calls]
<1>0. /\ call \in [Threads -> Calls] /\ call[t] \in Calls
      /\ pc[t] # "idle" => Ev(t) \in Events
      /\ Calling(t) /\ NoCall \in Calls
  BY HandIs DEF LocksInv, TypesOK, NoCall, Calls
<1>1. ASSUME NEW e \in Events, NEW label,
             NEW timeout \in {"poll", "timed", "forever"},
             Enter(t, e, timeout, label)
      PROVE  call' \in [Threads -> Calls]
  <2>1. <<e>> \in Seq(Events) OBVIOUS
  <2> QED BY <1>0, <1>1, <2>1 DEF Enter, Calls
<1>2. CASE \E e \in Events : SetEvent(t, e) \/ DestroyEvent(t, e)
  BY <1>1, <1>2 DEF SetEvent, DestroyEvent
<1>3. CASE \E e \in Events : WaitForEvent(t, e)
  <2>1. Timeouts \subseteq {"poll", "timed", "forever"} OBVIOUS
  <2> QED BY <1>1, <1>3, <2>1 DEF WaitForEvent
<1>4. CASE \E e \in Events : ResetEvent(t, e) \/ CreateEvent(t, e)
  BY <1>0, <1>4 DEF ResetEvent, CreateEvent
<1>5. CASE LockRegistered(t)
  <2>1. /\ call' = [call EXCEPT ![t].own = {Head(waits[Ev(t)]).waiter}]
        /\ pc[t] = "visit" /\ waits[Ev(t)] # <<>>
    BY <1>5 DEF LockRegistered
  <2>2. Head(waits[Ev(t)]).waiter \in Waiters BY <2>1, HandIs
  <2> QED BY <1>0, <2>1, <2>2 DEF Calls
<1>6. ASSUME NEW c \in Calls, call' = [call EXCEPT ![t] = c]
      PROVE  call' \in [Threads -> Calls]
  BY <1>0, <1>6
<1>7. CASE Expire(t) \/ Hand(t) \/ NoneRegistered(t) \/ Signal(t) \/ Wake(t)
  <2>1. \/ call' = call \/ call' = [call EXCEPT ![t] = NoCall]
        \/ call' = [call EXCEPT ![t].own = {}]
    BY <1>7 DEF Expire, Hand, NoneRegistered, Signal, Wake
  <2> QED BY <1>0, <1>6, <2>1, CallParts
<1>8. CASE WaitStep(t)
  <2>1. \/ call' = call \/ call' = [call EXCEPT ![t] = NoCall]
        \/ call' = [call EXCEPT ![t].timedout = TRUE]
    BY <1>8 DEF WaitStep, TakeEvent, GiveUp, Sleep, Relock, WakeSpurious,
       WakeTimedOut, Return
  <2> QED BY <1>0, <1>6, <2>1, CallParts
<1>11. CASE ScanStep(t) \/ Delete(t)
  <2>1. \/ call' = call \/ call' = [call EXCEPT ![t] = NoCall]
        \/ call' = [call EXCEPT ![t].k = @ + 1]
    BY <1>11 DEF ScanStep, ScanBusy, ScanTry, ScanKeep, ScanDrop, Delete, Return
  <2> QED BY <1>0, <1>6, <2>1, CallParts
<1>9. CASE WaitForMultipleEvents(t) BY <1>9, BeginIs
<1>10. CASE MultiStep(t)
  <2>1. \/ call' = call \/ call' = [call EXCEPT ![t] = NoCall]
        \/ call' = [call EXCEPT ![t].i = @ + 1]
        \/ call' = [call EXCEPT ![t].k = 1]
        \/ \E b \in BOOLEAN : call' = [call EXCEPT ![t].timedout = b]
    BY <1>10 DEF MultiStep, LockNext, ProbeFired, Register, LoopEnds, Doze,
       Redoze, Finish, NextEvent, Return
  <2> QED BY <1>0, <1>6, <2>1, CallParts
<1> QED BY <1>2, <1>3, <1>4, <1>5, <1>7, <1>8, <1>9, <1>10, <1>11
        DEF Step, SetterStep

(* A step leaves every variable well typed.                                 *)
LEMMA TypesStep ==
  ASSUME LocksInv, NEW t \in Threads, Step(t)
  PROVE  TypesOK'
<1>0. /\ TypesOK
      /\ pc[t] # "idle" => Ev(t) \in Events
  BY HandIs DEF LocksInv
<1>1. /\ held' \in [Events -> Threads \cup {NoThread}] /\ waits' \in WaitLists
      /\ waiter' \in [Waiters -> Objects] /\ pc' \in [Threads -> Labels]
      /\ call' \in [Threads -> Calls]
  BY HeldStep, WaitsStep, LocksStep, CallsStep, CallTyped
     DEF HeldMoved, WaitsMoved, LocksMoved, CallsMoved
<1>2. created' \subseteq Events /\ state' \in [Events -> BOOLEAN]
  BY <1>0 DEF TypesOK, Taken, Step, SetterStep, MultiStep, WaitStep, ScanStep,
     SetEvent, ResetEvent, LockRegistered, Expire, Hand, Signal, NoneRegistered,
     Wake, WaitForEvent, TakeEvent, GiveUp, Sleep, Relock, WakeSpurious,
     WakeTimedOut, ScanBusy, ScanTry, ScanKeep, ScanDrop, CreateEvent,
     DestroyEvent, Delete, WaitForMultipleEvents, LockNext, ProbeFired,
     Register, LoopEnds, Doze, Redoze, Finish, events
<1>3. live' \subseteq Waiters
  BY <1>0 DEF TypesOK, Release, Step, SetterStep, MultiStep, WaitStep, ScanStep,
     SetEvent, ResetEvent, LockRegistered, Expire, Hand, Signal, NoneRegistered,
     Wake, WaitForEvent, TakeEvent, GiveUp, Sleep, Relock, WakeSpurious,
     WakeTimedOut, ScanBusy, ScanTry, ScanKeep, ScanDrop, CreateEvent,
     DestroyEvent, Delete, WaitForMultipleEvents, LockNext, ProbeFired,
     Register, LoopEnds, Doze, Redoze, Finish
<1>4. leaked' \in [Waiters -> Nat]
  <2>1. CASE Delete(t)
    <3>1. leaked' = [o \in Waiters |->
                       leaked[o] + Cardinality(Registrations(o, Ev(t)))]
      BY <2>1 DEF Delete
    <3>2. Ev(t) \in Events BY <1>0, <2>1 DEF Delete, Scanned
    <3>3. \A o \in Waiters : Cardinality(Registrations(o, Ev(t))) \in Nat
      <4> TAKE o \in Waiters
      <4>1. waits \in WaitLists BY <1>0 DEF TypesOK
      <4>2. Cardinality(PlacesIn(waits, o, Ev(t))) \in Nat
        BY <3>2, <4>1, CountClear
      <4> QED BY <4>2 DEF Registrations, PlacesIn
    <3>4. \A o \in Waiters : leaked[o] \in Nat BY <1>0 DEF TypesOK
    <3>5. \A o \in Waiters :
            leaked[o] + Cardinality(Registrations(o, Ev(t))) \in Nat
      BY <3>3, <3>4
    <3> QED BY <3>1, <3>5
  <2>2. CASE ~Delete(t)
    BY <1>0, <2>2 DEF TypesOK, Step, SetterStep, MultiStep, WaitStep, ScanStep,
       SetEvent, ResetEvent, LockRegistered, Expire, Hand, Signal,
       NoneRegistered, Wake, WaitForEvent, TakeEvent, GiveUp, Sleep, Relock,
       WakeSpurious, WakeTimedOut, ScanBusy, ScanTry, ScanKeep, ScanDrop,
       CreateEvent, DestroyEvent, WaitForMultipleEvents, LockNext, ProbeFired,
       Register, LoopEnds, Doze, Redoze, Finish
  <2> QED BY <2>1, <2>2
<1> QED BY <1>1, <1>2, <1>3, <1>4 DEF TypesOK

-----------------------------------------------------------------------------
(* What a call is at each label.                                            *)

(* A step leaves its own call as the label it goes to has it.               *)
LEMMA CallingStep ==
  ASSUME LocksInv, NEW t \in Threads, Step(t)
  PROVE  Calling(t)'
<1>0. /\ pc \in [Threads -> Labels] /\ call \in [Threads -> Calls]
      /\ call[t] \in Calls /\ Calling(t)
      /\ pc[t] # "idle" => Ev(t) \in Events
  BY HandIs DEF LocksInv, TypesOK
<1>1. ASSUME pc'[t] = "idle", call'[t] = NoCall PROVE Calling(t)'
  BY <1>1 DEF Calling
<1>2. ASSUME pc[t] # "idle", call'[t].list = call[t].list,
             call'[t].i \in 1 .. Len(call[t].list), call'[t].own = {},
             \/ pc'[t] \in {"relock", "test"}
             \/ pc'[t] \in {"visit", "wake", "asleep"} /\ ~call'[t].timedout
      PROVE  Calling(t)'
  BY <1>2 DEF Calling
<1>3. ASSUME pc[t] # "idle", call'[t].list = call[t].list,
             call'[t].i \in 1 .. Len(call[t].list), call'[t].own = call[t].own,
             Single(t),
             \/ pc'[t] \in {"reg", "loop", "finish", "dozing", "redoze"}
             \/ pc'[t] = "signal" /\ ~call'[t].timedout
      PROVE  Calling(t)'
  <2>1. Single(t)' BY <1>3 DEF Single
  <2> QED BY <1>3, <2>1 DEF Calling
<1>4. \A c \in Calls :
        /\ \A x : [c EXCEPT !.own = x].list = c.list
        /\ \A x : [c EXCEPT !.own = x].i = c.i
        /\ \A x : [c EXCEPT !.own = x].timedout = c.timedout
        /\ \A x : [c EXCEPT !.own = x].own = x
  BY DEF Calls
<1>5. ASSUME NEW e \in Events, NEW label \in {"visit", "test", "scan"},
             NEW timeout, Enter(t, e, timeout, label),
             label = "scan" => waits'[e] = waits[e]
      PROVE  Calling(t)'
  <2>1. call'[t].list = <<e>> /\ call'[t].i = 1 /\ call'[t].k = 1
    BY <1>5, EnterIs
  <2>2. call'[t].own = {} /\ ~call'[t].timedout BY <1>5, EnterIs
  <2>3. pc'[t] = label BY <1>5, EnterIs
  <2>4. Ev(t)' = e BY <2>1 DEF Ev
  <2>5. Len(<<e>>) = 1 OBVIOUS
  <2>6. waits[e] \in Seq(Entries) BY DEF LocksInv, TypesOK, WaitLists
  <2>7. Len(waits[e]) \in Nat BY <2>6, LenProperties
  <2>8. label = "scan" => 1 \in 1 .. Len(waits'[e]) + 1 BY <1>5, <2>7
  <2> QED BY <2>1, <2>2, <2>3, <2>4, <2>5, <2>8 DEF Calling
<1>6. CASE \E e \in Events : \/ SetEvent(t, e) \/ WaitForEvent(t, e)
                             \/ DestroyEvent(t, e)
  BY <1>5, <1>6 DEF SetEvent, WaitForEvent, DestroyEvent
<1>7. CASE \E e \in Events : ResetEvent(t, e) \/ CreateEvent(t, e)
  BY <1>0, <1>1, <1>7 DEF ResetEvent, CreateEvent, Calling
<1>8. CASE LockRegistered(t)
  <2>1. /\ call' = [call EXCEPT ![t].own = {Head(waits[Ev(t)]).waiter}]
        /\ pc[t] = "visit" /\ waits[Ev(t)] # <<>> /\ pc'[t] = "hand"
        /\ waits' = waits
    BY <1>0, <1>8 DEF LockRegistered, events, Goto
  <2>2. Head(waits[Ev(t)]).waiter \in Waiters BY <2>1, HandIs
  <2>3. /\ call'[t].list = call[t].list /\ call'[t].i = call[t].i
        /\ call'[t].timedout = call[t].timedout
        /\ call'[t].own = {Head(waits[Ev(t)]).waiter}
    BY <1>0, <1>4, <2>1
  <2>4. Ev(t)' = Ev(t) BY <2>3 DEF Ev
  <2>5. Single(t)' BY <2>2, <2>3 DEF Single
  <2> QED BY <1>0, <2>1, <2>3, <2>4, <2>5 DEF Calling
<1>9. CASE Expire(t)
  <2>1. /\ pc[t] = "hand" /\ pc'[t] = "visit"
        /\ call' = [call EXCEPT ![t].own = {}]
    BY <1>0, <1>9 DEF Expire, Goto
  <2> QED BY <1>0, <1>2, <1>4, <2>1 DEF Calling
<1>10. CASE Hand(t)
  <2>1. pc[t] = "hand" /\ pc'[t] = "signal" /\ call' = call
    BY <1>0, <1>10 DEF Hand, Goto
  <2> QED BY <1>0, <1>3, <2>1 DEF Calling
<1>11. CASE Signal(t)
  <2>1. CASE AutoReset(t) BY <1>0, <1>1, <1>11, <2>1 DEF Signal
  <2>2. CASE ~AutoReset(t)
    <3>1. /\ pc[t] = "signal" /\ pc'[t] = "visit"
          /\ call' = [call EXCEPT ![t].own = {}]
      BY <1>0, <1>11, <2>2 DEF Signal
    <3> QED BY <1>0, <1>2, <1>4, <3>1 DEF Calling
  <2> QED BY <2>1, <2>2
<1>12. CASE NoneRegistered(t)
  BY <1>0, <1>2, <1>12 DEF NoneRegistered, Goto, Calling
<1>13. CASE Wake(t) BY <1>0, <1>1, <1>13 DEF Wake
<1>14. CASE TakeEvent(t) \/ GiveUp(t) \/ Delete(t) \/ Finish(t)
  BY <1>0, <1>1, <1>14 DEF TakeEvent, GiveUp, Delete, Finish, Return, Goto
<1>15. CASE Sleep(t) \/ Relock(t)
  BY <1>0, <1>2, <1>15 DEF Sleep, Relock, Goto, Calling
<1>16. CASE WakeSpurious(t) \/ WakeTimedOut(t)
  <2>1. /\ call'[t].list = call[t].list /\ call'[t].i = call[t].i
        /\ call'[t].own = call[t].own
    BY <1>0, <1>16 DEF WakeSpurious, WakeTimedOut, Calls
  <2>2. \/ pc[t] = "asleep" /\ pc'[t] = "relock"
        \/ pc[t] = "dozing" /\ pc'[t] = "redoze"
    BY <1>0, <1>16 DEF WakeSpurious, WakeTimedOut, Resume, Goto
  <2> QED BY <1>0, <1>2, <1>3, <2>1, <2>2 DEF Calling
<1>17. ASSUME pc[t] \in {"scan", "drop"}, pc'[t] = "scan",
              call'[t].list = call[t].list, call'[t].i = call[t].i,
              call'[t].own = call[t].own,
              call'[t].k \in 1 .. Len(waits'[Ev(t)]) + 1
       PROVE  Calling(t)'
  <2>1. Ev(t)' = Ev(t) BY <1>17 DEF Ev
  <2>2. Single(t)' <=> Single(t) BY <1>17 DEF Single
  <2> QED BY <1>0, <1>17, <2>1, <2>2 DEF Calling
<1>18. pc[t] # "idle" =>
         waits[Ev(t)] \in Seq(Entries) /\ Len(waits[Ev(t)]) \in Nat
  BY <1>0, LenProperties DEF LocksInv, TypesOK, WaitLists
<1>19. CASE ScanBusy(t) \/ ScanKeep(t)
  <2>1. /\ pc[t] \in {"scan", "drop"} /\ pc'[t] = "scan" /\ waits' = waits
        /\ call'[t].list = call[t].list /\ call'[t].i = call[t].i
        /\ call'[t].own = call[t].own /\ call'[t].k = call[t].k + 1
    BY <1>0, <1>19 DEF ScanBusy, ScanKeep, Goto, events, Calls
  <2>2. call[t].k <= Len(waits[Ev(t)])
    BY <1>0, <1>19 DEF ScanBusy, ScanKeep, Calling
  <2>3. call[t].k + 1 \in 1 .. Len(waits[Ev(t)]) + 1
    BY <1>0, <1>18, <2>1, <2>2 DEF Calls
  <2> QED BY <1>17, <2>1, <2>3
<1>20. CASE ScanTry(t)
  <2>1. /\ pc[t] = "scan" /\ pc'[t] = "drop" /\ waits' = waits /\ call' = call
        /\ call[t].k <= Len(waits[Ev(t)]) /\ waiter[Entry(t)].holder = NoThread
    BY <1>0, <1>20 DEF ScanTry, Goto, events, Acquire
  <2>2. Entry(t) \notin call[t].own
    <3>1. Entry(t) \in Waiters BY <2>1, HandIs
    <3>2. Entry(t) \in call[t].own => Entry(t) \in Holding(t)
      BY <2>1 DEF Holding, HoldsOwn
    <3>3. Entry(t) \in call[t].own => waiter[Entry(t)].holder = t
      BY <3>1, <3>2 DEF LocksInv, LocksOK
    <3> QED BY <2>1, <3>3
  <2>3. Ev(t)' = Ev(t) BY <2>1 DEF Ev
  <2>4. Entry(t)' = Entry(t) BY <2>1, <2>3 DEF Entry
  <2>5. Single(t)' <=> Single(t) BY <2>1 DEF Single
  <2> QED BY <1>0, <2>1, <2>2, <2>3, <2>4, <2>5 DEF Calling
<1>21. CASE ScanDrop(t)
  <2>1. /\ pc[t] = "drop" /\ pc'[t] = "scan" /\ call' = call
    BY <1>0, <1>21 DEF ScanDrop, Goto
  <2>2. PICK r \in Seq(Entries) : /\ Without(waits[Ev(t)], call[t].k, r)
                                  /\ waits' = [waits EXCEPT ![Ev(t)] = r]
    BY <1>21, CutMoves
  <2>3. call[t].k \in 1 .. Len(waits[Ev(t)]) BY <1>21, CutMoves
  <2>4. waits'[Ev(t)] = r BY <1>0, <2>1, <2>2 DEF LocksInv, TypesOK, WaitLists
  <2>5. call[t].k \in 1 .. Len(r) + 1
    BY <1>18, <2>1, <2>2, <2>3 DEF Without
  <2> QED BY <1>17, <2>1, <2>4, <2>5
<1>22. CASE WaitForMultipleEvents(t)
  <2>1. PICK list \in Lists, all \in BOOLEAN, o \in Waiters \ live :
          /\ Len(list) \in Nat /\ list # <<>> /\ list \in Seq(Events)
          /\ call'[t].list = list /\ call'[t].i = 1 /\ call'[t].own = {o}
    BY <1>22, BeginIs
  <2>2. pc'[t] = "reg" BY <1>0, <1>22 DEF WaitForMultipleEvents, Goto
  <2>3. 1 \in 1 .. Len(list) BY <2>1, EmptySeq
  <2>4. Single(t)' BY <2>1 DEF Single
  <2> QED BY <2>1, <2>2, <2>3, <2>4 DEF Calling
<1>23. CASE LockNext(t)
  <2>1. /\ pc[t] = "reg" /\ pc'[t] = "scan" /\ waits' = waits
        /\ call'[t].list = call[t].list /\ call'[t].i = call[t].i
        /\ call'[t].own = call[t].own /\ call'[t].k = 1
    BY <1>0, <1>23 DEF LockNext, Goto, Calls
  <2>2. Ev(t)' = Ev(t) BY <2>1 DEF Ev
  <2>3. Single(t)' <=> Single(t) BY <2>1 DEF Single
  <2>4. 1 \in 1 .. Len(waits[Ev(t)]) + 1 BY <1>18, <2>1
  <2> QED BY <1>0, <2>1, <2>2, <2>3, <2>4 DEF Calling
<1>24. CASE ProbeFired(t) \/ Register(t)
  <2>1. pc[t] = "scan" /\ call[t].own # {}
    BY <1>24 DEF ProbeFired, Register, Scanned
  <2>2. Single(t) /\ call[t].i \in 1 .. Len(call[t].list)
    BY <1>0, <2>1 DEF Calling
  <2>3. Len(call[t].list) \in Nat BY <1>0, LenProperties DEF Calls
  <2>4. NextEvent(t) \/ (Goto(t, "finish") /\ call' = call)
    BY <1>24 DEF ProbeFired, Register
  <2>5. /\ call'[t].list = call[t].list /\ call'[t].own = call[t].own
        /\ call'[t].i \in 1 .. Len(call[t].list)
    BY <1>0, <2>2, <2>3, <2>4 DEF NextEvent, Calls
  <2>6. pc'[t] \in {"reg", "loop", "finish"}
    BY <1>0, <2>4 DEF NextEvent, Goto
  <2> QED BY <1>3, <2>1, <2>2, <2>5, <2>6
<1>25. CASE LoopEnds(t) \/ Doze(t) \/ Redoze(t)
  BY <1>0, <1>3, <1>25 DEF LoopEnds, Doze, Redoze, Goto, Calling
<1> QED BY <1>6, <1>7, <1>8, <1>9, <1>10, <1>11, <1>12, <1>13, <1>14, <1>15,
           <1>16, <1>19, <1>20, <1>21, <1>22, <1>23, <1>24, <1>25
        DEF Step, SetterStep, MultiStep, WaitStep, ScanStep

-----------------------------------------------------------------------------
(* The owners of the waiters.                                               *)

(* Only a call that begins or ends changes who owns a waiter.               *)
LEMMA OwnerKept ==
  ASSUME LocksInv, NEW t \in Threads, Step(t),
         ~WaitForMultipleEvents(t), ~Finish(t)
  PROVE  \A o : Owner(o, t)' <=> Owner(o, t)
<1>0. /\ pc \in [Threads -> Labels] /\ call \in [Threads -> Calls]
      /\ call[t] \in Calls
  BY DEF LocksInv, TypesOK
<1> DEFINE owning == HoldsOwn \cup {"dozing", "redoze"}
<1>1. ASSUME pc[t] \notin owning \/ call[t].own = {},
             pc'[t] \notin owning \/ call'[t].own = {}
      PROVE  \A o : Owner(o, t)' <=> Owner(o, t)
  BY <1>1 DEF Owner
<1>2. ASSUME pc[t] \in owning, pc'[t] \in owning, call'[t].own = call[t].own
      PROVE  \A o : Owner(o, t)' <=> Owner(o, t)
  BY <1>2 DEF Owner
<1>3. CASE \E e \in Events : \/ SetEvent(t, e) \/ WaitForEvent(t, e)
                             \/ DestroyEvent(t, e)
  <2>1. PICK e \in Events : \E label, timeout : Enter(t, e, timeout, label)
    BY <1>3 DEF SetEvent, WaitForEvent, DestroyEvent
  <2>2. PICK label, timeout : Enter(t, e, timeout, label) BY <2>1
  <2>3. call[t].own = {} /\ call'[t].own = {} BY <2>2, EnterIs
  <2> QED BY <1>1, <2>3
<1>4. CASE \E e \in Events : ResetEvent(t, e) \/ CreateEvent(t, e)
  <2>1. UNCHANGED <<pc, call>> BY <1>4 DEF ResetEvent, CreateEvent
  <2> QED BY <2>1 DEF Owner
<1>5. CASE LockRegistered(t) \/ Expire(t) \/ Hand(t) \/ Signal(t)
           \/ NoneRegistered(t) \/ Wake(t) \/ TakeEvent(t) \/ GiveUp(t)
           \/ Sleep(t) \/ Relock(t)
  <2>1. pc[t] \notin owning /\ pc'[t] \notin owning
    BY <1>0, <1>5 DEF LockRegistered, Expire, Hand, Signal, NoneRegistered,
       Wake, TakeEvent, GiveUp, Sleep, Relock, Goto, Return, HoldsOwn
  <2> QED BY <1>1, <2>1
<1>6. CASE WakeSpurious(t) \/ WakeTimedOut(t)
  <2>1. call'[t].own = call[t].own
    BY <1>0, <1>6 DEF WakeSpurious, WakeTimedOut, Calls
  <2>2. \/ pc[t] = "asleep" /\ pc'[t] = "relock"
        \/ pc[t] = "dozing" /\ pc'[t] = "redoze"
    BY <1>0, <1>6 DEF WakeSpurious, WakeTimedOut, Resume, Goto
  <2> QED BY <1>1, <1>2, <2>1, <2>2 DEF HoldsOwn
<1>7. CASE Delete(t)
  <2>1. call[t].own = {} /\ pc'[t] = "idle"
    BY <1>0, <1>7 DEF Delete, Return, Goto
  <2> QED BY <1>1, <2>1 DEF HoldsOwn
<1>8. CASE ScanStep(t)
  <2>1. call'[t].own = call[t].own
    BY <1>0, <1>8 DEF ScanStep, ScanBusy, ScanTry, ScanKeep, ScanDrop, Calls
  <2>2. pc[t] \in {"scan", "drop"} /\ pc'[t] \in {"scan", "drop"}
    BY <1>0, <1>8 DEF ScanStep, ScanBusy, ScanTry, ScanKeep, ScanDrop, Goto
  <2> QED BY <1>2, <2>1, <2>2 DEF HoldsOwn
<1>9. CASE LockNext(t) \/ ProbeFired(t) \/ Register(t) \/ LoopEnds(t)
           \/ Doze(t) \/ Redoze(t)
  <2>1. call'[t].own = call[t].own
    BY <1>0, <1>9 DEF LockNext, ProbeFired, Register, LoopEnds, Doze, Redoze,
       NextEvent, Calls
  <2>2. pc[t] \in owning /\ pc'[t] \in owning
    BY <1>0, <1>9 DEF LockNext, ProbeFired, Register, LoopEnds, Doze, Redoze,
       NextEvent, Goto, Scanned, HoldsOwn
  <2> QED BY <1>2, <2>1, <2>2
<1> QED BY <1>3, <1>4, <1>5, <1>6, <1>7, <1>8, <1>9
        DEF Step, SetterStep, MultiStep, WaitStep

(* Waiters change their owner when a call begins or ends, only.             *)
LEMMA OwnersSame ==
  ASSUME LocksInv, NEW t \in Threads, Step(t),
         ~WaitForMultipleEvents(t), ~Finish(t)
  PROVE  /\ \A o : \A u \in Threads : Owner(o, u)' <=> Owner(o, u)
         /\ \A o : Owned(o)' = Owned(o)
<1>1. \A o : Owner(o, t)' <=> Owner(o, t) BY OwnerKept
<1>2. \A o : \A u \in Threads \ {t} : Owner(o, u)' <=> Owner(o, u)
  BY OthersStay
<1>3. \A o : \A u \in Threads : Owner(o, u)' <=> Owner(o, u) BY <1>1, <1>2
<1> QED BY <1>3 DEF Owned

(* A call that begins owns a new waiter; one that ends owns none.           *)
LEMMA OwnerBegins ==
  ASSUME LocksInv, NEW t \in Threads, Step(t), WaitForMultipleEvents(t),
         NEW o \in Waiters \ live, call'[t].own = {o}
  PROVE  /\ \A p : Owner(p, t)' <=> p = o
         /\ \A p : Owned(p)' = IF p = o THEN 1 ELSE Owned(p)
         /\ \A u \in Threads : ~Owner(o, u)
<1>1. pc[t] = "idle" /\ pc'[t] = "reg"
  BY DEF WaitForMultipleEvents, Goto, LocksInv, TypesOK
<1>2. \A p : ~Owner(p, t) BY <1>1 DEF Owner, HoldsOwn
<1>3. \A p : Owner(p, t)' <=> p = o BY <1>1 DEF Owner, HoldsOwn
<1>4. \A p : \A u \in Threads \ {t} : Owner(p, u)' <=> Owner(p, u)
  BY OthersStay
<1>5. \A u \in Threads : ~Owner(o, u) BY Alive
<1>6. \A p : Owned(p)' = IF p = o THEN 1 ELSE Owned(p)
  BY <1>2, <1>3, <1>4 DEF Owned
<1> QED BY <1>3, <1>5, <1>6

(* A call that ends owns no waiter any more.                                *)
LEMMA OwnerEnds ==
  ASSUME LocksInv, NEW t \in Threads, Step(t), Finish(t)
  PROVE  /\ Own(t) \in Waiters
         /\ \A p : ~Owner(p, t)'
         /\ \A p \in Waiters : Owned(p)' = IF p = Own(t) THEN 0 ELSE Owned(p)
         /\ Owned(Own(t)) = 1
<1>1. pc[t] = "finish" /\ pc'[t] = "idle"
  BY DEF Finish, Return, Goto, LocksInv, TypesOK
<1>2. Own(t) \in Waiters /\ call[t].own = {Own(t)} BY <1>1, OwnWaiter
<1>3. \A p : Owner(p, t) <=> p = Own(t) BY <1>1, <1>2 DEF Owner, HoldsOwn
<1>4. \A p : ~Owner(p, t)' BY <1>1 DEF Owner, HoldsOwn
<1>5. \A p : \A u \in Threads \ {t} : Owner(p, u)' <=> Owner(p, u)
  BY OthersStay
<1>6. \A u \in Threads \ {t} : ~Owner(Own(t), u)
  BY <1>2, <1>3 DEF LocksInv, OwnersOK
<1>7. \A p \in Waiters : Owned(p)' = IF p = Own(t) THEN 0 ELSE Owned(p)
  BY <1>3, <1>4, <1>5, <1>6 DEF Owned
<1> QED BY <1>2, <1>3, <1>4, <1>7 DEF Owned

(* No step gives a waiter a second owner.                                   *)
LEMMA OwnersStep ==
  ASSUME LocksInv, NEW t \in Threads, Step(t)
  PROVE  OwnersOK'
<1>0. OwnersOK BY DEF LocksInv
<1>1. CASE WaitForMultipleEvents(t)
  <2>1. PICK o \in Waiters \ live : call'[t].own = {o} BY <1>1, BeginIs
  <2>2. /\ \A p : Owner(p, t)' <=> p = o
        /\ \A u \in Threads : ~Owner(o, u)
    BY <1>1, <2>1, OwnerBegins
  <2>3. \A p : \A u \in Threads \ {t} : Owner(p, u)' <=> Owner(p, u)
    BY OthersStay
  <2> QED BY <1>0, <2>2, <2>3 DEF OwnersOK
<1>2. CASE Finish(t)
  <2>1. \A p : ~Owner(p, t)' BY <1>2, OwnerEnds
  <2>2. \A p : \A u \in Threads \ {t} : Owner(p, u)' <=> Owner(p, u)
    BY OthersStay
  <2> QED BY <1>0, <2>1, <2>2 DEF OwnersOK
<1>3. CASE ~WaitForMultipleEvents(t) /\ ~Finish(t)
  <2>1. \A o : \A u \in Threads : Owner(o, u)' <=> Owner(o, u)
    BY <1>3, OwnersSame
  <2> QED BY <1>0, <2>1 DEF OwnersOK
<1> QED BY <1>1, <1>2, <1>3

-----------------------------------------------------------------------------
(* The references to the waiters.                                           *)

(* A step that touches no registration and no reference.                    *)
LEMMA RefsKept ==
  ASSUME LocksInv, NEW t \in Threads, Step(t),
         ~WaitForMultipleEvents(t), ~Finish(t), UNCHANGED <<waits, leaked>>,
         \A o \in Waiters : waiter'[o].refs = waiter[o].refs
  PROVE  RefsOK'
<1>1. \A o : Owned(o)' = Owned(o) BY OwnersSame
<1>2. \A o : NumPlaces(waits, o)' = NumPlaces(waits, o) OBVIOUS
<1> QED BY <1>1, <1>2 DEF RefsOK, LocksInv

(* What a step that unlocks waiter o drops from its references it drops     *)
(* from the lists.                                                          *)
LEMMA RefsDropped ==
  ASSUME LocksInv, NEW t \in Threads, Step(t),
         ~WaitForMultipleEvents(t), ~Finish(t), leaked' = leaked,
         NEW e \in Events, NEW k \in 1 .. Len(waits[e]),
         NEW r \in Seq(Entries), Without(waits[e], k, r),
         waits' = [waits EXCEPT ![e] = r],
         NEW o \in Waiters, waits[e][k].waiter = o,
         \A p \in Waiters \ {o} : waiter'[p].refs = waiter[p].refs,
         waiter'[o].refs = waiter[o].refs - 1
  PROVE  RefsOK'
<1>1. \A p : Owned(p)' = Owned(p) BY OwnersSame
<1>2. waits \in WaitLists BY DEF LocksInv, TypesOK
<1>3. ASSUME NEW p \in Waiters
      PROVE  NumPlaces(waits, p) =
               NumPlaces(waits', p) + (IF o = p THEN 1 ELSE 0)
  <2>1. NumPlaces(waits, p) = NumPlaces(waits', p)
                              + (IF waits[e][k].waiter = p THEN 1 ELSE 0)
    <3>1. waits' = Put(waits, e, r) BY DEF Put
    <3> QED BY ONLY <1>2, <3>1, CountRemove, e \in Events,
            k \in 1 .. Len(waits[e]), r \in Seq(Entries),
            Without(waits[e], k, r)
  <2> QED BY <2>1
<1>4. waits' \in WaitLists BY <1>2 DEF WaitLists
<1>5. \A p : NumPlaces(waits, p) \in Nat /\ NumPlaces(waits', p) \in Nat
  BY <1>2, <1>4, CountType
<1>6. \A p \in Waiters :
        waiter[p].refs = NumPlaces(waits, p) + leaked[p] + Owned(p)
  BY DEF LocksInv, RefsOK
<1>7. \A p \in Waiters : leaked[p] \in Nat /\ Owned(p) \in Nat
  BY DEF LocksInv, TypesOK, Owned
<1>8. ASSUME NEW p \in Waiters
      PROVE  waiter'[p].refs = NumPlaces(waits', p) + leaked[p] + Owned(p)
  <2>0. /\ NumPlaces(waits, p) \in Nat /\ NumPlaces(waits', p) \in Nat
        /\ leaked[p] \in Nat /\ Owned(p) \in Nat
    BY <1>5, <1>7
  <2>3. NumPlaces(waits, p) = NumPlaces(waits', p) + (IF o = p THEN 1 ELSE 0)
    BY <1>3
  <2>1. CASE p = o
    <3>1. NumPlaces(waits, p) = NumPlaces(waits', p) + 1 BY <2>1, <2>3
    <3>2. waiter'[p].refs = waiter[p].refs - 1 BY <2>1
    <3>3. waiter[p].refs = NumPlaces(waits, p) + leaked[p] + Owned(p) BY <1>6
    <3>4. waiter'[p].refs =
            (NumPlaces(waits', p) + 1 + leaked[p] + Owned(p)) - 1
      BY <3>1, <3>2, <3>3
    <3> QED BY <2>0, <3>4
  <2>2. CASE p # o
    <3>1. NumPlaces(waits, p) = NumPlaces(waits', p) BY <2>0, <2>2, <2>3
    <3> QED BY <1>6, <2>2, <3>1
  <2> QED BY <2>1, <2>2
<1>9. \A p : NumPlaces(waits, p)' = NumPlaces(waits', p)
  BY DEF NumPlaces, Places, PlacesIn
<1> QED BY <1>1, <1>8, <1>9 DEF RefsOK

(* RefCount is kept up by every step.                                       *)
LEMMA RefsStep ==
  ASSUME LocksInv, NEW t \in Threads, Step(t)
  PROVE  RefsOK'
<1>0. /\ waiter \in [Waiters -> Objects] /\ pc \in [Threads -> Labels]
      /\ call \in [Threads -> Calls] /\ waits \in WaitLists
      /\ \A p \in Waiters : leaked[p] \in Nat /\ Owned(p) \in Nat
      /\ \A p : NumPlaces(waits, p) \in Nat
      /\ \A p \in Waiters :
           waiter[p].refs = NumPlaces(waits, p) + leaked[p] + Owned(p)
  BY CountType DEF LocksInv, TypesOK, RefsOK, Owned
<1>1. CASE Expire(t) \/ Hand(t)
  <2>1. pc[t] = "hand" /\ waits' = [waits EXCEPT ![Ev(t)] = Tail(@)]
        /\ leaked' = leaked
    BY <1>1 DEF Expire, Hand
  <2>2. /\ Ev(t) \in Events /\ 1 \in 1 .. Len(waits[Ev(t)])
        /\ waits[Ev(t)][1].waiter = Own(t)
        /\ Tail(waits[Ev(t)]) \in Seq(Entries)
        /\ Without(waits[Ev(t)], 1, Tail(waits[Ev(t)]))
    BY <2>1, TailMoves
  <2>3. /\ Own(t) \in Waiters /\ waiter[Own(t)] \in Objects
        /\ waiter[Own(t)].refs > 0
    BY <2>1, OwnWaiter
  <2>4. PICK w \in Objects : /\ Release(Own(t), w)
                             /\ w.refs = waiter[Own(t)].refs - 1
    <3>1. CASE Expire(t)
      <4>1. Release(Own(t), [waiter[Own(t)] EXCEPT !.refs = @ - 1])
        BY <3>1 DEF Expire
      <4> QED BY <2>3, <4>1, LessRefs
    <3>2. CASE Hand(t)
      <4> DEFINE w == Fired(waiter[Own(t)], Head(waits[Ev(t)]).index)
      <4>1. Release(Own(t), [w EXCEPT !.refs = @ - 1, !.still = w.all])
        BY <3>2 DEF Hand
      <4>2. Head(waits[Ev(t)]).index \in Int
        <5>1. waits[Ev(t)] # <<>> BY <2>1 DEF LocksInv, Calling
        <5> QED BY <2>1, <5>1, HandIs DEF Entries
      <4>3. w \in Objects /\ w.refs = waiter[Own(t)].refs
        BY <2>3, <4>2, FiredIs
      <4> HIDE DEF w
      <4>4. w.all \in BOOLEAN BY <4>3 DEF Objects
      <4>5. /\ [w EXCEPT !.refs = @ - 1, !.still = w.all] \in Objects
            /\ [w EXCEPT !.refs = @ - 1, !.still = w.all].refs = w.refs - 1
        <5>1. w.refs > 0 /\ w \in Objects BY <2>3, <4>3
        <5>2. [w EXCEPT !.refs = @ - 1, !.still = w.all] \in Objects
          BY <4>4, <5>1, LessRefs
        <5>3. [w EXCEPT !.refs = @ - 1, !.still = w.all].refs = w.refs - 1
          BY <5>1 DEF Objects
        <5> QED BY <5>2, <5>3
      <4> QED BY <4>1, <4>3, <4>5
    <3> QED BY <1>1, <3>1, <3>2
  <2>5. /\ \A p \in Waiters \ {Own(t)} : waiter'[p].refs = waiter[p].refs
        /\ waiter'[Own(t)].refs = waiter[Own(t)].refs - 1
    BY <1>0, <2>3, <2>4, ReleaseIs
  <2>6. ~WaitForMultipleEvents(t) /\ ~Finish(t)
    BY <2>1 DEF WaitForMultipleEvents, Finish
  <2> QED BY <2>1, <2>2, <2>3, <2>5, <2>6, RefsDropped
<1>2. CASE ScanDrop(t)
  <2>1. /\ pc[t] = "drop" /\ leaked' = leaked
        /\ Release(Entry(t), [waiter[Entry(t)] EXCEPT !.refs = @ - 1])
    BY <1>2 DEF ScanDrop
  <2>2. Ev(t) \in Events /\ call[t].k \in 1 .. Len(waits[Ev(t)])
    BY <1>2, CutMoves
  <2>3. PICK r \in Seq(Entries) : /\ Without(waits[Ev(t)], call[t].k, r)
                                  /\ waits' = [waits EXCEPT ![Ev(t)] = r]
    BY <1>2, CutMoves
  <2>4. call[t].k <= Len(waits[Ev(t)]) BY <2>1 DEF LocksInv, Calling
  <2>5. Entry(t) \in Waiters /\ waiter[Entry(t)].refs > 0 BY <2>1, <2>4, HandIs
  <2>6. waits[Ev(t)][call[t].k].waiter = Entry(t) BY DEF Entry
  <2>7. waiter[Entry(t)] \in Objects BY <1>0, <2>5
  <2>8. /\ [waiter[Entry(t)] EXCEPT !.refs = @ - 1] \in Objects
        /\ [waiter[Entry(t)] EXCEPT !.refs = @ - 1].refs
             = waiter[Entry(t)].refs - 1
    BY <2>5, <2>7, LessRefs
  <2>9. /\ \A p \in Waiters \ {Entry(t)} : waiter'[p].refs = waiter[p].refs
        /\ waiter'[Entry(t)].refs = waiter[Entry(t)].refs - 1
    BY <1>0, <2>1, <2>5, <2>8, ReleaseIs
  <2>10. ~WaitForMultipleEvents(t) /\ ~Finish(t)
    BY <2>1 DEF WaitForMultipleEvents, Finish
  <2> QED BY <2>1, <2>2, <2>3, <2>5, <2>6, <2>9, <2>10, RefsDropped
<1>3. CASE Register(t)
  <2> DEFINE x == [waiter |-> Own(t), index |-> call[t].i - 1]
  <2>1. /\ Ev(t) \in Events /\ Own(t) \in Waiters /\ x \in Entries
        /\ waits' = [waits EXCEPT ![Ev(t)] = Append(@, x)]
    BY <1>3, AppendMoves
  <2>2. /\ waiter' = [waiter EXCEPT ![Own(t)].refs = @ + 1] /\ leaked' = leaked
        /\ pc[t] = "scan"
    BY <1>3 DEF Register, Scanned
  <2>3. x.waiter = Own(t) OBVIOUS
  <2> HIDE DEF x
  <2>4. ASSUME NEW p \in Waiters
        PROVE  NumPlaces(waits', p) =
                 NumPlaces(waits, p) + (IF Own(t) = p THEN 1 ELSE 0)
    <3>1. NumPlaces(waits', p) =
            NumPlaces(waits, p) + (IF x.waiter = p THEN 1 ELSE 0)
      <4>1. waits' = Put(waits, Ev(t), Append(waits[Ev(t)], x))
        BY <2>1 DEF Put
      <4>2. waits \in WaitLists /\ Ev(t) \in Events /\ x \in Entries
        BY <1>0, <2>1
      <4> QED BY ONLY <4>1, <4>2, CountAppend
    <3> QED BY <2>1, <2>3, <3>1
  <2>5. ~WaitForMultipleEvents(t) /\ ~Finish(t)
    BY <2>2 DEF WaitForMultipleEvents, Finish
  <2>6. \A p : Owned(p)' = Owned(p) BY <2>5, OwnersSame
  <2>7. waiter[Own(t)] \in Objects BY <1>0, <2>1
  <2>8. /\ waiter'[Own(t)].refs = waiter[Own(t)].refs + 1
        /\ \A p \in Waiters \ {Own(t)} : waiter'[p] = waiter[p]
    BY <1>0, <2>1, <2>2, <2>7 DEF Objects
  <2>9. ASSUME NEW p \in Waiters
        PROVE  waiter'[p].refs = NumPlaces(waits', p) + leaked[p] + Owned(p)
    <3>0. /\ NumPlaces(waits, p) \in Nat /\ leaked[p] \in Nat
          /\ Owned(p) \in Nat
          /\ waiter[p].refs = NumPlaces(waits, p) + leaked[p] + Owned(p)
          /\ NumPlaces(waits', p) =
               NumPlaces(waits, p) + (IF Own(t) = p THEN 1 ELSE 0)
      BY <1>0, <2>4
    <3>1. CASE p = Own(t)
      <4>1. waiter'[p].refs = waiter[p].refs + 1 BY <2>8, <3>1
      <4>2. NumPlaces(waits', p) = NumPlaces(waits, p) + 1 BY <3>0, <3>1
      <4> QED BY ONLY <3>0, <4>1, <4>2
    <3>2. CASE p # Own(t)
      <4>1. NumPlaces(waits', p) = NumPlaces(waits, p) BY <1>0, <2>4, <3>2
      <4> QED BY <1>0, <2>8, <3>2, <4>1
    <3> QED BY <3>1, <3>2
  <2>10. \A p : NumPlaces(waits, p)' = NumPlaces(waits', p)
    BY DEF NumPlaces, Places, PlacesIn
  <2> QED BY <2>2, <2>6, <2>9, <2>10 DEF RefsOK
<1>4. CASE Delete(t)
  <2>1. /\ leaked' = [o \in Waiters |->
                        leaked[o] + Cardinality(Registrations(o, Ev(t)))]
        /\ waits' = [waits EXCEPT ![Ev(t)] = <<>>] /\ pc[t] = "scan"
        /\ waiter' = waiter
    BY <1>4 DEF Delete, Scanned
  <2>2. Ev(t) \in Events BY <2>1, HandIs
  <2>3. ASSUME NEW p \in Waiters
        PROVE  /\ Cardinality(Registrations(p, Ev(t))) \in Nat
               /\ NumPlaces(waits, p) =
                    NumPlaces(waits', p) + Cardinality(Registrations(p, Ev(t)))
    <3>1. Registrations(p, Ev(t)) = PlacesIn(waits, p, Ev(t))
      BY DEF Registrations, PlacesIn
    <3>2. waits' = Put(waits, Ev(t), <<>>) BY <2>1 DEF Put
    <3> QED BY <1>0, <2>2, <3>1, <3>2, CountClear
  <2>4. waits' \in WaitLists BY <1>0, <2>1, <2>2 DEF WaitLists
  <2>5. \A p : NumPlaces(waits', p) \in Nat BY <2>4, CountType
  <2>6. ~WaitForMultipleEvents(t) /\ ~Finish(t)
    BY <2>1 DEF WaitForMultipleEvents, Finish
  <2>7. \A p : Owned(p)' = Owned(p) BY <2>6, OwnersSame
  <2>8. ASSUME NEW p \in Waiters
        PROVE  waiter'[p].refs = NumPlaces(waits', p) + leaked'[p] + Owned(p)
    <3>1. leaked'[p] = leaked[p] + Cardinality(Registrations(p, Ev(t)))
      BY <2>1
    <3>2. /\ Cardinality(Registrations(p, Ev(t))) \in Nat
          /\ NumPlaces(waits, p) =
               NumPlaces(waits', p) + Cardinality(Registrations(p, Ev(t)))
      BY <2>3
    <3>3. /\ NumPlaces(waits', p) \in Nat /\ waiter'[p].refs = waiter[p].refs
          /\ leaked[p] \in Nat /\ Owned(p) \in Nat
      BY <1>0, <2>1, <2>5
    <3>4. waiter[p].refs = NumPlaces(waits, p) + leaked[p] + Owned(p) BY <1>0
    <3> QED BY ONLY <3>1, <3>2, <3>3, <3>4
  <2>9. \A p : NumPlaces(waits, p)' = NumPlaces(waits', p)
    BY DEF NumPlaces, Places, PlacesIn
  <2> QED BY <2>7, <2>8, <2>9 DEF RefsOK
<1>5. CASE WaitForMultipleEvents(t)
  <2>1. PICK list \in Lists, all \in BOOLEAN, o \in Waiters \ live :
          /\ \A p \in Waiters \ {o} : waiter'[p] = waiter[p]
          /\ waiter'[o] = [holder |-> t, refs |-> 1, all |-> all,
                           still |-> TRUE,
                           status |-> IF all THEN Len(list) ELSE -1]
          /\ call'[t].own = {o}
    BY <1>5, BeginIs
  <2>2. UNCHANGED <<waits, leaked>> BY <1>5 DEF WaitForMultipleEvents, events
  <2>3. \A p : Owned(p)' = IF p = o THEN 1 ELSE Owned(p)
    BY <1>5, <2>1, OwnerBegins
  <2>4. waiter[o].refs = 0 BY DEF LocksInv, UnusedOK, Blank
  <2>5. NumPlaces(waits, o) = 0 /\ leaked[o] = 0 BY <1>0, <2>4
  <2>6. waiter'[o].refs = 1 BY <2>1
  <2>7. ASSUME NEW p \in Waiters
        PROVE  waiter'[p].refs = NumPlaces(waits, p) + leaked[p] + Owned(p)'
    BY <1>0, <2>1, <2>3, <2>5, <2>6
  <2>8. \A p : NumPlaces(waits, p)' = NumPlaces(waits, p) BY <2>2
  <2> QED BY <2>2, <2>7, <2>8 DEF RefsOK
<1>6. CASE Finish(t)
  <2>1. /\ Own(t) \in Waiters /\ Owned(Own(t)) = 1
        /\ \A p \in Waiters : Owned(p)' = IF p = Own(t) THEN 0 ELSE Owned(p)
    BY <1>6, OwnerEnds
  <2>2. /\ UNCHANGED <<waits, leaked>> /\ pc[t] = "finish"
        /\ Release(Own(t), [waiter[Own(t)] EXCEPT !.refs = @ - 1,
                                                  !.still = FALSE])
    BY <1>6 DEF Finish, events
  <2>3. waiter[Own(t)] \in Objects /\ waiter[Own(t)].refs > 0
    BY <2>2, OwnWaiter
  <2>4. /\ [waiter[Own(t)] EXCEPT !.refs = @ - 1, !.still = FALSE] \in Objects
        /\ [waiter[Own(t)] EXCEPT !.refs = @ - 1, !.still = FALSE].refs
             = waiter[Own(t)].refs - 1
    BY <2>3, LessRefs
  <2>5. /\ \A p \in Waiters \ {Own(t)} : waiter'[p] = waiter[p]
        /\ waiter'[Own(t)].refs = waiter[Own(t)].refs - 1
    BY <1>0, <2>1, <2>2, <2>4, ReleaseIs
  <2>6. ASSUME NEW p \in Waiters
        PROVE  waiter'[p].refs = NumPlaces(waits, p) + leaked[p] + Owned(p)'
    BY <1>0, <2>1, <2>5
  <2>7. \A p : NumPlaces(waits, p)' = NumPlaces(waits, p) BY <2>2
  <2> QED BY <2>2, <2>6, <2>7 DEF RefsOK
<1>7. CASE ScanKeep(t) \/ Doze(t)
  <2>1. UNCHANGED <<waits, leaked>> BY <1>7 DEF ScanKeep, Doze, events
  <2>2. ASSUME NEW o \in Waiters, Release(o, waiter[o])
        PROVE  \A p \in Waiters : waiter'[p].refs = waiter[p].refs
    <3>1. waiter[o] \in Objects BY <1>0
    <3> QED BY <1>0, <2>2, <3>1, ReleaseIs
  <2>3. \E o \in Waiters : Release(o, waiter[o])
    <3>1. CASE ScanKeep(t)
      <4>1. pc[t] = "drop" BY <3>1 DEF ScanKeep
      <4>2. call[t].k <= Len(waits[Ev(t)]) BY <4>1 DEF LocksInv, Calling
      <4>3. Entry(t) \in Waiters BY <4>1, <4>2, HandIs
      <4> QED BY <3>1, <4>3 DEF ScanKeep
    <3>2. CASE Doze(t)
      <4>1. pc[t] = "loop" BY <3>2 DEF Doze
      <4>2. Own(t) \in Waiters BY <4>1, OwnWaiter
      <4> QED BY <3>2, <4>2 DEF Doze
    <3> QED BY <1>7, <3>1, <3>2
  <2>4. ~WaitForMultipleEvents(t) /\ ~Finish(t)
    BY <1>7 DEF WaitForMultipleEvents, Finish, ScanKeep, Doze
  <2> QED BY <2>1, <2>2, <2>3, <2>4, RefsKept
<1>8. CASE LockRegistered(t) \/ ScanTry(t) \/ Redoze(t)
  <2>1. UNCHANGED <<waits, leaked>>
    BY <1>8 DEF LockRegistered, ScanTry, Redoze, events
  <2>2. ASSUME NEW o \in Waiters, Acquire(o, t)
        PROVE  \A p \in Waiters : waiter'[p].refs = waiter[p].refs
    BY <1>0, <2>2, AcquireIs
  <2>3. \E o \in Waiters : Acquire(o, t)
    <3>1. CASE LockRegistered(t)
      <4>1. pc[t] = "visit" /\ waits[Ev(t)] # <<>>
        BY <3>1 DEF LockRegistered
      <4>2. Head(waits[Ev(t)]).waiter \in Waiters BY <4>1, HandIs
      <4> QED BY <3>1, <4>2 DEF LockRegistered
    <3>2. CASE ScanTry(t)
      <4>1. pc[t] = "scan" /\ call[t].k <= Len(waits[Ev(t)])
        BY <3>2 DEF ScanTry
      <4>2. Entry(t) \in Waiters BY <4>1, HandIs
      <4> QED BY <3>2, <4>2 DEF ScanTry
    <3>3. CASE Redoze(t)
      <4>1. pc[t] = "redoze" BY <3>3 DEF Redoze
      <4>2. Own(t) \in Waiters BY <4>1, OwnWaiter
      <4> QED BY <3>3, <4>2 DEF Redoze
    <3> QED BY <1>8, <3>1, <3>2, <3>3
  <2>4. ~WaitForMultipleEvents(t) /\ ~Finish(t)
    BY <1>8 DEF WaitForMultipleEvents, Finish, LockRegistered, ScanTry, Redoze
  <2> QED BY <2>1, <2>2, <2>3, <2>4, RefsKept
<1>9. CASE ProbeFired(t)
  <2>1. /\ UNCHANGED <<waits, leaked>> /\ pc[t] = "scan" /\ call[t].own # {}
        /\ waiter' = [waiter EXCEPT ![Own(t)] = Fired(@, call[t].i - 1)]
    BY <1>9 DEF ProbeFired, Scanned
  <2>2. Own(t) \in Waiters /\ waiter[Own(t)] \in Objects BY <2>1, OwnWaiter
  <2>3. call[t].i - 1 \in Int
    <3>1. call[t] \in Calls BY <1>0
    <3> QED BY <3>1 DEF Calls
  <2>4. Fired(waiter[Own(t)], call[t].i - 1).refs = waiter[Own(t)].refs
    BY <2>2, <2>3, FiredIs
  <2>5. \A p \in Waiters : waiter'[p].refs = waiter[p].refs
    BY <1>0, <2>1, <2>2, <2>4
  <2>6. ~WaitForMultipleEvents(t) /\ ~Finish(t)
    BY <2>1 DEF WaitForMultipleEvents, Finish
  <2> QED BY <2>1, <2>5, <2>6, RefsKept
<1>10. CASE ~WaitForMultipleEvents(t) /\ ~Finish(t)
            /\ UNCHANGED <<waits, leaked, waiter>>
  BY <1>10, RefsKept
<1> QED
  <2>1. CASE \E e \in Events : \/ SetEvent(t, e) \/ ResetEvent(t, e)
                               \/ WaitForEvent(t, e) \/ CreateEvent(t, e)
                               \/ DestroyEvent(t, e)
    <3>1. UNCHANGED <<waits, leaked, waiter>>
      BY <2>1 DEF SetEvent, ResetEvent, WaitForEvent, CreateEvent, DestroyEvent
    <3> QED BY <1>5, <1>6, <1>10, <3>1
  <2>2. CASE Signal(t) \/ NoneRegistered(t) \/ Wake(t) \/ TakeEvent(t)
             \/ GiveUp(t) \/ Sleep(t) \/ Relock(t) \/ WakeSpurious(t)
             \/ WakeTimedOut(t) \/ ScanBusy(t) \/ LockNext(t) \/ LoopEnds(t)
    <3>1. UNCHANGED <<waits, leaked, waiter>>
      BY <2>2 DEF Signal, NoneRegistered, Wake, TakeEvent, GiveUp, Sleep,
         Relock, WakeSpurious, WakeTimedOut, ScanBusy, LockNext, LoopEnds,
         events
    <3> QED BY <1>5, <1>6, <1>10, <3>1
  <2> QED BY <1>1, <1>2, <1>3, <1>4, <1>5, <1>6, <1>7, <1>8, <1>9, <2>1, <2>2
          DEF Step, SetterStep, MultiStep, WaitStep, ScanStep

-----------------------------------------------------------------------------
(* The waiters that are not in use.                                         *)

(* A step changes the waiter it works on, or nothing of the waiters.        *)
LEMMA WaiterTouched ==
  ASSUME LocksInv, NEW t \in Threads, Step(t), ~WaitForMultipleEvents(t)
  PROVE  \/ waiter' = waiter /\ live' = live
         \/ \E o \in live : Acquire(o, t) /\ live' = live
         \/ \E o \in live : \E w \in Objects :
              /\ Release(o, w) /\ w.all = waiter[o].all
              /\ \/ w.status = waiter[o].status /\ w.still = waiter[o].still
                 \/ Finish(t) /\ w.status = waiter[o].status
                 \/ Hand(t)
         \/ /\ ProbeFired(t) \/ Register(t)
            /\ Own(t) \in live /\ live' = live
            /\ \A p \in Waiters \ {Own(t)} : waiter'[p] = waiter[p]
            /\ waiter'[Own(t)].all = waiter[Own(t)].all
            /\ waiter'[Own(t)].still = waiter[Own(t)].still
<1>0. /\ waiter \in [Waiters -> Objects] /\ live \subseteq Waiters
      /\ call[t] \in Calls
  BY DEF LocksInv, TypesOK
<1>1. CASE Expire(t)
  <2>1. /\ pc[t] = "hand"
        /\ Release(Own(t), [waiter[Own(t)] EXCEPT !.refs = @ - 1])
    BY <1>1 DEF Expire
  <2>2. /\ Own(t) \in live /\ waiter[Own(t)] \in Objects
        /\ waiter[Own(t)].refs > 0
    BY <2>1, OwnWaiter
  <2> DEFINE w == [waiter[Own(t)] EXCEPT !.refs = @ - 1]
  <2>3. /\ w \in Objects /\ w.all = waiter[Own(t)].all
        /\ w.status = waiter[Own(t)].status /\ w.still = waiter[Own(t)].still
    BY <2>2, LessRefs
  <2> HIDE DEF w
  <2>4. Release(Own(t), w) BY <2>1 DEF w
  <2> QED BY <2>2, <2>3, <2>4
<1>2. CASE Hand(t)
  <2> DEFINE w == Fired(waiter[Own(t)], Head(waits[Ev(t)]).index)
  <2>1. /\ pc[t] = "hand"
        /\ Release(Own(t), [w EXCEPT !.refs = @ - 1, !.still = w.all])
    BY <1>2 DEF Hand
  <2>2. /\ Own(t) \in live /\ waiter[Own(t)] \in Objects
        /\ waiter[Own(t)].refs > 0
    BY <2>1, OwnWaiter
  <2>3. Head(waits[Ev(t)]).index \in Int
    <3>1. waits[Ev(t)] # <<>> BY <2>1 DEF LocksInv, Calling
    <3> QED BY <2>1, <3>1, HandIs DEF Entries
  <2>4. /\ w \in Objects /\ w.refs = waiter[Own(t)].refs
        /\ w.all = waiter[Own(t)].all
    BY <2>2, <2>3, FiredIs
  <2> HIDE DEF w
  <2>5. w.all \in BOOLEAN /\ w.refs > 0 BY <2>2, <2>4 DEF Objects
  <2>6. [w EXCEPT !.refs = @ - 1, !.still = w.all] \in Objects
    BY <2>4, <2>5, LessRefs
  <2>7. [w EXCEPT !.refs = @ - 1, !.still = w.all].all = w.all
    BY <2>4 DEF Objects
  <2> QED BY <1>2, <2>1, <2>2, <2>4, <2>6, <2>7
<1>3. CASE ScanDrop(t) \/ ScanKeep(t)
  <2>1. pc[t] = "drop" BY <1>3 DEF ScanDrop, ScanKeep
  <2>2. call[t].k <= Len(waits[Ev(t)]) BY <2>1 DEF LocksInv, Calling
  <2>3. Entry(t) \in live /\ waiter[Entry(t)].refs > 0 BY <2>1, <2>2, HandIs
  <2>4. waiter[Entry(t)] \in Objects BY <1>0, <2>3
  <2>5. \/ Release(Entry(t), [waiter[Entry(t)] EXCEPT !.refs = @ - 1])
        \/ Release(Entry(t), waiter[Entry(t)])
    BY <1>3 DEF ScanDrop, ScanKeep
  <2> DEFINE w == [waiter[Entry(t)] EXCEPT !.refs = @ - 1]
  <2>6. /\ w \in Objects /\ w.all = waiter[Entry(t)].all
        /\ w.status = waiter[Entry(t)].status
        /\ w.still = waiter[Entry(t)].still
    BY <2>3, <2>4, LessRefs
  <2> HIDE DEF w
  <2>7. Release(Entry(t), w) \/ Release(Entry(t), waiter[Entry(t)])
    BY <2>5 DEF w
  <2> QED BY <2>3, <2>4, <2>6, <2>7
<1>4. CASE Doze(t)
  <2>1. pc[t] = "loop" /\ Release(Own(t), waiter[Own(t)]) BY <1>4 DEF Doze
  <2>2. Own(t) \in live /\ waiter[Own(t)] \in Objects BY <2>1, OwnWaiter
  <2> QED BY <2>1, <2>2
<1>5. CASE Finish(t)
  <2>1. /\ pc[t] = "finish"
        /\ Release(Own(t), [waiter[Own(t)] EXCEPT !.refs = @ - 1,
                                                  !.still = FALSE])
    BY <1>5 DEF Finish
  <2>2. /\ Own(t) \in live /\ waiter[Own(t)] \in Objects
        /\ waiter[Own(t)].refs > 0
    BY <2>1, OwnWaiter
  <2> DEFINE w == [waiter[Own(t)] EXCEPT !.refs = @ - 1, !.still = FALSE]
  <2>3. w \in Objects BY <2>2, LessRefs
  <2>4. w.all = waiter[Own(t)].all /\ w.status = waiter[Own(t)].status
    BY <2>2 DEF Objects
  <2> HIDE DEF w
  <2>5. Release(Own(t), w) BY <2>1 DEF w
  <2> QED BY <1>5, <2>2, <2>3, <2>4, <2>5
<1>6. CASE LockRegistered(t)
  <2>1. pc[t] = "visit" /\ waits[Ev(t)] # <<>> /\ live' = live
    BY <1>6 DEF LockRegistered
  <2>2. Head(waits[Ev(t)]).waiter \in live BY <2>1, HandIs
  <2> QED BY <1>6, <2>1, <2>2 DEF LockRegistered
<1>7. CASE ScanTry(t)
  <2>1. pc[t] = "scan" /\ call[t].k <= Len(waits[Ev(t)]) /\ live' = live
    BY <1>7 DEF ScanTry
  <2>2. Entry(t) \in live BY <2>1, HandIs
  <2> QED BY <1>7, <2>1, <2>2 DEF ScanTry
<1>8. CASE Redoze(t)
  <2>1. pc[t] = "redoze" /\ live' = live BY <1>8 DEF Redoze
  <2>2. Own(t) \in live BY <2>1, OwnWaiter
  <2> QED BY <1>8, <2>1, <2>2 DEF Redoze
<1>9. CASE ProbeFired(t) \/ Register(t)
  <2>1. pc[t] = "scan" /\ call[t].own # {} /\ live' = live
    BY <1>9 DEF ProbeFired, Register, Scanned
  <2>2. Own(t) \in live /\ waiter[Own(t)] \in Objects BY <2>1, OwnWaiter
  <2>3. call[t].i - 1 \in Int BY <1>0 DEF Calls
  <2>4. /\ Fired(waiter[Own(t)], call[t].i - 1).all = waiter[Own(t)].all
        /\ Fired(waiter[Own(t)], call[t].i - 1).still = waiter[Own(t)].still
    BY <2>2, <2>3, FiredIs
  <2>5. \/ waiter' = [waiter EXCEPT ![Own(t)] = Fired(@, call[t].i - 1)]
        \/ waiter' = [waiter EXCEPT ![Own(t)].refs = @ + 1]
    BY <1>9 DEF ProbeFired, Register
  <2>6. /\ [waiter[Own(t)] EXCEPT !.refs = @ + 1].all = waiter[Own(t)].all
        /\ [waiter[Own(t)] EXCEPT !.refs = @ + 1].still = waiter[Own(t)].still
    BY <2>2 DEF Objects
  <2> QED BY <1>0, <1>9, <2>1, <2>2, <2>4, <2>5, <2>6
<1>10. CASE \E e \in Events : \/ SetEvent(t, e) \/ ResetEvent(t, e)
                              \/ WaitForEvent(t, e) \/ CreateEvent(t, e)
                              \/ DestroyEvent(t, e)
  BY <1>10 DEF SetEvent, ResetEvent, WaitForEvent, CreateEvent, DestroyEvent
<1>11. CASE Signal(t) \/ NoneRegistered(t) \/ Wake(t) \/ TakeEvent(t)
            \/ GiveUp(t) \/ Sleep(t) \/ Relock(t) \/ WakeSpurious(t)
            \/ WakeTimedOut(t) \/ ScanBusy(t) \/ LockNext(t) \/ LoopEnds(t)
            \/ Delete(t)
  BY <1>11 DEF Signal, NoneRegistered, Wake, TakeEvent, GiveUp, Sleep, Relock,
     WakeSpurious, WakeTimedOut, ScanBusy, LockNext, LoopEnds, Delete
<1> QED BY <1>1, <1>2, <1>3, <1>4, <1>5, <1>6, <1>7, <1>8, <1>9, <1>10, <1>11
        DEF Step, SetterStep, MultiStep, WaitStep, ScanStep

(* A waiter that is freed is as if it had never been used.                  *)
LEMMA UnusedStep ==
  ASSUME LocksInv, NEW t \in Threads, Step(t)
  PROVE  UnusedOK'
<1>0. /\ waiter \in [Waiters -> Objects] /\ live \subseteq Waiters /\ UnusedOK
  BY DEF LocksInv, TypesOK
<1>1. CASE WaitForMultipleEvents(t)
  <2>1. PICK o \in Waiters \ live :
          /\ live' = live \cup {o}
          /\ \A p \in Waiters \ {o} : waiter'[p] = waiter[p]
    BY <1>1, BeginIs
  <2> QED BY <1>0, <2>1 DEF UnusedOK
<1>2. CASE ~WaitForMultipleEvents(t)
  <2>1. CASE waiter' = waiter /\ live' = live
    BY <1>0, <2>1 DEF UnusedOK, Blank
  <2>2. CASE \E o \in live : Acquire(o, t) /\ live' = live
    <3>1. PICK o \in live : Acquire(o, t) /\ live' = live BY <2>2
    <3>2. \A p \in Waiters \ {o} : waiter'[p] = waiter[p]
      BY <1>0, <3>1, AcquireIs
    <3> QED BY <1>0, <3>1, <3>2 DEF UnusedOK
  <2>3. CASE \E o \in live : \E w \in Objects : Release(o, w)
    <3>1. PICK o \in live : \E w \in Objects : Release(o, w) BY <2>3
    <3>2. PICK w \in Objects : Release(o, w) BY <3>1
    <3>3. /\ \A p \in Waiters \ {o} : waiter'[p] = waiter[p]
          /\ IF w.refs = 0 THEN waiter'[o] = Blank /\ live' = live \ {o}
             ELSE live' = live
      BY <1>0, <3>1, <3>2, ReleaseIs
    <3> QED BY <1>0, <3>1, <3>3 DEF UnusedOK
  <2>4. CASE /\ Own(t) \in live /\ live' = live
             /\ \A p \in Waiters \ {Own(t)} : waiter'[p] = waiter[p]
    BY <1>0, <2>4 DEF UnusedOK
  <2> QED BY <1>2, <2>1, <2>2, <2>3, <2>4, WaiterTouched
<1> QED BY <1>1, <1>2
-----------------------------------------------------------------------------
(* Nothing is held, registered or owned at first.                           *)
LEMMA LocksInvInit == Init => LocksInv
<1> SUFFICES ASSUME Init PROVE LocksInv OBVIOUS
<1>1. NoCall \in Calls /\ Blank \in Objects BY DEF NoCall, Calls, Blank, Objects
<1>2. \A e \in Events : waits[e] = <<>> BY DEF Init
<1>3. TypesOK
  <2>1. waits \in WaitLists BY DEF Init, WaitLists
  <2> QED BY <1>1, <2>1 DEF Init, TypesOK, Labels, Awake
<1>4. \A t \in Threads : pc[t] = "idle" /\ call[t] = NoCall BY DEF Init
<1>5. \A t \in Threads : Calling(t) BY <1>4 DEF Calling
<1>6. HeldOK BY <1>4 DEF Init, HeldOK, HoldsEvent
<1>7. \A t \in Threads : Holding(t) = {} BY <1>4 DEF Holding, HoldsOwn
<1>8. LocksOK BY <1>7 DEF Init, LocksOK, Blank
<1>9. \A t \in Threads : \A o : ~Owner(o, t) BY <1>4 DEF Owner, HoldsOwn
<1>10. OwnersOK /\ UnusedOK BY <1>9 DEF OwnersOK, UnusedOK, Init
<1>11. RefsOK
  <2> SUFFICES ASSUME NEW o \in Waiters
               PROVE  waiter[o].refs =
                        NumPlaces(waits, o) + leaked[o] + Owned(o)
    BY DEF RefsOK
  <2>1. NumPlaces(waits, o) = 0
    <3>1. \A e \in Events : \A k \in 1 .. Len(waits[e]) : waits[e][k].waiter # o
      BY <1>2
    <3> QED BY <1>3, <3>1, CountType DEF TypesOK
  <2>2. Owned(o) = 0 BY <1>9 DEF Owned
  <2>3. waiter[o].refs = 0 /\ leaked[o] = 0 BY DEF Init, Blank
  <2> QED BY <2>1, <2>2, <2>3
<1> QED BY <1>3, <1>5, <1>6, <1>8, <1>10, <1>11 DEF LocksInv

(* All of LocksInv is kept.                                                 *)
LEMMA LocksInvStep == LocksInv /\ [Next]_vars => LocksInv'
<1>1. ASSUME LocksInv, NEW t \in Threads, Step(t) PROVE LocksInv'
  <2>1. TypesOK' BY <1>1, TypesStep
  <2>2. \A u \in Threads : Calling(u)' BY <1>1, CallingStep, OthersCall
  <2>3. HeldOK'
    <3>1. HeldMoved(t) BY <1>1, HeldStep
    <3>2. \A u \in Threads \ {t} :
            /\ Ev(u)' = Ev(u)
            /\ pc[u] \in HoldsEvent => pc'[u] = pc[u]
            /\ \/ pc'[u] = pc[u]
               \/ pc[u] = "dozing" /\ pc'[u] = "redoze"
               \/ pc[u] = "asleep" /\ pc'[u] = "relock"
      BY <1>1, OthersStay, CallsStep DEF CallsMoved
    <3>3. \A e \in Events, u \in Threads :
            held[e] = u <=> pc[u] \in HoldsEvent /\ Ev(u) = e
      BY <1>1 DEF LocksInv, HeldOK
    <3> QED BY <3>1, <3>2, <3>3 DEF HeldOK, HeldMoved, HoldsEvent
  <2>4. LocksOK'
    <3>1. LocksMoved(t) BY <1>1, LocksStep
    <3>2. \A u \in Threads \ {t} : Holding(u)' = Holding(u) BY <1>1, OthersStay
    <3> QED BY <1>1, <3>1, <3>2 DEF LocksOK, LocksMoved, LocksInv
  <2>5. OwnersOK' /\ UnusedOK' /\ RefsOK'
    BY <1>1, OwnersStep, UnusedStep, RefsStep
  <2> QED BY <2>1, <2>2, <2>3, <2>4, <2>5 DEF LocksInv
<1>2. ASSUME LocksInv, UNCHANGED vars PROVE LocksInv'
  <2>1. /\ UNCHANGED <<created, state, held, waits, live, waiter, pc, call,
                       leaked>>
    BY <1>2 DEF vars, events
  <2>2. \A t \in Threads : Ev(t)' = Ev(t) BY <2>1 DEF Ev
  <2>3. \A t \in Threads : Entry(t)' = Entry(t) BY <2>1, <2>2 DEF Entry
  <2>4. \A t \in Threads : Holding(t)' = Holding(t)
    BY <2>1, <2>3 DEF Holding
  <2>5. \A t \in Threads : Calling(t)'
    BY <1>2, <2>1, <2>2, <2>3 DEF LocksInv, Calling, Single
  <2>6. \A o : Owned(o)' = Owned(o) /\ \A t : Owner(o, t)' <=> Owner(o, t)
    BY <2>1 DEF Owned, Owner
  <2>7. TypesOK' /\ HeldOK' /\ LocksOK' BY <1>2, <2>1, <2>2, <2>4
        DEF LocksInv, TypesOK, HeldOK, LocksOK
  <2>8. OwnersOK' BY <1>2, <2>6 DEF LocksInv, OwnersOK
  <2>9. UnusedOK' BY <1>2, <2>1 DEF LocksInv, UnusedOK
  <2>10. RefsOK' BY <1>2, <2>1, <2>6 DEF LocksInv, RefsOK
  <2> QED BY <2>5, <2>7, <2>8, <2>9, <2>10 DEF LocksInv
<1> QED BY <1>1, <1>2, NextIsStep

-----------------------------------------------------------------------------
(* The lists of the calls.                                                  *)

(* Destroying an event, or asking for the next one of a list.               *)
Destroying(t) == pc[t] \in {"scan", "drop"} /\ call[t].own = {}
Probing(t) == pc[t] \in {"reg", "scan", "drop"}
Probed(t) == IF Probing(t) THEN call[t].i - 1 ELSE Len(call[t].list)

(* What calls use exists; an event that does not, and that nobody is        *)
(* destroying, has no registrations.                                        *)
ListsOK ==
  /\ \A t \in Threads :
       IF Destroying(t) THEN Ev(t) \notin created /\ Len(call[t].list) = 1
       ELSE \A i \in 1 .. Len(call[t].list) : call[t].list[i] \in created
  /\ \A e \in Events \ created : held[e] = NoThread => waits[e] = <<>>
  /\ \A t \in Threads : \A o \in Waiters : Owner(o, t) => call[t].list \in Lists

(* A waiter is registered with events that its call has asked for.          *)
PlacesOK ==
  \A o \in Waiters, t \in Threads, e \in Events : Owner(o, t) =>
     \A k \in 1 .. Len(waits[e]) : waits[e][k].waiter = o =>
         \E m \in 1 .. Probed(t) : call[t].list[m] = e

(* The waiters that a step leaves in the lists were there.                  *)
LEMMA EntriesMoved ==
  ASSUME LocksInv, NEW t \in Threads, Step(t), NEW e \in Events,
         NEW j \in 1 .. Len(waits'[e])
  PROVE  \/ \E k \in 1 .. Len(waits[e]) :
              waits[e][k].waiter = waits'[e][j].waiter
         \/ Register(t) /\ e = Ev(t) /\ waits'[e][j].waiter = Own(t)
<1>0. /\ waits \in WaitLists /\ waits[e] \in Seq(Entries)
      /\ Len(waits[e]) \in Nat
  BY LenProperties DEF LocksInv, TypesOK, WaitLists
<1>1. CASE waits'[e] = waits[e] BY <1>1
<1>2. ASSUME NEW k \in 1 .. Len(waits[e]), NEW r \in Seq(Entries),
             Without(waits[e], k, r), waits'[e] = r
      PROVE  \E i \in 1 .. Len(waits[e]) :
               waits[e][i].waiter = waits'[e][j].waiter
  <2>1. j \in 1 .. Len(waits[e]) /\ j + 1 \in 1 .. Len(waits[e])
    BY <1>0, <1>2 DEF Without
  <2>2. r[j] = waits[e][j] \/ r[j] = waits[e][j + 1]
    BY <1>0, <1>2 DEF Without
  <2> QED BY <1>2, <2>1, <2>2
<1>3. CASE e = Ev(t) /\ (Expire(t) \/ Hand(t))
  <2>1. pc[t] = "hand" /\ waits' = [waits EXCEPT ![e] = Tail(@)]
    BY <1>3 DEF Expire, Hand
  <2>2. /\ 1 \in 1 .. Len(waits[e]) /\ Tail(waits[e]) \in Seq(Entries)
        /\ Without(waits[e], 1, Tail(waits[e]))
    BY <1>3, <2>1, TailMoves
  <2>3. waits'[e] = Tail(waits[e]) BY <1>0, <2>1 DEF WaitLists
  <2> QED BY <1>2, <2>2, <2>3
<1>4. CASE e = Ev(t) /\ ScanDrop(t)
  <2>1. call[t].k \in 1 .. Len(waits[e]) BY <1>4, CutMoves
  <2>2. PICK r \in Seq(Entries) : /\ Without(waits[e], call[t].k, r)
                                  /\ waits' = [waits EXCEPT ![e] = r]
    BY <1>4, CutMoves
  <2>3. waits'[e] = r BY <1>0, <2>2 DEF WaitLists
  <2> QED BY <1>2, <2>1, <2>2, <2>3
<1>5. CASE e = Ev(t) /\ Register(t)
  <2> DEFINE x == [waiter |-> Own(t), index |-> call[t].i - 1]
  <2>1. x \in Entries /\ waits' = [waits EXCEPT ![e] = Append(@, x)]
    BY <1>5, AppendMoves
  <2>2. waits'[e] = Append(waits[e], x) /\ x.waiter = Own(t)
    BY <1>0, <2>1 DEF WaitLists
  <2> HIDE DEF x
  <2>3. /\ Len(Append(waits[e], x)) = Len(waits[e]) + 1
        /\ \A i \in 1 .. Len(waits[e]) : Append(waits[e], x)[i] = waits[e][i]
        /\ Append(waits[e], x)[Len(waits[e]) + 1] = x
    BY <1>0, <2>1, AppendProperties
  <2>4. j \in 1 .. Len(waits[e]) \/ j = Len(waits[e]) + 1
    BY <1>0, <2>2, <2>3
  <2> QED BY <1>5, <2>2, <2>3, <2>4
<1>6. CASE e = Ev(t) /\ Delete(t)
  <2>1. waits'[e] = <<>> BY <1>0, <1>6 DEF Delete, WaitLists
  <2> QED BY <2>1
<1>7. waits'[e] = waits[e] \/ e = Ev(t) BY WaitsStep DEF WaitsMoved
<1>8. Expire(t) \/ Hand(t) \/ ScanDrop(t) \/ Register(t) \/ Delete(t)
        \/ waits' = waits
  BY DEF Step, SetterStep, MultiStep, WaitStep, ScanStep, SetEvent, ResetEvent,
     LockRegistered, Signal, NoneRegistered, Wake, WaitForEvent, TakeEvent,
     GiveUp, Sleep, Relock, WakeSpurious, WakeTimedOut, ScanBusy, ScanTry,
     ScanKeep, CreateEvent, DestroyEvent, WaitForMultipleEvents, LockNext,
     ProbeFired, LoopEnds, Doze, Redoze, Finish, events
<1> QED BY <1>1, <1>3, <1>4, <1>5, <1>6, <1>7, <1>8

(* The list of a call and the place in it change only with an event that    *)
(* the caller has asked for.                                                *)
LEMMA ProbingSame ==
  ASSUME LocksInv, NEW t \in Threads, Step(t), NEW u \in Threads,
         NEW o \in Waiters, Owner(o, u)', Owner(o, u),
         ~(u = t /\ (ProbeFired(t) \/ Register(t)))
  PROVE  /\ call'[u].list = call[u].list /\ call'[u].i = call[u].i
         /\ Probing(u)' <=> Probing(u)
<1>0. /\ pc \in [Threads -> Labels] /\ call \in [Threads -> Calls]
      /\ call[u] \in Calls
  BY DEF LocksInv, TypesOK
<1>1. pc[u] # "idle" /\ pc'[u] # "idle" BY DEF Owner, HoldsOwn
<1>2. CASE u # t
  <2>1. call'[u] = call[u] BY <1>2, OthersStay
  <2>2. Probing(u)' <=> Probing(u) BY <1>2, CallsStep DEF CallsMoved, Probing
  <2> QED BY <2>1, <2>2
<1>3. CASE u = t /\ ~ProbeFired(t) /\ ~Register(t)
  <2>0. ~WaitForMultipleEvents(t) /\ ~Finish(t)
    BY <1>0, <1>1, <1>3 DEF WaitForMultipleEvents, Finish, Return, Goto
  <2>1. call[t].own # {} /\ pc[t] \in HoldsOwn \cup {"dozing", "redoze"}
    BY <1>3 DEF Owner
  <2>2. CASE WaitStep(t)
    BY <1>0, <1>3, <2>1, <2>2 DEF WaitStep, TakeEvent, GiveUp, Sleep, Relock,
       WakeSpurious, WakeTimedOut, Resume, Goto, HoldsOwn, Probing, Calls
  <2>3. CASE ScanStep(t)
    BY <1>0, <1>3, <2>1, <2>3 DEF ScanStep, ScanBusy, ScanTry, ScanKeep,
       ScanDrop, Goto, HoldsOwn, Probing, Calls
  <2>4. CASE MultiStep(t)
    BY <1>0, <1>3, <2>0, <2>1, <2>4 DEF MultiStep, LockNext, LoopEnds, Doze,
       Redoze, Goto, HoldsOwn, Probing, Calls
  <2>5. ~SetterStep(t) \/ \E e \in Events : ResetEvent(t, e)
    BY <2>1 DEF SetterStep, SetEvent, Enter, LockRegistered, Expire, Hand,
       Signal, NoneRegistered, Wake, HoldsOwn
  <2>6. /\ ~\E e \in Events : \/ ResetEvent(t, e) \/ CreateEvent(t, e)
                              \/ DestroyEvent(t, e) \/ WaitForEvent(t, e)
        /\ ~Delete(t)
    BY <2>1 DEF ResetEvent, CreateEvent, DestroyEvent, WaitForEvent, Enter,
       Delete, HoldsOwn
  <2> QED BY <2>0, <2>2, <2>3, <2>4, <2>5, <2>6 DEF Step
<1> QED BY <1>2, <1>3

(* One event more, that was set or that the waiter is registered with.      *)
LEMMA NextEventIs ==
  ASSUME LocksInv, NEW t \in Threads, ProbeFired(t) \/ Register(t)
  PROVE  /\ pc[t] = "scan" /\ Probing(t)
         /\ call[t].i \in 1 .. Len(call[t].list) /\ Len(call[t].list) \in Nat
         /\ call'[t].list = call[t].list
         /\ NextEvent(t) \/ (ProbeFired(t) /\ ~waiter[Own(t)].all)
         /\ IF NextEvent(t) /\ call[t].i < Len(call[t].list)
            THEN Probing(t)' /\ call'[t].i = call[t].i + 1
            ELSE ~Probing(t)'
<1>0. /\ pc \in [Threads -> Labels] /\ call \in [Threads -> Calls]
      /\ call[t] \in Calls /\ Calling(t) /\ Len(call[t].list) \in Nat
  BY LenProperties DEF LocksInv, TypesOK, Calls
<1>1. pc[t] = "scan" BY DEF ProbeFired, Register, Scanned
<1>2. call[t].i \in 1 .. Len(call[t].list) BY <1>0, <1>1 DEF Calling
<1>3. \/ NextEvent(t)
      \/ /\ Goto(t, "finish") /\ call' = call
         /\ ProbeFired(t) /\ ~waiter[Own(t)].all
  BY DEF ProbeFired, Register
<1>4. CASE NextEvent(t) /\ call[t].i < Len(call[t].list)
  <2>1. /\ pc'[t] = "reg" /\ call'[t].list = call[t].list
        /\ call'[t].i = call[t].i + 1
    BY <1>0, <1>4 DEF NextEvent, Goto, Calls
  <2> QED BY <1>0, <1>1, <1>2, <1>4, <2>1 DEF Probing
<1>5. CASE NextEvent(t) /\ ~(call[t].i < Len(call[t].list))
  <2>1. pc'[t] \in {"loop", "finish"} /\ call'[t].list = call[t].list
    BY <1>0, <1>5 DEF NextEvent, Goto, Calls
  <2> QED BY <1>0, <1>1, <1>2, <1>5, <2>1 DEF Probing
<1>6. CASE /\ Goto(t, "finish") /\ call' = call
           /\ ProbeFired(t) /\ ~waiter[Own(t)].all
  <2>1. pc'[t] = "finish" BY <1>0, <1>6 DEF Goto
  <2>2. ~NextEvent(t) \/ ~(call[t].i < Len(call[t].list))
    <3>1. NextEvent(t) /\ call[t].i < Len(call[t].list) => pc'[t] = "reg"
      BY <1>0 DEF NextEvent, Goto
    <3> QED BY <2>1, <3>1
  <2> QED BY <1>0, <1>1, <1>2, <1>6, <2>1, <2>2 DEF Probing
<1> QED BY <1>3, <1>4, <1>5, <1>6

(* What a thread has asked for, after a step.                               *)
LEMMA ProbedMoved ==
  ASSUME LocksInv, NEW t \in Threads, Step(t), NEW u \in Threads,
         NEW o \in Waiters, Owner(o, u)', Owner(o, u)
  PROVE  /\ call'[u].list = call[u].list
         /\ Probed(u) \in Int /\ Probed(u)' \in Int /\ Probed(u)' >= Probed(u)
         /\ Register(t) /\ u = t
              => /\ Probed(u)' >= call[t].i
                 /\ call[t].i \in 1 .. Len(call[t].list)
<1>0. /\ call[u] \in Calls /\ Calling(u) /\ call[u].i \in Nat
      /\ Len(call[u].list) \in Nat
  BY LenProperties DEF LocksInv, TypesOK, Calls
<1>1. pc[u] # "idle" BY DEF Owner, HoldsOwn
<1>2. call[u].i \in 1 .. Len(call[u].list) BY <1>0, <1>1 DEF Calling
<1>3. CASE u = t /\ (ProbeFired(t) \/ Register(t))
  BY <1>0, <1>2, <1>3, NextEventIs DEF Probed
<1>4. CASE ~(u = t /\ (ProbeFired(t) \/ Register(t)))
  BY <1>0, <1>2, <1>4, ProbingSame DEF Probed
<1> QED BY <1>3, <1>4

(* No waiter is registered with an event its call has not asked for.        *)
LEMMA PlacesStep ==
  ASSUME LocksInv, PlacesOK, NEW t \in Threads, Step(t)
  PROVE  PlacesOK'
<1> SUFFICES ASSUME NEW o \in Waiters, NEW u \in Threads, NEW e \in Events,
                    Owner(o, u)', NEW j \in 1 .. Len(waits'[e]),
                    waits'[e][j].waiter = o
             PROVE  \E m \in 1 .. Probed(u)' : call'[u].list[m] = e
  BY DEF PlacesOK
<1>1. \/ \E k \in 1 .. Len(waits[e]) : waits[e][k].waiter = o
      \/ Register(t) /\ e = Ev(t) /\ o = Own(t)
  BY EntriesMoved
<1>2. Owner(o, u)
  <2>1. CASE WaitForMultipleEvents(t)
    <3>1. PICK p \in Waiters \ live : call'[t].own = {p} BY <2>1, BeginIs
    <3>2. \A q : Owner(q, t)' <=> q = p BY <2>1, <3>1, OwnerBegins
    <3>3. ~Register(t)
      BY <2>1 DEF WaitForMultipleEvents, Register, Scanned
    <3>4. o # p BY <1>1, <3>3, Alive
    <3>5. u # t BY <3>2, <3>4
    <3> QED BY <3>5, OthersStay
  <2>2. CASE Finish(t)
    <3>1. \A q : ~Owner(q, t)' BY <2>2, OwnerEnds
    <3>2. u # t BY <3>1
    <3> QED BY <3>2, OthersStay
  <2>3. CASE ~WaitForMultipleEvents(t) /\ ~Finish(t) BY <2>3, OwnersSame
  <2> QED BY <2>1, <2>2, <2>3
<1>3. /\ call'[u].list = call[u].list
      /\ Probed(u) \in Int /\ Probed(u)' \in Int /\ Probed(u)' >= Probed(u)
      /\ Register(t) /\ u = t => /\ Probed(u)' >= call[t].i
                                 /\ call[t].i \in 1 .. Len(call[t].list)
  BY <1>2, ProbedMoved
<1>4. CASE \E k \in 1 .. Len(waits[e]) : waits[e][k].waiter = o
  <2>1. PICK m \in 1 .. Probed(u) : call[u].list[m] = e
    BY <1>2, <1>4 DEF PlacesOK
  <2>2. m \in 1 .. Probed(u)' BY <1>3, <2>1
  <2> QED BY <1>3, <2>1, <2>2
<1>5. CASE Register(t) /\ e = Ev(t) /\ o = Own(t)
  <2>1. pc[t] = "scan" /\ call[t].own = {Own(t)} /\ Own(t) \in Waiters
    BY <1>5, AppendMoves DEF Register, Scanned
  <2>2. Owner(o, t) BY <1>5, <2>1 DEF Owner, HoldsOwn
  <2>3. u = t BY <1>2, <2>2 DEF LocksInv, OwnersOK
  <2>4. call[t].i \in 1 .. Probed(u)' /\ call[t].i \in Nat
    BY <1>3, <1>5, <2>3 DEF LocksInv, TypesOK, Calls
  <2>5. call'[u].list[call[t].i] = e BY <1>3, <1>5, <2>3 DEF Ev
  <2> QED BY <2>4, <2>5
<1> QED BY <1>1, <1>4, <1>5

(* The parameters of a call do not change while it runs.                    *)
LEMMA ListMoved ==
  ASSUME LocksInv, NEW t \in Threads, Step(t)
  PROVE  \/ pc'[t] = "idle" /\ call'[t] = NoCall
         \/ /\ call'[t].list = call[t].list /\ call'[t].i = call[t].i
            /\ Destroying(t)' <=> Destroying(t)
         \/ /\ call'[t].list = call[t].list /\ ~Destroying(t)'
            /\ ~Destroying(t) /\ pc[t] = "scan"
         \/ \E e \in created : SetEvent(t, e) \/ WaitForEvent(t, e)
         \/ \E e \in Events : DestroyEvent(t, e)
         \/ WaitForMultipleEvents(t)
<1>0. /\ pc \in [Threads -> Labels] /\ call \in [Threads -> Calls]
      /\ call[t] \in Calls /\ Calling(t)
  BY DEF LocksInv, TypesOK
<1>1. CASE \E e \in Events : SetEvent(t, e) \/ WaitForEvent(t, e)
  BY <1>1 DEF SetEvent, WaitForEvent, Enter
<1>2. CASE \E e \in Events : ResetEvent(t, e) \/ CreateEvent(t, e)
  BY <1>2 DEF ResetEvent, CreateEvent, Destroying
<1>3. CASE Signal(t)
  <2>1. CASE AutoReset(t) BY <1>0, <1>3, <2>1 DEF Signal
  <2>2. CASE ~AutoReset(t)
    <3>1. /\ pc[t] = "signal" /\ pc'[t] = "visit"
          /\ call' = [call EXCEPT ![t].own = {}]
      BY <1>0, <1>3, <2>2 DEF Signal
    <3>2. call'[t].list = call[t].list /\ call'[t].i = call[t].i
      BY <1>0, <3>1 DEF Calls
    <3> QED BY <3>1, <3>2 DEF Destroying
  <2> QED BY <2>1, <2>2
<1>4. CASE Wake(t) \/ TakeEvent(t) \/ GiveUp(t) \/ Delete(t) \/ Finish(t)
  BY <1>0, <1>4 DEF Wake, TakeEvent, GiveUp, Delete, Finish, Return, Goto
<1>5. CASE LockRegistered(t) \/ Expire(t) \/ Hand(t) \/ NoneRegistered(t)
           \/ Sleep(t) \/ Relock(t)
  <2>1. call'[t].list = call[t].list /\ call'[t].i = call[t].i
    BY <1>0, <1>5 DEF LockRegistered, Expire, Hand, NoneRegistered, Sleep,
       Relock, Calls
  <2>2. /\ pc[t] \in {"visit", "hand", "test", "relock"}
        /\ pc'[t] \in {"hand", "visit", "signal", "wake", "asleep", "test"}
    BY <1>0, <1>5 DEF LockRegistered, Expire, Hand, NoneRegistered, Sleep,
       Relock, Goto
  <2> QED BY <2>1, <2>2 DEF Destroying
<1>6. CASE WakeSpurious(t) \/ WakeTimedOut(t)
  <2>1. call'[t].list = call[t].list /\ call'[t].i = call[t].i
    BY <1>0, <1>6 DEF WakeSpurious, WakeTimedOut, Calls
  <2>2. /\ pc[t] \in {"asleep", "dozing"} /\ pc'[t] \in {"relock", "redoze"}
    BY <1>0, <1>6 DEF WakeSpurious, WakeTimedOut, Resume, Goto
  <2> QED BY <2>1, <2>2 DEF Destroying
<1>7. CASE ScanStep(t)
  <2>1. /\ call'[t].list = call[t].list /\ call'[t].i = call[t].i
        /\ call'[t].own = call[t].own
    BY <1>0, <1>7 DEF ScanStep, ScanBusy, ScanTry, ScanKeep, ScanDrop, Calls
  <2>2. pc[t] \in {"scan", "drop"} /\ pc'[t] \in {"scan", "drop"}
    BY <1>0, <1>7 DEF ScanStep, ScanBusy, ScanTry, ScanKeep, ScanDrop, Goto
  <2> QED BY <2>1, <2>2 DEF Destroying
<1>8. CASE LockNext(t)
  <2>1. /\ call'[t].list = call[t].list /\ call'[t].i = call[t].i
        /\ call'[t].own = call[t].own /\ pc[t] = "reg"
    BY <1>0, <1>8 DEF LockNext, Calls
  <2>2. call[t].own # {} BY <1>0, <2>1 DEF Calling, Single
  <2> QED BY <2>1, <2>2 DEF Destroying
<1>9. CASE LoopEnds(t) \/ Doze(t) \/ Redoze(t)
  BY <1>0, <1>9 DEF LoopEnds, Doze, Redoze, Destroying, Goto
<1>10. CASE ProbeFired(t) \/ Register(t)
  <2>1. /\ pc[t] = "scan" /\ call[t].own # {}
        /\ NextEvent(t) \/ (Goto(t, "finish") /\ call' = call)
    BY <1>10 DEF ProbeFired, Register, Scanned
  <2>2. call'[t].list = call[t].list /\ pc'[t] \in {"reg", "loop", "finish"}
    BY <1>0, <2>1 DEF NextEvent, Goto, Calls
  <2> QED BY <2>1, <2>2 DEF Destroying
<1> QED BY <1>1, <1>2, <1>3, <1>4, <1>5, <1>6, <1>7, <1>8, <1>9, <1>10
        DEF Step, SetterStep, MultiStep, WaitStep

(* What a step does to the set of events.                                   *)
LEMMA CreatedMoved ==
  ASSUME LocksInv, NEW t \in Threads, Step(t)
  PROVE  \/ created' = created
         \/ \E e \in Events \ created : CreateEvent(t, e)
         \/ \E e \in created : DestroyEvent(t, e)
<1>1. \A e \in Events : /\ CreateEvent(t, e) => e \notin created
                        /\ DestroyEvent(t, e) => e \in created
  BY DEF CreateEvent, DestroyEvent, Enter
<1> QED BY <1>1 DEF Step, SetterStep, MultiStep, WaitStep, ScanStep, SetEvent,
     ResetEvent, LockRegistered, Expire, Hand, Signal, NoneRegistered, Wake,
     WaitForEvent, TakeEvent, GiveUp, Sleep, Relock, WakeSpurious, WakeTimedOut,
     ScanBusy, ScanTry, ScanKeep, ScanDrop, Delete, WaitForMultipleEvents,
     LockNext, ProbeFired, Register, LoopEnds, Doze, Redoze, Finish, events

(* The lists of the calls: nobody uses an event that is destroyed.          *)
Using(t) == IF Destroying(t)
            THEN Ev(t) \notin created /\ Len(call[t].list) = 1
            ELSE \A i \in 1 .. Len(call[t].list) : call[t].list[i] \in created

(* No event of a list is destroyed while the call uses it.                  *)
LEMMA UsingStep ==
  ASSUME LocksInv, ListsOK, NEW t \in Threads, Step(t), NEW u \in Threads
  PROVE  Using(u)'
<1>0. /\ Using(u) /\ call \in [Threads -> Calls] /\ call[u] \in Calls
      /\ pc \in [Threads -> Labels] /\ Calling(u)
      /\ \A w \in Threads : call[w].list \in Seq(Events)
      /\ \A w \in Threads : DOMAIN call[w].list = 1 .. Len(call[w].list)
  BY LenProperties DEF ListsOK, Using, LocksInv, TypesOK, Calls
(* Without a change of the call *)
<1>1. ASSUME call'[u].list = call[u].list, Ev(u)' = Ev(u) \/ ~Destroying(u),
             Destroying(u)' <=> Destroying(u)
      PROVE  Using(u)'
  <2>1. CASE created' = created
    BY <1>0, <1>1, <2>1 DEF Using
  <2>2. CASE \E e \in Events \ created : CreateEvent(t, e)
    <3>1. PICK e \in Events \ created : CreateEvent(t, e) BY <2>2
    <3>2. created' = created \cup {e} /\ held[e] = NoThread
      BY <3>1 DEF CreateEvent
    <3>3. Destroying(u) => held[Ev(u)] = u
      <4>1. Destroying(u) => Ev(u) \in Events BY HandIs DEF Destroying
      <4> QED BY <4>1 DEF Destroying, LocksInv, HeldOK, HoldsEvent
    <3>4. Destroying(u) => Ev(u) # e BY <3>2, <3>3
    <3> QED BY <1>0, <1>1, <3>2, <3>4 DEF Using
  <2>3. CASE \E e \in created : DestroyEvent(t, e)
    <3>1. PICK e \in created : DestroyEvent(t, e) BY <2>3
    <3>2. /\ created' = created \ {e}
          /\ \A i \in DOMAIN call[u].list : call[u].list[i] # e
      BY <3>1 DEF DestroyEvent
    <3>3. \A i \in 1 .. Len(call[u].list) : call[u].list[i] # e
      BY <1>0, <3>2
    <3> QED BY <1>0, <1>1, <3>2, <3>3 DEF Using
  <2> QED BY <2>1, <2>2, <2>3, CreatedMoved
<1>2. CASE u # t
  <2>1. call'[u] = call[u] /\ Ev(u)' = Ev(u) BY <1>2, OthersStay
  <2>2. Destroying(u)' <=> Destroying(u)
    BY <1>2, <2>1, CallsStep DEF CallsMoved, Destroying
  <2> QED BY <1>1, <2>1, <2>2
<1>3. CASE u = t
  <2>1. CASE pc'[t] = "idle" /\ call'[t] = NoCall
    <3>1. Len(call'[t].list) = 0 BY <2>1 DEF NoCall
    <3>2. ~Destroying(t)' BY <2>1 DEF Destroying
    <3> QED BY <1>3, <3>1, <3>2 DEF Using
  <2>2. CASE /\ call'[t].list = call[t].list /\ call'[t].i = call[t].i
             /\ Destroying(t)' <=> Destroying(t)
    <3>1. Ev(t)' = Ev(t) BY <2>2 DEF Ev
    <3> QED BY <1>1, <1>3, <2>2, <3>1
  <2>3. CASE /\ call'[t].list = call[t].list /\ ~Destroying(t)'
             /\ ~Destroying(t) /\ pc[t] = "scan"
    BY <1>1, <1>3, <2>3
  <2>4. CASE \E e \in created : SetEvent(t, e) \/ WaitForEvent(t, e)
    <3>1. PICK e \in created : SetEvent(t, e) \/ WaitForEvent(t, e) BY <2>4
    <3>2. e \in Events /\ created' = created
      BY <3>1 DEF LocksInv, TypesOK, SetEvent, WaitForEvent
    <3>3. PICK label \in {"visit", "test"} : \E timeout :
            Enter(t, e, timeout, label)
      BY <3>1 DEF SetEvent, WaitForEvent
    <3>4. PICK timeout : Enter(t, e, timeout, label) BY <3>3
    <3>5. pc'[t] = label BY <3>2, <3>4, EnterIs
    <3>6. call'[t].list = <<e>> BY <3>2, <3>4, EnterIs
    <3>7. ~Destroying(t)' BY <3>5 DEF Destroying
    <3> QED BY <1>3, <3>2, <3>6, <3>7 DEF Using
  <2>5. CASE \E e \in Events : DestroyEvent(t, e)
    <3>1. PICK e \in Events : DestroyEvent(t, e) BY <2>5
    <3>2. created' = created \ {e} /\ Enter(t, e, "poll", "scan")
      BY <3>1 DEF DestroyEvent
    <3>3. pc'[t] = "scan" BY <3>2, EnterIs
    <3>4. call'[t].list = <<e>> /\ call'[t].own = {} BY <3>2, EnterIs
    <3>5. Ev(t)' = e BY <3>2, EnterIs
    <3>6. Destroying(t)' BY <3>3, <3>4 DEF Destroying
    <3>7. Len(<<e>>) = 1 OBVIOUS
    <3> QED BY <1>3, <3>2, <3>4, <3>5, <3>6, <3>7 DEF Using
  <2>6. CASE WaitForMultipleEvents(t)
    <3>1. PICK list \in Lists, all \in BOOLEAN, o \in Waiters \ live :
            /\ \A i \in 1 .. Len(list) : list[i] \in created
            /\ call'[t].list = list
      BY <2>6, BeginIs
    <3>2. pc'[t] = "reg" /\ created' = created
      BY <1>0, <2>6 DEF WaitForMultipleEvents, Goto, events
    <3>3. ~Destroying(t)' BY <3>2 DEF Destroying
    <3> QED BY <1>3, <3>1, <3>2, <3>3 DEF Using
  <2> QED BY <2>1, <2>2, <2>3, <2>4, <2>5, <2>6, ListMoved
<1> QED BY <1>2, <1>3

(* A thread that destroys an event only scans its registrations.            *)
LEMMA DestroyingStep ==
  ASSUME LocksInv, NEW t \in Threads, Step(t), Destroying(t)
  PROVE  ScanStep(t) \/ Delete(t) \/ \E e \in Events : ResetEvent(t, e)
BY DEF Destroying, Step, SetterStep, MultiStep, WaitStep, SetEvent, ResetEvent,
   LockRegistered, Expire, Hand, Signal, NoneRegistered, Wake, WaitForEvent,
   TakeEvent, GiveUp, Sleep, Relock, WakeSpurious, WakeTimedOut, CreateEvent,
   DestroyEvent, WaitForMultipleEvents, LockNext, ProbeFired, Register,
   LoopEnds, Doze, Redoze, Finish, Enter

(* The event in hand exists, unless it is being destroyed.                  *)
LEMMA EvCreated ==
  ASSUME LocksInv, ListsOK, NEW t \in Threads, pc[t] # "idle"
  PROVE  Ev(t) \in created <=> ~Destroying(t)
<1>1. Using(t) /\ Calling(t) BY DEF ListsOK, Using, LocksInv
<1>2. call[t].i \in 1 .. Len(call[t].list) BY <1>1 DEF Calling
<1> QED BY <1>1, <1>2 DEF Using, Ev

(* The owner of a waiter has owned it before, or just created it.           *)
LEMMA OwnerBefore ==
  ASSUME LocksInv, NEW t \in Threads, Step(t), NEW u \in Threads,
         NEW o \in Waiters, Owner(o, u)'
  PROVE  \/ Owner(o, u)
         \/ WaitForMultipleEvents(t) /\ u = t /\ o \notin live
<1>1. CASE u # t BY <1>1, OthersStay
<1>2. CASE u = t /\ WaitForMultipleEvents(t)
  <2>1. PICK p \in Waiters \ live : call'[t].own = {p} BY <1>2, BeginIs
  <2>2. \A q : Owner(q, t)' <=> q = p BY <1>2, <2>1, OwnerBegins
  <2> QED BY <1>2, <2>2
<1>3. CASE u = t /\ Finish(t)
  <2>1. \A q : ~Owner(q, t)' BY <1>3, OwnerEnds
  <2> QED BY <1>3, <2>1
<1>4. CASE ~WaitForMultipleEvents(t) /\ ~Finish(t) BY <1>4, OwnersSame
<1> QED BY <1>1, <1>2, <1>3, <1>4

(* Calls use events that exist, and a destroyed event is left empty.        *)
LEMMA ListsStep ==
  ASSUME LocksInv, ListsOK, NEW t \in Threads, Step(t)
  PROVE  ListsOK'
<1>1. \A u \in Threads : Using(u)' BY UsingStep
<1>2. ASSUME NEW e \in Events \ created', held'[e] = NoThread
      PROVE  waits'[e] = <<>>
  <2>1. \A u \in Threads : held[e] = u <=> pc[u] \in HoldsEvent /\ Ev(u) = e
    BY DEF LocksInv, HeldOK
  <2>2. \A u \in Threads \ {t} : held'[e] = u <=> held[e] = u
    BY HeldStep DEF HeldMoved
  <2>3. held[e] \in Threads \cup {NoThread} BY DEF LocksInv, TypesOK
  <2>4. e \notin created
    <3>1. SUFFICES ASSUME e \in created PROVE FALSE OBVIOUS
    <3>2. DestroyEvent(t, e)
      <4>1. \A f \in Events : CreateEvent(t, f) => created' = created \cup {f}
        BY DEF CreateEvent
      <4>2. \A f \in Events : DestroyEvent(t, f) => created' = created \ {f}
        BY DEF DestroyEvent
      <4>3. created \subseteq Events BY DEF LocksInv, TypesOK
      <4> QED BY <1>2, <3>1, <4>1, <4>2, <4>3, CreatedMoved
    <3>3. held' = [held EXCEPT ![e] = t] BY <3>2 DEF DestroyEvent, Enter, Lock
    <3>4. held'[e] = t BY <3>3 DEF LocksInv, TypesOK
    <3> QED BY <1>2, <3>4
  <2>5. CASE held[e] = NoThread
    <3>1. waits[e] = <<>> BY <2>4, <2>5 DEF ListsOK
    <3>2. ~(pc[t] \in HoldsEvent /\ Ev(t) = e) BY <2>1, <2>5
    <3>3. waits'[e] = waits[e] BY <3>2, WaitsStep DEF WaitsMoved
    <3> QED BY <3>1, <3>3
  <2>6. CASE held[e] # NoThread
    <3>1. held[e] = t BY <1>2, <2>2, <2>3, <2>6
    <3>2. pc[t] \in HoldsEvent /\ Ev(t) = e BY <2>1, <3>1
    <3>3. Destroying(t) BY <2>4, <3>2, EvCreated DEF HoldsEvent
    <3>4. Delete(t)
      <4>1. ~ScanStep(t)
        BY <1>2, <3>1 DEF ScanStep, ScanBusy, ScanTry, ScanKeep, ScanDrop,
           events
      <4>2. \A f \in Events : ~ResetEvent(t, f)
        BY <3>2 DEF ResetEvent, HoldsEvent
      <4> QED BY <3>3, <4>1, <4>2, DestroyingStep
    <3> QED BY <3>2, <3>4 DEF Delete, LocksInv, TypesOK, WaitLists
  <2> QED BY <2>5, <2>6
<1>3. ASSUME NEW u \in Threads, NEW o \in Waiters, Owner(o, u)'
      PROVE  call'[u].list \in Lists
  <2>1. CASE Owner(o, u)
    <3>1. call'[u].list = call[u].list BY <1>3, <2>1, ProbedMoved
    <3> QED BY <2>1, <3>1 DEF ListsOK
  <2>2. CASE WaitForMultipleEvents(t) /\ u = t
    BY <2>2, BeginIs
  <2> QED BY <1>3, <2>1, <2>2, OwnerBefore
<1> QED BY <1>1, <1>2, <1>3 DEF ListsOK, Using
-----------------------------------------------------------------------------
(* A waiter that can still be fired: its caller waits for all events, or    *)
(* has not been given one.                                                  *)
WaitersOK ==
  /\ \A o \in Waiters, t \in Threads : Owner(o, t) =>
       /\ waiter[o].all => waiter[o].still
       /\ Probing(t) => waiter[o].still
       /\ Probing(t) /\ ~waiter[o].all => waiter[o].status = -1
  /\ \A o \in Waiters :
       waiter[o].still /\ ~waiter[o].all /\ waiter[o].status # -1
         => \E t \in Threads : pc[t] = "finish" /\ o \in call[t].own

(* Nobody who has asked for all events asks again.                          *)
LEMMA ProbingMoved ==
  ASSUME LocksInv, NEW t \in Threads, Step(t), NEW u \in Threads,
         NEW o \in Waiters, Owner(o, u), Owner(o, u)', Probing(u)'
  PROVE  Probing(u)
<1>1. CASE u = t /\ (ProbeFired(t) \/ Register(t)) BY <1>1, NextEventIs
<1>2. CASE ~(u = t /\ (ProbeFired(t) \/ Register(t))) BY <1>2, ProbingSame
<1> QED BY <1>1, <1>2

-----------------------------------------------------------------------------
(* What has been fired, and how often.                                      *)

(* What a step does to a waiter that exists already.                        *)
Freed(o) == o \in live /\ o \notin live' /\ waiter'[o] = Blank
Unfired(o) == /\ waiter'[o].all = waiter[o].all
              /\ waiter'[o].still = waiter[o].still
              /\ waiter'[o].status = waiter[o].status
Counted(o) == /\ waiter'[o].all = waiter[o].all
              /\ waiter[o].all => waiter'[o].status = waiter[o].status - 1

(* The steps that change more of a waiter than its mutex differ.            *)
LEMMA OneOfThem ==
  ASSUME NEW t \in Threads
  PROVE  /\ Hand(t) => ~Finish(t) /\ ~ProbeFired(t) /\ ~Register(t)
         /\ Finish(t) => ~ProbeFired(t) /\ ~Register(t)
         /\ ProbeFired(t) => ~Register(t)
BY DEF Hand, Finish, ProbeFired, Register, Scanned

(* A waiter is freed, is left as it was but for its mutex and count, ends   *)
(* its call, or is fired.                                                   *)
LEMMA WaiterMoves ==
  ASSUME LocksInv, NEW t \in Threads, Step(t), ~WaitForMultipleEvents(t),
         NEW o \in Waiters
  PROVE  \/ Freed(o)
         \/ /\ o \in live' <=> o \in live
            /\ \/ /\ Unfired(o)
                  /\ o = Own(t) => ~Finish(t) /\ ~Hand(t) /\ ~ProbeFired(t)
               \/ /\ Finish(t) /\ o = Own(t) /\ ~waiter'[o].still
                  /\ waiter'[o].all = waiter[o].all
                  /\ waiter'[o].status = waiter[o].status
               \/ /\ Hand(t) /\ o = Own(t) /\ Counted(o)
                  /\ waiter'[o].still = waiter[o].all
               \/ /\ ProbeFired(t) /\ o = Own(t) /\ Counted(o)
                  /\ waiter'[o].still = waiter[o].still
<1>0. /\ waiter \in [Waiters -> Objects] /\ live \subseteq Waiters
      /\ call[t] \in Calls
  BY DEF LocksInv, TypesOK
<1>1. CASE Hand(t)
  <2> DEFINE v == Fired(waiter[Own(t)], Head(waits[Ev(t)]).index)
             w == [v EXCEPT !.refs = @ - 1, !.still = v.all]
  <2>1. /\ pc[t] = "hand" /\ Release(Own(t), w)
    BY <1>1 DEF Hand
  <2>2. /\ Own(t) \in live /\ waiter[Own(t)] \in Objects
        /\ waiter[Own(t)].refs > 0
    BY <2>1, OwnWaiter
  <2>3. Head(waits[Ev(t)]).index \in Int
    <3>1. waits[Ev(t)] # <<>> BY <2>1 DEF LocksInv, Calling
    <3> QED BY <2>1, <3>1, HandIs DEF Entries
  <2>4. /\ v \in Objects /\ v.refs = waiter[Own(t)].refs
        /\ v.all = waiter[Own(t)].all
        /\ v.all => v.status = waiter[Own(t)].status - 1
    <3>1. v \in Objects BY <2>2, <2>3, FiredIs
    <3>2. v.refs = waiter[Own(t)].refs BY <2>2, <2>3, FiredIs
    <3>3. v.all = waiter[Own(t)].all BY <2>2, <2>3, FiredIs
    <3>4. v.status = IF waiter[Own(t)].all THEN waiter[Own(t)].status - 1
                     ELSE Head(waits[Ev(t)]).index
      BY <2>2, <2>3, FiredIs
    <3> HIDE DEF v
    <3> QED BY <3>1, <3>2, <3>3, <3>4
  <2> HIDE DEF v
  <2>5. v.all \in BOOLEAN /\ v.refs > 0 BY <2>2, <2>4 DEF Objects
  <2>6. /\ w \in Objects /\ w.all = v.all /\ w.still = v.all
        /\ w.status = v.status
    <3>1. w \in Objects BY <2>4, <2>5, LessRefs
    <3>2. w.all = v.all BY <2>4 DEF Objects
    <3>3. w.still = v.all BY <2>4 DEF Objects
    <3>4. w.status = v.status BY <2>4 DEF Objects
    <3> QED BY <3>1, <3>2, <3>3, <3>4
  <2> HIDE DEF w
  <2>7. /\ \A p \in Waiters \ {Own(t)} : waiter'[p] = waiter[p]
        /\ IF w.refs = 0
           THEN waiter'[Own(t)] = Blank /\ live' = live \ {Own(t)}
           ELSE /\ live' = live /\ waiter'[Own(t)].all = w.all
                /\ waiter'[Own(t)].still = w.still
                /\ waiter'[Own(t)].status = w.status
    BY <1>0, <2>1, <2>2, <2>6, ReleaseIs
  <2>8. CASE o = Own(t)
    BY <1>1, <2>2, <2>4, <2>6, <2>7, <2>8 DEF Freed, Counted
  <2>9. CASE o # Own(t)
    <3>1. waiter'[o] = waiter[o] /\ (o \in live' <=> o \in live)
      BY <2>7, <2>9
    <3> QED BY <2>9, <3>1 DEF Unfired
  <2> QED BY <2>8, <2>9
<1>2. CASE ProbeFired(t)
  <2>1. /\ pc[t] = "scan" /\ call[t].own # {} /\ live' = live
        /\ waiter' = [waiter EXCEPT ![Own(t)] = Fired(@, call[t].i - 1)]
    BY <1>2 DEF ProbeFired, Scanned
  <2>2. Own(t) \in live /\ waiter[Own(t)] \in Objects BY <2>1, OwnWaiter
  <2>3. call[t].i - 1 \in Int BY <1>0 DEF Calls
  <2> DEFINE w == Fired(waiter[Own(t)], call[t].i - 1)
  <2>4. /\ w.all = waiter[Own(t)].all /\ w.still = waiter[Own(t)].still
        /\ waiter[Own(t)].all => w.status = waiter[Own(t)].status - 1
    BY <2>2, <2>3, FiredIs
  <2>5. waiter' = [waiter EXCEPT ![Own(t)] = w] BY <2>1
  <2> HIDE DEF w
  <2>6. CASE o = Own(t)
    <3>1. waiter'[o] = w BY <1>0, <2>5, <2>6
    <3> QED BY <1>2, <2>1, <2>4, <2>6, <3>1 DEF Counted
  <2>7. CASE o # Own(t)
    <3>1. waiter'[o] = waiter[o] BY <1>0, <2>5, <2>7
    <3> QED BY <2>1, <2>7, <3>1 DEF Unfired
  <2> QED BY <2>6, <2>7
<1>3. CASE Register(t)
  <2>1. /\ pc[t] = "scan" /\ call[t].own # {} /\ live' = live
        /\ waiter' = [waiter EXCEPT ![Own(t)].refs = @ + 1]
    BY <1>3 DEF Register, Scanned
  <2>2. Own(t) \in live /\ waiter[Own(t)] \in Objects BY <2>1, OwnWaiter
  <2>3. Unfired(o)
    <3>1. CASE o = Own(t) BY <1>0, <2>1, <2>2, <3>1 DEF Unfired, Objects
    <3>2. CASE o # Own(t)
      <4>1. waiter'[o] = waiter[o] BY <1>0, <2>1, <3>2
      <4> QED BY <4>1 DEF Unfired
    <3> QED BY <3>1, <3>2
  <2> QED BY <1>3, <2>1, <2>3, OneOfThem
<1>4. CASE Finish(t)
  <2> DEFINE w == [waiter[Own(t)] EXCEPT !.refs = @ - 1, !.still = FALSE]
  <2>1. pc[t] = "finish" /\ Release(Own(t), w) BY <1>4 DEF Finish
  <2>2. /\ Own(t) \in live /\ waiter[Own(t)] \in Objects
        /\ waiter[Own(t)].refs > 0
    BY <2>1, OwnWaiter
  <2>3. /\ w \in Objects /\ w.all = waiter[Own(t)].all /\ w.still = FALSE
        /\ w.status = waiter[Own(t)].status
    BY <2>2, LessRefs
  <2> HIDE DEF w
  <2>4. /\ \A p \in Waiters \ {Own(t)} : waiter'[p] = waiter[p]
        /\ IF w.refs = 0
           THEN waiter'[Own(t)] = Blank /\ live' = live \ {Own(t)}
           ELSE /\ live' = live /\ waiter'[Own(t)].all = w.all
                /\ waiter'[Own(t)].still = w.still
                /\ waiter'[Own(t)].status = w.status
    BY <1>0, <2>1, <2>2, <2>3, ReleaseIs
  <2>5. CASE o = Own(t)
    BY <1>4, <2>2, <2>3, <2>4, <2>5 DEF Freed
  <2>6. CASE o # Own(t)
    <3>1. waiter'[o] = waiter[o] /\ (o \in live' <=> o \in live)
      BY <2>4, <2>6
    <3> QED BY <2>6, <3>1 DEF Unfired
  <2> QED BY <2>5, <2>6
<1>5. CASE ~Hand(t) /\ ~ProbeFired(t) /\ ~Register(t) /\ ~Finish(t)
  <2>1. CASE waiter' = waiter /\ live' = live BY <1>5, <2>1 DEF Unfired
  <2>2. CASE \E p \in live : Acquire(p, t) /\ live' = live
    <3>1. PICK p \in live : Acquire(p, t) /\ live' = live BY <2>2
    <3>2. CASE o = p BY <1>0, <1>5, <3>1, <3>2, AcquireIs DEF Unfired
    <3>3. CASE o # p
      <4>1. waiter'[o] = waiter[o] BY <1>0, <3>1, <3>3, AcquireIs
      <4> QED BY <1>5, <3>1, <4>1 DEF Unfired
    <3> QED BY <3>2, <3>3
  <2>3. CASE \E p \in live : \E w \in Objects :
               /\ Release(p, w) /\ w.all = waiter[p].all
               /\ w.status = waiter[p].status /\ w.still = waiter[p].still
    <3>1. PICK p \in live : \E w \in Objects :
               /\ Release(p, w) /\ w.all = waiter[p].all
               /\ w.status = waiter[p].status /\ w.still = waiter[p].still
      BY <2>3
    <3>2. PICK w \in Objects :
               /\ Release(p, w) /\ w.all = waiter[p].all
               /\ w.status = waiter[p].status /\ w.still = waiter[p].still
      BY <3>1
    <3>3. /\ \A q \in Waiters \ {p} : waiter'[q] = waiter[q]
          /\ IF w.refs = 0 THEN waiter'[p] = Blank /\ live' = live \ {p}
             ELSE /\ live' = live /\ waiter'[p].all = w.all
                  /\ waiter'[p].still = w.still
                  /\ waiter'[p].status = w.status
      BY <1>0, <3>1, <3>2, ReleaseIs
    <3>4. CASE o = p BY <1>5, <3>1, <3>2, <3>3, <3>4 DEF Freed, Unfired
    <3>5. CASE o # p
      <4>1. waiter'[o] = waiter[o] /\ (o \in live' <=> o \in live)
        BY <3>3, <3>5
      <4> QED BY <1>5, <4>1 DEF Unfired
    <3> QED BY <3>4, <3>5
  <2> QED BY <1>5, <2>1, <2>2, <2>3, WaiterTouched
<1> QED BY <1>1, <1>2, <1>3, <1>4, <1>5

(* A call that begins.                                                      *)
LEMMA NewWaiter ==
  ASSUME LocksInv, NEW t \in Threads, WaitForMultipleEvents(t)
  PROVE  \E list \in Lists, p \in Waiters \ live :
           /\ call'[t].own = {p} /\ call'[t].list = list /\ call'[t].i = 1
           /\ \A q \in Waiters \ {p} : waiter'[q] = waiter[q]
           /\ waiter'[p].still /\ live' = live \cup {p}
           /\ waiter'[p].status = IF waiter'[p].all THEN Len(list) ELSE -1
<1>1. PICK list \in Lists, all \in BOOLEAN, p \in Waiters \ live :
           /\ \A i \in 1 .. Len(list) : list[i] \in created
           /\ list \in Seq(Events) /\ Len(list) \in Nat /\ list # <<>>
           /\ live' = live \cup {p} /\ waiter' \in [Waiters -> Objects]
           /\ \A q \in Waiters \ {p} : waiter'[q] = waiter[q]
           /\ waiter'[p] = [holder |-> t, refs |-> 1, all |-> all,
                            still |-> TRUE,
                            status |-> IF all THEN Len(list) ELSE -1]
           /\ call'[t].list = list /\ call'[t].i = 1 /\ call'[t].k = 1
           /\ call'[t].own = {p} /\ ~call'[t].timedout
           /\ call' \in [Threads -> Calls]
  BY BeginIs
<1>2. /\ waiter'[p].still /\ waiter'[p].all = all
      /\ waiter'[p].status = IF all THEN Len(list) ELSE -1
  BY <1>1
<1> QED BY <1>1, <1>2

(* A waiter that is owned after a step exists after it.                     *)
LEMMA AliveAfter ==
  ASSUME LocksInv', NEW o \in Waiters, NEW u \in Threads, Owner(o, u)'
  PROVE  o \in live' /\ waiter'[o].refs > 0
<1>1. NumPlaces(waits', o) \in Nat BY CountType DEF LocksInv, TypesOK
<1>2. /\ waiter'[o].refs = NumPlaces(waits', o) + leaked'[o] + Owned(o)'
      /\ leaked'[o] \in Nat
  BY DEF LocksInv, RefsOK, TypesOK
<1>3. Owned(o)' = 1 BY DEF Owned
<1>4. o \notin live' => waiter'[o].refs = 0 BY DEF LocksInv, UnusedOK, Blank
<1> QED BY <1>1, <1>2, <1>3, <1>4

(* Only one thread has a waiter locked.                                     *)
LEMMA OneHolder ==
  ASSUME LocksInv, NEW o \in Waiters, NEW t \in Threads, NEW u \in Threads,
         o \in Holding(t), o \in Holding(u)
  PROVE  t = u
<1>1. waiter[o].holder = t /\ waiter[o].holder = u BY DEF LocksInv, LocksOK
<1> QED BY <1>1

(* The waiter that is fired is locked by who fires it.                      *)
LEMMA HandHolds ==
  ASSUME LocksInv, NEW t \in Threads, Hand(t)
  PROVE  /\ pc[t] = "hand" /\ Own(t) \in Waiters /\ Own(t) \in live
         /\ Own(t) \in Holding(t) /\ waiter[Own(t)].still
         /\ pc'[t] = "signal" /\ call'[t] = call[t]
<1>1. pc[t] = "hand" /\ waiter[Own(t)].still /\ call' = call BY DEF Hand
<1>2. pc'[t] = "signal" BY DEF Hand, Goto, LocksInv, TypesOK
<1> QED BY <1>1, <1>2, OwnWaiter DEF Holding

(* Firing an event that was set already.                                    *)
LEMMA ProbeOwns ==
  ASSUME LocksInv, NEW t \in Threads, ProbeFired(t)
  PROVE  /\ pc[t] = "scan" /\ Probing(t) /\ Own(t) \in Waiters
         /\ Owner(Own(t), t) /\ Own(t) \in live
         /\ ~waiter[Own(t)].all => pc'[t] = "finish" /\ call' = call
<1>1. pc[t] = "scan" /\ call[t].own # {} BY DEF ProbeFired, Scanned
<1>2. ~waiter[Own(t)].all => pc'[t] = "finish" /\ call' = call
  BY DEF ProbeFired, Goto, LocksInv, TypesOK
<1> QED BY <1>1, <1>2, OwnWaiter DEF Probing, Owner, HoldsOwn

(* The waiter whose call ends is owned by the caller.                       *)
LEMMA FinishOwns ==
  ASSUME LocksInv, NEW t \in Threads, Finish(t)
  PROVE  /\ pc[t] = "finish" /\ Own(t) \in Waiters /\ Owner(Own(t), t)
BY OwnWaiter DEF Finish, Owner, HoldsOwn

(* A call at its end does nothing but end.                                  *)
LEMMA AtFinish ==
  ASSUME LocksInv, NEW t \in Threads, Step(t), pc[t] = "finish"
  PROVE  Finish(t)
BY DEF Step, SetterStep, MultiStep, WaitStep, ScanStep, SetEvent,
   ResetEvent, LockRegistered, Expire, Hand, Signal, NoneRegistered, Wake,
   WaitForEvent, TakeEvent, GiveUp, Sleep, Relock, WakeSpurious,
   WakeTimedOut, ScanBusy, ScanTry, ScanKeep, ScanDrop, Delete, Scanned,
   CreateEvent, DestroyEvent, WaitForMultipleEvents, LockNext, ProbeFired,
   Register, LoopEnds, Doze, Redoze, Enter

Owning(o, u) ==
  /\ waiter[o].all => waiter[o].still
  /\ Probing(u) => waiter[o].still
  /\ Probing(u) /\ ~waiter[o].all => waiter[o].status = -1

(* A waiter whose caller still asks for events has not been fired.          *)
LEMMA OwningStep ==
  ASSUME LocksInv, LocksInv', WaitersOK, NEW t \in Threads, Step(t),
         NEW o \in Waiters, NEW u \in Threads, Owner(o, u)'
  PROVE  Owning(o, u)'
<1>0. waiter \in [Waiters -> Objects] BY DEF LocksInv, TypesOK
<1>1. CASE ~Owner(o, u)
  <2>1. WaitForMultipleEvents(t) /\ u = t BY <1>1, OwnerBefore
  <2>2. PICK p \in Waiters \ live :
          /\ call'[t].own = {p} /\ waiter'[p].still
          /\ ~waiter'[p].all => waiter'[p].status = -1
    BY <2>1, NewWaiter
  <2>3. o = p BY <2>1, <2>2 DEF Owner
  <2> QED BY <2>2, <2>3 DEF Owning
<1>2. CASE Owner(o, u)
  <2>0. Owning(o, u) BY <1>2 DEF WaitersOK, Owning
  <2>1. Probing(u)' => Probing(u) BY <1>2, ProbingMoved
  <2>2. CASE Unfired(o) BY <2>0, <2>1, <2>2 DEF Owning, Unfired
  <2>3. CASE WaitForMultipleEvents(t)
    <3>1. PICK p \in Waiters \ live :
            \A q \in Waiters \ {p} : waiter'[q] = waiter[q]
      BY <2>3, BeginIs
    <3>2. o \in live BY <1>2, Alive
    <3>3. waiter'[o] = waiter[o] BY <3>1, <3>2
    <3> QED BY <2>2, <3>3 DEF Unfired
  <2>4. CASE ~WaitForMultipleEvents(t)
    <3>1. CASE Freed(o)
      <4>1. o \in live' BY AliveAfter
      <4> QED BY <3>1, <4>1 DEF Freed
    <3>2. CASE Finish(t) /\ o = Own(t)
      <4>1. u = t BY <1>2, <3>2, FinishOwns DEF LocksInv, OwnersOK
      <4>2. ~Owner(o, t)' BY <3>2, OwnerEnds
      <4> QED BY <4>1, <4>2
    <3>3. CASE /\ Hand(t) /\ o = Own(t) /\ Counted(o)
               /\ waiter'[o].still = waiter[o].all
      <4>1. o \in Holding(t) /\ pc[t] = "hand" BY <3>3, HandHolds
      <4>2. Probing(u) => o \in Holding(u)
        BY <1>2 DEF Probing, Owner, Holding, HoldsOwn
      <4>3. ~Probing(u) BY <4>1, <4>2, OneHolder DEF Probing
      <4> QED BY <2>1, <3>3, <4>3 DEF Owning, Counted
    <3>4. CASE /\ ProbeFired(t) /\ o = Own(t) /\ Counted(o)
               /\ waiter'[o].still = waiter[o].still
      <4>1. u = t BY <1>2, <3>4, ProbeOwns DEF LocksInv, OwnersOK
      <4>2. ~waiter[o].all => ~Probing(u)'
        BY <3>4, <4>1, ProbeOwns DEF Probing
      <4> QED BY <2>0, <2>1, <3>4, <4>2 DEF Owning, Counted
    <3> QED BY <2>2, <2>4, <3>1, <3>2, <3>3, <3>4, WaiterMoves
  <2> QED BY <2>3, <2>4
<1> QED BY <1>1, <1>2

(* A waiter that has been given its event can be given no other.            *)
LEMMA GivenStep ==
  ASSUME LocksInv, WaitersOK, NEW t \in Threads, Step(t),
         NEW o \in Waiters, waiter'[o].still, ~waiter'[o].all,
         waiter'[o].status # -1
  PROVE  \E u \in Threads : pc'[u] = "finish" /\ o \in call'[u].own
<1>0. waiter \in [Waiters -> Objects] BY DEF LocksInv, TypesOK
<1>1. ASSUME NEW u \in Threads, u # t, pc[u] = "finish", o \in call[u].own
      PROVE  pc'[u] = "finish" /\ o \in call'[u].own
  BY <1>1, CallsStep DEF CallsMoved
<1>2. CASE WaitForMultipleEvents(t)
  <2>1. PICK p \in Waiters \ live :
          /\ \A q \in Waiters \ {p} : waiter'[q] = waiter[q]
          /\ ~waiter'[p].all => waiter'[p].status = -1
    BY <1>2, NewWaiter
  <2>2. o # p BY <2>1
  <2>3. waiter'[o] = waiter[o] BY <2>1, <2>2
  <2>4. PICK u \in Threads : pc[u] = "finish" /\ o \in call[u].own
    BY <2>3 DEF WaitersOK
  <2>5. u # t BY <1>2, <2>4 DEF WaitForMultipleEvents
  <2> QED BY <1>1, <2>4, <2>5
<1>3. CASE ~WaitForMultipleEvents(t)
  <2>1. CASE Freed(o) BY <2>1 DEF Freed, Blank
  <2>2. CASE Finish(t) /\ o = Own(t) /\ ~waiter'[o].still BY <2>2
  <2>3. CASE /\ Hand(t) /\ o = Own(t) /\ Counted(o)
             /\ waiter'[o].still = waiter[o].all
    BY <2>3 DEF Counted
  <2>4. CASE ProbeFired(t) /\ o = Own(t) /\ Counted(o)
    <3>1. ~waiter[o].all BY <2>4 DEF Counted
    <3>2. pc'[t] = "finish" /\ call' = call /\ Owner(o, t)
      BY <2>4, <3>1, ProbeOwns
    <3> QED BY <3>2 DEF Owner
  <2>5. CASE Unfired(o) /\ (o = Own(t) => ~Finish(t))
    <3>1. PICK u \in Threads : pc[u] = "finish" /\ o \in call[u].own
      BY <2>5 DEF WaitersOK, Unfired
    <3>2. u # t
      <4>1. SUFFICES ASSUME u = t PROVE FALSE OBVIOUS
      <4>2. Finish(t) BY <3>1, <4>1, AtFinish
      <4>3. call[t].own = {Own(t)} BY <3>1, <4>1, OwnWaiter
      <4> QED BY <2>5, <3>1, <4>1, <4>2, <4>3
    <3> QED BY <1>1, <3>1, <3>2
  <2> QED BY <1>3, <2>1, <2>2, <2>3, <2>4, <2>5, WaiterMoves
<1> QED BY <1>2, <1>3

(* All of WaitersOK is kept.                                                *)
LEMMA WaitersStep ==
  ASSUME LocksInv, LocksInv', WaitersOK, NEW t \in Threads, Step(t)
  PROVE  WaitersOK'
BY OwningStep, GivenStep DEF WaitersOK, Owning

FiredStays == \A o \in live \cap live' :
                ~waiter[o].all /\ waiter[o].status # -1
                  => waiter'[o].status = waiter[o].status

(* No step fires a waiter for any event that has been fired.                *)
LEMMA FiredStep ==
  ASSUME LocksInv, WaitersOK, NEW t \in Threads, Step(t)
  PROVE  FiredStays
<1> SUFFICES ASSUME NEW o \in live, o \in live', ~waiter[o].all,
                    waiter[o].status # -1
             PROVE  waiter'[o].status = waiter[o].status
  BY DEF FiredStays
<1>0. live \subseteq Waiters /\ o \in Waiters BY DEF LocksInv, TypesOK
<1>1. CASE WaitForMultipleEvents(t)
  <2>1. PICK p \in Waiters \ live :
          \A q \in Waiters \ {p} : waiter'[q] = waiter[q]
    BY <1>1, BeginIs
  <2> QED BY <1>0, <2>1
<1>2. CASE ~WaitForMultipleEvents(t)
  <2>1. CASE Hand(t) /\ o = Own(t)
    <3>1. waiter[o].still /\ pc[t] = "hand" /\ o \in Holding(t)
      BY <2>1, HandHolds
    <3>2. PICK u \in Threads : pc[u] = "finish" /\ o \in call[u].own
      BY <1>0, <3>1 DEF WaitersOK
    <3>3. o \in Holding(u) BY <3>2 DEF Holding, HoldsOwn
    <3>4. u = t BY <1>0, <3>1, <3>3, OneHolder
    <3> QED BY <3>1, <3>2, <3>4
  <2>2. CASE ProbeFired(t) /\ o = Own(t)
    <3>1. Probing(t) /\ Owner(o, t) BY <2>2, ProbeOwns
    <3> QED BY <1>0, <3>1 DEF WaitersOK
  <2> QED BY <1>0, <1>2, <2>1, <2>2, WaiterMoves DEF Freed, Unfired
<1> QED BY <1>1, <1>2

-----------------------------------------------------------------------------
(* The events that are left.                                                *)

(* LeftCounted, with the count of LocksInv.                                 *)
LeftOK == \A o \in Waiters, t \in Threads : Owner(o, t) /\ waiter[o].all
            => waiter[o].status = NumPlaces(waits, o) + Unprobed(t)

(* LeftOK counts what LeftCounted counts.                                   *)
LEMMA LeftIsCounted == ASSUME LeftOK PROVE LeftCounted
<1>1. \A o : Count(o) = NumPlaces(waits, o)
  BY DEF Count, NumPlaces, Places, PlacesIn, Registrations
<1> QED BY <1>1 DEF LeftOK, LeftCounted

(* The events still to be asked for change only by asking.                  *)
LEMMA UnprobedSame ==
  ASSUME LocksInv, NEW t \in Threads, Step(t), NEW u \in Threads,
         NEW o \in Waiters, Owner(o, u)', Owner(o, u),
         ~(u = t /\ (ProbeFired(t) \/ Register(t)))
  PROVE  Unprobed(u)' = Unprobed(u)
BY ProbingSame DEF Unprobed, Probing

(* An event that has been asked for is one less to ask for.                 *)
LEMMA UnprobedLess ==
  ASSUME LocksInv, NEW t \in Threads,
         Register(t) \/ (ProbeFired(t) /\ waiter[Own(t)].all)
  PROVE  Unprobed(t) \in Int /\ Unprobed(t)' = Unprobed(t) - 1
<1>1. NextEvent(t) BY NextEventIs, OneOfThem
<1>2. /\ Probing(t) /\ call'[t].list = call[t].list
      /\ call[t].i \in 1 .. Len(call[t].list) /\ Len(call[t].list) \in Nat
      /\ IF call[t].i < Len(call[t].list)
         THEN Probing(t)' /\ call'[t].i = call[t].i + 1
         ELSE ~Probing(t)'
  BY <1>1, NextEventIs
<1>3. Unprobed(t) = Len(call[t].list) - call[t].i + 1
  BY <1>2 DEF Unprobed, Probing
<1>4. CASE call[t].i < Len(call[t].list)
  <2>1. Unprobed(t)' = Len(call[t].list) - (call[t].i + 1) + 1
    BY <1>2, <1>4 DEF Unprobed, Probing
  <2> QED BY <1>2, <1>3, <2>1
<1>5. CASE ~(call[t].i < Len(call[t].list))
  <2>1. Unprobed(t)' = 0 BY <1>2, <1>5 DEF Unprobed, Probing
  <2> QED BY <1>2, <1>3, <1>5, <2>1
<1> QED BY <1>4, <1>5

(* A waiter that is owned is not registered with an event that is           *)
(* destroyed.                                                               *)
LEMMA NotDeleted ==
  ASSUME LocksInv, ListsOK, PlacesOK, NEW t \in Threads, Delete(t),
         NEW o \in Waiters, NEW u \in Threads, Owner(o, u)
  PROVE  PlacesIn(waits, o, Ev(t)) = {}
<1>1. pc[t] = "scan" /\ call[t].own = {} BY DEF Delete, Scanned
<1>2. Destroying(t) /\ Ev(t) \in Events BY <1>1, HandIs DEF Destroying
<1>3. Ev(t) \notin created BY <1>2 DEF ListsOK
<1>4. ~Destroying(u) BY DEF Destroying, Owner
<1>5. \A m \in 1 .. Len(call[u].list) : call[u].list[m] \in created
  BY <1>4 DEF ListsOK
<1>6. /\ call[u] \in Calls /\ Calling(u) /\ pc[u] # "idle"
      /\ Len(call[u].list) \in Nat
  BY LenProperties DEF LocksInv, TypesOK, Calls, Owner, HoldsOwn
<1>7. Probed(u) \in Int /\ Probed(u) <= Len(call[u].list)
  BY <1>6 DEF Probed, Calling, Calls
<1>8. ASSUME NEW k \in 1 .. Len(waits[Ev(t)]), waits[Ev(t)][k].waiter = o
      PROVE  FALSE
  <2>1. PICK m \in 1 .. Probed(u) : call[u].list[m] = Ev(t)
    BY <1>2, <1>8 DEF PlacesOK
  <2>2. m \in 1 .. Len(call[u].list) BY <1>6, <1>7, <2>1
  <2> QED BY <1>3, <1>5, <2>1, <2>2
<1>9. PlacesIn(waits, o, Ev(t)) \subseteq 1 .. Len(waits[Ev(t)])
  BY <1>2, PlacesBelow DEF LocksInv, TypesOK
<1> QED BY <1>8, <1>9 DEF PlacesIn

(* The registrations of a waiter, after a step.                             *)
LEMMA CountMoved ==
  ASSUME LocksInv, ListsOK, PlacesOK, WaitersOK, NEW t \in Threads, Step(t),
         NEW o \in Waiters, NEW u \in Threads, Owner(o, u), waiter[o].all
  PROVE  /\ NumPlaces(waits, o) \in Nat
         /\ NumPlaces(waits', o) =
              IF Hand(t) /\ o = Own(t) THEN NumPlaces(waits, o) - 1
              ELSE IF Register(t) /\ o = Own(t) THEN NumPlaces(waits, o) + 1
              ELSE NumPlaces(waits, o)
<1>0. /\ waits \in WaitLists /\ NumPlaces(waits, o) \in Nat
      /\ waits' \in WaitLists /\ NumPlaces(waits', o) \in Nat
  <2>1. waits \in WaitLists BY DEF LocksInv, TypesOK
  <2>2. waits' \in WaitLists BY WaitsStep DEF WaitsMoved
  <2> QED BY <2>1, <2>2, CountType
<1>1. waiter[o].still BY DEF WaitersOK
<1>2. ASSUME NEW e \in Events, NEW k \in 1 .. Len(waits[e]),
             NEW r \in Seq(Entries), Without(waits[e], k, r),
             waits' = [waits EXCEPT ![e] = r]
      PROVE  NumPlaces(waits', o) = IF waits[e][k].waiter = o
                                 THEN NumPlaces(waits, o) - 1
                                 ELSE NumPlaces(waits, o)
  <2>1. waits' = Put(waits, e, r) BY <1>2 DEF Put
  <2>2. NumPlaces(waits, o) =
          NumPlaces(waits', o) + (IF waits[e][k].waiter = o THEN 1 ELSE 0)
    <3>1. waits \in WaitLists /\ Without(waits[e], k, r) BY <1>0, <1>2
    <3> QED BY ONLY <2>1, <3>1, CountRemove, e \in Events,
                    k \in 1 .. Len(waits[e]), r \in Seq(Entries)
  <2> QED BY <1>0, <2>2
<1>3. CASE Hand(t) \/ Expire(t)
  <2>1. pc[t] = "hand" /\ waits' = [waits EXCEPT ![Ev(t)] = Tail(@)]
    BY <1>3 DEF Hand, Expire
  <2>2. /\ Ev(t) \in Events /\ 1 \in 1 .. Len(waits[Ev(t)])
        /\ waits[Ev(t)][1].waiter = Own(t)
        /\ Tail(waits[Ev(t)]) \in Seq(Entries)
        /\ Without(waits[Ev(t)], 1, Tail(waits[Ev(t)]))
    BY <2>1, TailMoves
  <2>3. NumPlaces(waits', o) = IF Own(t) = o THEN NumPlaces(waits, o) - 1
                             ELSE NumPlaces(waits, o)
    BY <1>2, <2>1, <2>2
  <2>4. Expire(t) => o # Own(t) BY <1>1 DEF Expire
  <2>5. ~Register(t) BY <2>1 DEF Register, Scanned
  <2> QED BY <1>0, <1>3, <2>3, <2>4, <2>5
<1>4. CASE ScanDrop(t)
  <2>1. PICK r \in Seq(Entries) : /\ Without(waits[Ev(t)], call[t].k, r)
                                  /\ waits' = [waits EXCEPT ![Ev(t)] = r]
    BY <1>4, CutMoves
  <2>2. Ev(t) \in Events /\ call[t].k \in 1 .. Len(waits[Ev(t)])
    BY <1>4, CutMoves
  <2>3. pc[t] = "drop" /\ waits[Ev(t)][call[t].k].waiter # o
    BY <1>1, <1>4 DEF ScanDrop, Entry
  <2>4. NumPlaces(waits', o) = NumPlaces(waits, o) BY <1>2, <2>1, <2>2, <2>3
  <2> QED BY <1>0, <2>3, <2>4 DEF Hand, Register, Scanned
<1>5. CASE Register(t)
  <2> DEFINE x == [waiter |-> Own(t), index |-> call[t].i - 1]
  <2>1. /\ Ev(t) \in Events /\ x \in Entries
        /\ waits' = [waits EXCEPT ![Ev(t)] = Append(@, x)]
    BY <1>5, AppendMoves
  <2>2. x.waiter = Own(t) OBVIOUS
  <2> HIDE DEF x
  <2>3. waits' = Put(waits, Ev(t), Append(waits[Ev(t)], x))
    BY <1>0, <2>1 DEF Put, WaitLists
  <2>4. NumPlaces(waits', o) =
          NumPlaces(waits, o) + (IF x.waiter = o THEN 1 ELSE 0)
    <3>1. waits \in WaitLists /\ Ev(t) \in Events /\ x \in Entries
      BY <1>0, <2>1
    <3> QED BY ONLY <2>3, <3>1, CountAppend
  <2>5. ~Hand(t) BY <1>5, OneOfThem
  <2> QED BY <1>0, <1>5, <2>2, <2>4, <2>5
<1>6. CASE Delete(t)
  <2>1. PlacesIn(waits, o, Ev(t)) = {} BY <1>6, NotDeleted
  <2>2. /\ pc[t] = "scan" /\ waits' = [waits EXCEPT ![Ev(t)] = <<>>]
        /\ call[t].own = {}
    BY <1>6 DEF Delete, Scanned
  <2>3. Ev(t) \in Events BY <2>2, HandIs
  <2>4. waits' = Put(waits, Ev(t), <<>>) BY <2>2 DEF Put
  <2>5. NumPlaces(waits, o) =
          NumPlaces(waits', o) + Cardinality(PlacesIn(waits, o, Ev(t)))
    BY <1>0, <2>3, <2>4, CountClear
  <2>6. NumPlaces(waits, o) = NumPlaces(waits', o)
    BY <1>0, <2>1, <2>5, FS_EmptySet
  <2>7. ~Hand(t) /\ ~Register(t) BY <2>2 DEF Hand, Register
  <2> QED BY <1>0, <2>6, <2>7
<1>7. CASE waits' = waits /\ ~Hand(t) /\ ~Register(t) BY <1>0, <1>7
<1> QED BY <1>3, <1>4, <1>5, <1>6, <1>7
   DEF Step, SetterStep, MultiStep, WaitStep, ScanStep, SetEvent, ResetEvent,
     LockRegistered, Signal, NoneRegistered, Wake, WaitForEvent, TakeEvent,
     GiveUp, Sleep, Relock, WakeSpurious, WakeTimedOut, ScanBusy, ScanTry,
     ScanKeep, CreateEvent, DestroyEvent, WaitForMultipleEvents, LockNext,
     ProbeFired, LoopEnds, Doze, Redoze, Finish, events

(* EventsLeft goes down with every registration that is served or event     *)
(* that was set, and with nothing else.                                     *)
LEMMA LeftStep ==
  ASSUME LocksInv, LocksInv', ListsOK, PlacesOK, WaitersOK, LeftOK,
         NEW t \in Threads, Step(t)
  PROVE  LeftOK'
<1> SUFFICES ASSUME NEW o \in Waiters, NEW u \in Threads, Owner(o, u)',
                    waiter'[o].all
             PROVE  waiter'[o].status = NumPlaces(waits', o) + Unprobed(u)'
  BY DEF LeftOK
<1>0. waiter \in [Waiters -> Objects] /\ waits \in WaitLists
  BY DEF LocksInv, TypesOK
<1>1. CASE ~Owner(o, u)
  <2>1. WaitForMultipleEvents(t) /\ u = t /\ o \notin live
    BY <1>1, OwnerBefore
  <2>2. PICK list \in Lists, p \in Waiters \ live :
           /\ call'[t].own = {p} /\ call'[t].list = list /\ call'[t].i = 1
           /\ waiter'[p].status = IF waiter'[p].all THEN Len(list) ELSE -1
    BY <2>1, NewWaiter
  <2>3. o = p BY <2>1, <2>2 DEF Owner
  <2>4. pc'[t] = "reg" /\ waits' = waits
    BY <2>1 DEF WaitForMultipleEvents, Goto, events, LocksInv, TypesOK
  <2>5. NumPlaces(waits, o) = 0 BY <1>0, <2>1, Alive, CountType
  <2>6. list \in Seq(Events) /\ Len(list) \in Nat BY <2>2, LenProperties
  <2>7. Unprobed(u)' = Len(list) BY <2>1, <2>2, <2>4, <2>6 DEF Unprobed
  <2> QED BY <2>2, <2>3, <2>4, <2>5, <2>6, <2>7
<1>2. CASE Owner(o, u) /\ WaitForMultipleEvents(t)
  <2>1. PICK p \in Waiters \ live :
          \A q \in Waiters \ {p} : waiter'[q] = waiter[q]
    BY <1>2, NewWaiter
  <2>2. waiter'[o] = waiter[o] BY <1>2, <2>1, Alive
  <2>3. waits' = waits /\ ~ProbeFired(t) /\ ~Register(t)
    BY <1>2 DEF WaitForMultipleEvents, events, ProbeFired, Register, Scanned
  <2>4. Unprobed(u)' = Unprobed(u) BY <1>2, <2>3, UnprobedSame
  <2> QED BY <1>2, <2>2, <2>3, <2>4 DEF LeftOK
<1>3. CASE Owner(o, u) /\ ~WaitForMultipleEvents(t)
  <2>0. ~Freed(o) BY AliveAfter DEF Freed
  <2>1. waiter[o].all BY <1>3, <2>0, WaiterMoves DEF Unfired, Counted
  <2>2. waiter[o].status = NumPlaces(waits, o) + Unprobed(u)
    BY <1>3, <2>1 DEF LeftOK
  <2>3. /\ NumPlaces(waits, o) \in Nat
        /\ NumPlaces(waits', o) =
              IF Hand(t) /\ o = Own(t) THEN NumPlaces(waits, o) - 1
              ELSE IF Register(t) /\ o = Own(t) THEN NumPlaces(waits, o) + 1
              ELSE NumPlaces(waits, o)
    BY <1>3, <2>1, CountMoved
  <2>4. Unprobed(u) \in Int
    BY LenProperties DEF Unprobed, LocksInv, TypesOK, Calls
  <2>5. CASE Hand(t) /\ o = Own(t)
    <3>1. Counted(o) BY <1>3, <2>0, <2>5, WaiterMoves, OneOfThem
    <3>2. ~ProbeFired(t) /\ ~Register(t) BY <2>5, OneOfThem
    <3>3. Unprobed(u)' = Unprobed(u) BY <1>3, <3>2, UnprobedSame
    <3> QED BY <2>1, <2>2, <2>3, <2>4, <2>5, <3>1, <3>3 DEF Counted
  <2>6. CASE ProbeFired(t) /\ o = Own(t)
    <3>1. Counted(o) BY <1>3, <2>0, <2>6, WaiterMoves, OneOfThem
    <3>2. u = t BY <1>3, <2>6, ProbeOwns DEF LocksInv, OwnersOK
    <3>3. Unprobed(u)' = Unprobed(u) - 1 BY <2>1, <2>6, <3>2, UnprobedLess
    <3>4. ~Hand(t) /\ ~Register(t) BY <2>6, OneOfThem
    <3> QED BY <2>1, <2>2, <2>3, <2>4, <3>1, <3>3, <3>4 DEF Counted
  <2>7. CASE Register(t) /\ o = Own(t)
    <3>1. Unfired(o) BY <1>3, <2>0, <2>7, WaiterMoves, OneOfThem
    <3>2. u = t
      <4>1. pc[t] = "scan" /\ call[t].own = {Own(t)}
        BY <2>7, AppendMoves DEF Register, Scanned
      <4>2. Owner(o, t) BY <2>7, <4>1 DEF Owner, HoldsOwn
      <4> QED BY <1>3, <4>2 DEF LocksInv, OwnersOK
    <3>3. Unprobed(t)' = Unprobed(t) - 1 BY <2>7, UnprobedLess
    <3>4. ~Hand(t) BY <2>7, OneOfThem
    <3> QED BY <2>2, <2>3, <2>4, <2>7, <3>1, <3>2, <3>3, <3>4 DEF Unfired
  <2>8. CASE ~(o = Own(t) /\ (Hand(t) \/ ProbeFired(t) \/ Register(t)))
    <3>1. ~(Finish(t) /\ o = Own(t))
      BY <1>3, OwnerEnds, FinishOwns DEF LocksInv, OwnersOK
    <3>2. Unfired(o) BY <1>3, <2>0, <2>8, <3>1, WaiterMoves
    <3>3. ~(u = t /\ (ProbeFired(t) \/ Register(t)))
      <4>1. ASSUME u = t, ProbeFired(t) \/ Register(t) PROVE FALSE
        <5>1. pc[t] = "scan" /\ call[t].own # {}
          BY <4>1 DEF ProbeFired, Register, Scanned
        <5>2. call[t].own = {Own(t)} BY <5>1, OwnWaiter
        <5> QED BY <1>3, <2>8, <4>1, <5>2 DEF Owner
      <4> QED BY <4>1
    <3>4. Unprobed(u)' = Unprobed(u) BY <1>3, <3>3, UnprobedSame
    <3> QED BY <2>2, <2>3, <2>8, <3>2, <3>4 DEF Unfired
  <2> QED BY <2>5, <2>6, <2>7, <2>8
<1> QED BY <1>1, <1>2, <1>3

-----------------------------------------------------------------------------
(* An event that is set.                                                    *)

(* A setter that has set an event and not yet left it: it is going to visit *)
(* the waiters that are still registered.                                   *)
Visiting(t, e) == pc[t] \in {"visit", "hand", "signal"} /\ Ev(t) = e

SetOK ==
  /\ \A e \in Events : state[e] /\ waits[e] # <<>>
                         => \E t \in Threads : Visiting(t, e)
  /\ \A t \in Threads : pc[t] = "signal" /\ AutoReset(t) => ~state[Ev(t)]

(* Whoever visits the waiters of an event holds its mutex.                  *)
LEMMA SetMeansNone == ASSUME LocksInv, SetOK PROVE SetMeansUnregistered
<1> SUFFICES ASSUME NEW e \in created, held[e] = NoThread, state[e],
                    waits[e] # <<>>
             PROVE  FALSE
  BY DEF SetMeansUnregistered
<1>1. e \in Events BY DEF LocksInv, TypesOK
<1>2. PICK t \in Threads : Visiting(t, e) BY <1>1 DEF SetOK
<1>3. held[e] = t BY <1>1, <1>2 DEF Visiting, LocksInv, HeldOK, HoldsEvent
<1> QED BY <1>3

(* What a step does to the state of an event.                               *)
StateMoved(t, e) ==
  \/ state'[e] = state[e]
  \/ SetEvent(t, e) \/ CreateEvent(t, e)
  \/ ~state'[e]
  \/ Hand(t) /\ e = Ev(t)

(* An event is set by SetEvent, CreateEvent, or again by its setter; and    *)
(* its state changes only with its mutex held or free.                      *)
LEMMA StateStep ==
  ASSUME LocksInv, NEW t \in Threads, Step(t), NEW e \in Events
  PROVE  /\ StateMoved(t, e)
         /\ state'[e] # state[e] =>
              held[e] = NoThread \/ (pc[t] \in HoldsEvent /\ Ev(t) = e)
<1>0. state \in [Events -> BOOLEAN] BY DEF LocksInv, TypesOK
<1>1. CASE \E f \in Events : SetEvent(t, f)
  <2>1. PICK f \in Events : SetEvent(t, f) BY <1>1
  <2>2. state' = [state EXCEPT ![f] = TRUE] /\ held[f] = NoThread
    BY <2>1 DEF SetEvent, Enter, Lock
  <2> QED BY <1>0, <2>1, <2>2 DEF StateMoved
<1>2. CASE \E f \in Events : ResetEvent(t, f)
  <2>1. PICK f \in Events : ResetEvent(t, f) BY <1>2
  <2>2. state' = [state EXCEPT ![f] = FALSE] /\ held[f] = NoThread
    BY <2>1 DEF ResetEvent
  <2> QED BY <1>0, <2>1, <2>2 DEF StateMoved
<1>3. CASE \E f \in Events : CreateEvent(t, f)
  <2>1. PICK f \in Events : CreateEvent(t, f) BY <1>3
  <2>2. PICK s \in BOOLEAN : state' = [state EXCEPT ![f] = s]
    BY <2>1 DEF CreateEvent
  <2>3. held[f] = NoThread BY <2>1 DEF CreateEvent
  <2> QED BY <1>0, <2>1, <2>2, <2>3 DEF StateMoved
<1>4. CASE Hand(t) \/ TakeEvent(t) \/ ProbeFired(t)
  <2>1. pc[t] \in HoldsEvent /\ state' = Taken(Ev(t))
    BY <1>4 DEF Hand, TakeEvent, ProbeFired, Scanned, HoldsEvent
  <2>2. state' = [state EXCEPT ![Ev(t)] = Ev(t) \notin AutoEvents]
    BY <2>1 DEF Taken
  <2>3. TakeEvent(t) \/ ProbeFired(t) => state[Ev(t)]
    BY DEF TakeEvent, ProbeFired
  <2> QED BY <1>0, <1>4, <2>1, <2>2, <2>3 DEF StateMoved
<1>5. CASE state' = state BY <1>5 DEF StateMoved
<1> QED BY <1>1, <1>2, <1>3, <1>4, <1>5
   DEF Step, SetterStep, MultiStep, WaitStep, ScanStep, LockRegistered, Expire,
     Signal, NoneRegistered, Wake, WaitForEvent, GiveUp, Sleep, Relock,
     WakeSpurious, WakeTimedOut, ScanBusy, ScanTry, ScanKeep, ScanDrop, Delete,
     DestroyEvent, WaitForMultipleEvents, LockNext, Register, LoopEnds, Doze,
     Redoze, Finish, events

(* What a setter does, and a thread that waits for one event.               *)
LEMMA SetterAt ==
  ASSUME LocksInv, NEW t \in Threads, Step(t),
         pc[t] \in {"visit", "hand", "signal", "wake", "relock", "test"}
  PROVE  \/ LockRegistered(t) \/ Expire(t) \/ Hand(t) \/ Signal(t)
         \/ NoneRegistered(t) \/ Wake(t) \/ Relock(t) \/ TakeEvent(t)
         \/ GiveUp(t) \/ Sleep(t)
BY DEF Step, SetterStep, MultiStep, WaitStep, ScanStep, SetEvent, ResetEvent,
   WaitForEvent, WakeSpurious, WakeTimedOut, ScanBusy, ScanTry, ScanKeep,
   ScanDrop, Delete, Scanned, CreateEvent, DestroyEvent, WaitForMultipleEvents,
   LockNext, ProbeFired, Register, LoopEnds, Doze, Redoze, Finish, Enter

(* Where a setter, or a thread that waits for one event, goes on.           *)
LEMMA SetterMoves ==
  ASSUME LocksInv, NEW t \in Threads, Step(t),
         pc[t] \in {"visit", "hand", "signal", "wake", "relock", "test"}
  PROVE  \/ /\ LockRegistered(t) \/ Expire(t) \/ Hand(t)
               \/ (Signal(t) /\ ~AutoReset(t))
            /\ pc'[t] \in {"visit", "hand", "signal"} /\ Ev(t)' = Ev(t)
            /\ ~call'[t].timedout
         \/ /\ NoneRegistered(t) /\ pc'[t] = "wake" /\ Ev(t)' = Ev(t)
            /\ ~call'[t].timedout /\ waits[Ev(t)] = <<>> /\ pc[t] = "visit"
         \/ Signal(t) /\ AutoReset(t) /\ state' = state
         \/ Wake(t)
         \/ /\ Relock(t) /\ pc'[t] = "test" /\ Ev(t)' = Ev(t)
            /\ call'[t].timedout = call[t].timedout /\ pc[t] = "relock"
         \/ TakeEvent(t) \/ GiveUp(t) \/ Sleep(t)
<1>0. /\ pc \in [Threads -> Labels] /\ call \in [Threads -> Calls]
      /\ call[t] \in Calls /\ Calling(t)
  BY DEF LocksInv, TypesOK
<1>1. CASE LockRegistered(t) \/ Expire(t) \/ Hand(t)
  <2>1. pc[t] \in {"visit", "hand"} /\ pc'[t] \in {"visit", "hand", "signal"}
    BY <1>0, <1>1 DEF LockRegistered, Expire, Hand, Goto
  <2>2. /\ call'[t].list = call[t].list /\ call'[t].i = call[t].i
        /\ call'[t].timedout = call[t].timedout
    BY <1>0, <1>1 DEF LockRegistered, Expire, Hand, Calls
  <2>3. ~call[t].timedout BY <1>0, <2>1 DEF Calling
  <2> QED BY <1>1, <2>1, <2>2, <2>3 DEF Ev
<1>2. CASE Signal(t) /\ ~AutoReset(t)
  <2>1. /\ pc[t] = "signal" /\ pc'[t] = "visit"
        /\ call' = [call EXCEPT ![t].own = {}]
    BY <1>0, <1>2 DEF Signal
  <2>2. /\ call'[t].list = call[t].list /\ call'[t].i = call[t].i
        /\ call'[t].timedout = call[t].timedout
    BY <1>0, <2>1 DEF Calls
  <2>3. ~call[t].timedout BY <1>0, <2>1 DEF Calling
  <2> QED BY <1>2, <2>1, <2>2, <2>3 DEF Ev
<1>3. CASE NoneRegistered(t)
  <2>1. /\ pc[t] = "visit" /\ pc'[t] = "wake" /\ call' = call
        /\ waits[Ev(t)] = <<>>
    BY <1>0, <1>3 DEF NoneRegistered, Goto
  <2>2. ~call[t].timedout BY <1>0, <2>1 DEF Calling
  <2> QED BY <1>3, <2>1, <2>2 DEF Ev
<1>4. CASE Signal(t) /\ AutoReset(t) BY <1>4 DEF Signal
<1>5. CASE Relock(t)
  <2>1. pc'[t] = "test" /\ call' = call /\ pc[t] = "relock"
    BY <1>0, <1>5 DEF Relock, Goto
  <2> QED BY <1>5, <2>1 DEF Ev
<1> QED BY <1>1, <1>2, <1>3, <1>4, <1>5, SetterAt

(* What a step leaves of the place of another thread.                       *)
LEMMA OthersVisit ==
  ASSUME LocksInv, NEW t \in Threads, Step(t), NEW u \in Threads \ {t}
  PROVE  /\ Ev(u)' = Ev(u) /\ call'[u] = call[u]
         /\ pc[u] \notin {"dozing", "asleep"} => pc'[u] = pc[u]
         /\ pc'[u] \notin {"redoze", "relock"} => pc'[u] = pc[u]
  BY OthersStay, CallsStep DEF CallsMoved

(* No setter leaves registrations behind at a set event.                    *)
LEMMA SetStep ==
  ASSUME LocksInv, ListsOK, SetOK, NEW t \in Threads, Step(t)
  PROVE  SetOK'
<1>0. /\ pc \in [Threads -> Labels] /\ call \in [Threads -> Calls]
      /\ state \in [Events -> BOOLEAN] /\ waits \in WaitLists
  BY DEF LocksInv, TypesOK
<1>1. ASSUME NEW e \in Events, state'[e], waits'[e] # <<>>
      PROVE  \E u \in Threads : Visiting(u, e)'
  <2>1. CASE state[e] /\ waits[e] # <<>>
    <3>1. PICK u \in Threads : Visiting(u, e) BY <2>1 DEF SetOK
    <3>2. CASE u # t BY <3>1, <3>2, OthersVisit DEF Visiting
    <3>3. CASE u = t
      <4>1. pc[t] \in {"visit", "hand", "signal"} /\ Ev(t) = e
        BY <3>1, <3>3 DEF Visiting
      <4>2. ~(Signal(t) /\ AutoReset(t)) BY <2>1, <4>1 DEF SetOK, Signal
      <4>3. ~NoneRegistered(t) BY <2>1, <4>1 DEF NoneRegistered
      <4>4. ~Wake(t) /\ ~Relock(t) /\ ~TakeEvent(t) /\ ~GiveUp(t) /\ ~Sleep(t)
        BY <4>1 DEF Wake, Relock, TakeEvent, GiveUp, Sleep
      <4> QED BY <4>1, <4>2, <4>3, <4>4, SetterMoves DEF Visiting
    <3> QED BY <3>2, <3>3
  <2>2. CASE ~state[e]
    <3>1. CASE SetEvent(t, e)
      <4>1. Enter(t, e, "poll", "visit") BY <3>1 DEF SetEvent
      <4> QED BY <4>1, EnterIs DEF Visiting
    <3>2. CASE CreateEvent(t, e)
      <4>1. e \notin created /\ held[e] = NoThread /\ waits' = waits
        BY <3>2 DEF CreateEvent
      <4> QED BY <1>1, <4>1 DEF ListsOK
    <3>3. CASE Hand(t) /\ e = Ev(t)
      <4>1. pc'[t] = "signal" /\ call'[t] = call[t] BY <3>3, HandHolds
      <4> QED BY <3>3, <4>1 DEF Visiting, Ev
    <3> QED BY <1>1, <2>2, <3>1, <3>2, <3>3, StateStep DEF StateMoved
  <2>3. CASE waits[e] = <<>> /\ state[e]
    <3>1. \A j \in 1 .. Len(waits'[e]) : Register(t) /\ e = Ev(t)
      BY <2>3, EntriesMoved
    <3>2. waits'[e] \in Seq(Entries) BY WaitsStep DEF WaitsMoved, WaitLists
    <3>3. 1 \in 1 .. Len(waits'[e]) BY <1>1, <3>2, EmptySeq, LenProperties
    <3> QED BY <2>3, <3>1, <3>3 DEF Register
  <2> QED BY <2>1, <2>2, <2>3
<1>2. ASSUME NEW u \in Threads, pc'[u] = "signal", AutoReset(u)'
      PROVE  ~state'[Ev(u)']
  <2>1. CASE u # t
    <3>1. pc[u] = "signal" /\ Ev(u)' = Ev(u) /\ AutoReset(u)
      BY <1>2, <2>1, OthersVisit DEF AutoReset
    <3>2. Ev(u) \in Events /\ ~state[Ev(u)] BY <3>1, HandIs DEF SetOK
    <3>3. held[Ev(u)] = u BY <3>1, <3>2 DEF LocksInv, HeldOK, HoldsEvent
    <3>4. ~(pc[t] \in HoldsEvent /\ Ev(t) = Ev(u))
      BY <2>1, <3>2, <3>3 DEF LocksInv, HeldOK
    <3>5. state'[Ev(u)] = state[Ev(u)] BY <3>2, <3>3, <3>4, StateStep
    <3> QED BY <3>1, <3>2, <3>5
  <2>2. CASE u = t
    <3>1. Hand(t)
      BY <1>0, <1>2, <2>2 DEF Step, SetterStep, MultiStep, WaitStep, ScanStep,
         SetEvent, ResetEvent, LockRegistered, Expire, Signal, NoneRegistered,
         Wake, WaitForEvent, TakeEvent, GiveUp, Sleep, Relock, WakeSpurious,
         WakeTimedOut, ScanBusy, ScanTry, ScanKeep, ScanDrop, Delete,
         CreateEvent, DestroyEvent, WaitForMultipleEvents, LockNext, ProbeFired,
         Register, LoopEnds, Doze, Redoze, Finish, Enter, Goto, Return, Resume,
         NextEvent, Scanned
    <3>2. pc[t] = "hand" /\ call'[t] = call[t] BY <3>1, HandHolds
    <3>3. Ev(t)' = Ev(t) /\ AutoReset(t) BY <1>2, <2>2, <3>2 DEF Ev, AutoReset
    <3>4. state' = [state EXCEPT ![Ev(t)] = Ev(t) \notin AutoEvents]
      BY <3>1 DEF Hand, Taken
    <3>5. Ev(t) \in Events BY <3>2, HandIs
    <3> QED BY <1>0, <2>2, <3>3, <3>4, <3>5 DEF AutoReset
  <2> QED BY <2>1, <2>2
<1> QED BY <1>1, <1>2 DEF SetOK

-----------------------------------------------------------------------------
(* Those that sleep.                                                        *)

(* How a caller of WaitForMultipleEvents comes to sleep.                    *)
LEMMA DozeBegins ==
  ASSUME LocksInv, NEW t \in Threads, Step(t), pc'[t] = "dozing"
  PROVE  Doze(t)
BY DEF Step, SetterStep, MultiStep, WaitStep, ScanStep,
     SetEvent, ResetEvent, LockRegistered, Expire, Hand, Signal, NoneRegistered,
     Wake, WaitForEvent, TakeEvent, GiveUp, Sleep, Relock, WakeSpurious,
     WakeTimedOut, ScanBusy, ScanTry, ScanKeep, ScanDrop, Delete,
     CreateEvent, DestroyEvent, WaitForMultipleEvents, LockNext, ProbeFired,
     Register, LoopEnds, Redoze, Finish, Enter, Goto, Return, Resume,
     NextEvent, Scanned, LocksInv, TypesOK

(* How a caller of WaitForEvent comes to sleep.                             *)
LEMMA SleepBegins ==
  ASSUME LocksInv, NEW t \in Threads, Step(t), pc'[t] = "asleep"
  PROVE  Sleep(t)
BY DEF Step, SetterStep, MultiStep, WaitStep, ScanStep,
     SetEvent, ResetEvent, LockRegistered, Expire, Hand, Signal, NoneRegistered,
     Wake, WaitForEvent, TakeEvent, GiveUp, Doze, Relock, WakeSpurious,
     WakeTimedOut, ScanBusy, ScanTry, ScanKeep, ScanDrop, Delete,
     CreateEvent, DestroyEvent, WaitForMultipleEvents, LockNext, ProbeFired,
     Register, LoopEnds, Redoze, Finish, Enter, Goto, Return, Resume,
     NextEvent, Scanned, LocksInv, TypesOK

(* Only setters fire waiters that are registered.                           *)
LEMMA HandIsSetter ==
  ASSUME NEW t \in Threads, Step(t), Hand(t) PROVE t \in Setters
BY DEF Step, SetterStep, MultiStep, WaitStep, ScanStep, Hand,
     WaitForEvent, TakeEvent, GiveUp, Doze, Relock, WakeSpurious, Sleep,
     WakeTimedOut, ScanBusy, ScanTry, ScanKeep, ScanDrop, Delete,
     CreateEvent, DestroyEvent, WaitForMultipleEvents, LockNext, ProbeFired,
     Register, LoopEnds, Redoze, Finish, Enter, Scanned

(* The callers that doze until somebody signals them.                       *)
LEMMA FiredIsSignalledStep ==
  ASSUME LocksInv, LocksInv', FiredIsSignalled, NEW t \in Threads, Step(t)
  PROVE  FiredIsSignalled'
<1> SUFFICES ASSUME NEW u \in Threads, pc'[u] = "dozing", Done(waiter'[Own(u)'])
             PROVE  \E s \in Setters :
                      pc'[s] = "signal" /\ call'[s].own = call'[u].own
  BY DEF FiredIsSignalled
<1>0. Setters \subseteq Threads BY DEF Threads
<1>1. CASE u = t
  <2>1. Doze(t) BY <1>1, DozeBegins
  <2>2. pc[t] = "loop" /\ call' = call /\ ~Done(waiter[Own(t)])
    BY <2>1 DEF Doze
  <2>3. /\ Own(t)' = Own(t) /\ Own(t) \in Waiters /\ call[t].own = {Own(t)}
    BY <2>2, OwnWaiter DEF Own
  <2>4. Owner(Own(t), t)' BY <1>1, <2>2, <2>3 DEF Owner
  <2>5. ~Freed(Own(t)) BY <2>3, <2>4, AliveAfter DEF Freed
  <2>6. ~WaitForMultipleEvents(t) BY <2>2 DEF WaitForMultipleEvents
  <2>7. ~Finish(t) /\ ~Hand(t) /\ ~ProbeFired(t)
    BY <2>2 DEF Finish, Hand, ProbeFired, Scanned
  <2>8. Unfired(Own(t)) BY <2>3, <2>5, <2>6, <2>7, WaiterMoves
  <2> QED BY <1>1, <2>2, <2>3, <2>8 DEF Unfired, Done
<1>2. CASE u # t
  <2>1. pc[u] = "dozing" /\ call'[u] = call[u] BY <1>2, OthersVisit
  <2>2. /\ Own(u)' = Own(u) /\ Own(u) \in Waiters /\ call[u].own = {Own(u)}
    BY <2>1, OwnWaiter DEF Own
  <2>3. Owner(Own(u), u) /\ Owner(Own(u), u)' BY <2>1, <2>2 DEF Owner
  <2>4. CASE Hand(t) /\ Own(u) = Own(t)
    <3>1. pc'[t] = "signal" /\ call'[t] = call[t] /\ pc[t] = "hand"
      BY <2>4, HandHolds
    <3>2. call[t].own = {Own(t)} BY <3>1, OwnWaiter
    <3> QED BY <2>1, <2>2, <2>4, <3>1, <3>2, HandIsSetter
  <2>5. CASE ~(Hand(t) /\ Own(u) = Own(t))
    <3>1. Unfired(Own(u))
      <4>1. CASE WaitForMultipleEvents(t)
        <5>1. PICK p \in Waiters \ live :
                \A q \in Waiters \ {p} : waiter'[q] = waiter[q]
          BY <4>1, NewWaiter
        <5>2. Own(u) \in live BY <2>2, <2>3, Alive
        <5> QED BY <2>2, <5>1, <5>2 DEF Unfired
      <4>2. CASE ~WaitForMultipleEvents(t)
        <5>1. ~Freed(Own(u)) BY <2>2, <2>3, AliveAfter DEF Freed
        <5>2. ~(Finish(t) /\ Own(u) = Own(t))
          BY <1>2, <2>2, <2>3, FinishOwns DEF LocksInv, OwnersOK
        <5>3. ~(ProbeFired(t) /\ Own(u) = Own(t))
          BY <1>2, <2>2, <2>3, ProbeOwns DEF LocksInv, OwnersOK
        <5> QED BY <2>2, <2>5, <4>2, <5>1, <5>2, <5>3, WaiterMoves
      <4> QED BY <4>1, <4>2
    <3>2. Done(waiter[Own(u)]) BY <2>2, <3>1 DEF Unfired, Done
    <3>3. PICK s \in Setters : pc[s] = "signal" /\ call[s].own = call[u].own
      BY <2>1, <3>2 DEF FiredIsSignalled
    <3>4. s # t
      <4>1. SUFFICES ASSUME s = t PROVE FALSE OBVIOUS
      <4>2. Signal(t) BY <3>3, <4>1, SetterAt DEF LockRegistered, Expire, Hand,
              NoneRegistered, Wake, Relock, TakeEvent, GiveUp, Sleep
      <4>3. pc'[u] = "redoze" BY <1>2, <2>1, <3>3, <4>1, <4>2 DEF Signal
      <4> QED BY <4>3
    <3>5. pc'[s] = pc[s] /\ call'[s] = call[s] BY <1>0, <3>3, <3>4, OthersVisit
    <3> QED BY <2>1, <3>3, <3>5
  <2> QED BY <2>4, <2>5
<1> QED BY <1>1, <1>2
-----------------------------------------------------------------------------
(* A manual-reset event stays set while its setter is at work: SetEvent     *)
(* wakes all that sleep on it.                                              *)
Setting(t, e) == pc[t] \in {"visit", "hand", "signal", "wake"} /\ Ev(t) = e

ManualOK == \A e \in Events \ AutoEvents :
              state[e] /\ Sleepers(e) # {} => \E t \in Threads : Setting(t, e)

(* A sleeper, before and after a step.                                      *)
LEMMA SleeperBefore ==
  ASSUME LocksInv, NEW t \in Threads, Step(t), NEW e \in Events,
         state'[e], NEW u \in Threads, u \in Sleepers(e)'
  PROVE  u # t /\ u \in Sleepers(e)
<1>1. pc'[u] = "asleep" /\ Ev(u)' = e BY DEF Sleepers
<1>2. u # t
  <2>1. SUFFICES ASSUME u = t PROVE FALSE OBVIOUS
  <2>2. Sleep(t) BY <1>1, <2>1, SleepBegins
  <2>3. call' = call /\ state' = state /\ ~state[Ev(t)] BY <2>2 DEF Sleep
  <2>4. Ev(t)' = Ev(t) BY <2>3 DEF Ev
  <2> QED BY <1>1, <2>1, <2>3, <2>4
<1> QED BY <1>1, <1>2, OthersVisit DEF Sleepers

(* An event that somebody sleeps on is set by a setter.                     *)
LEMMA EventIsSet ==
  ASSUME LocksInv, ListsOK, NEW t \in Threads, Step(t), NEW e \in Events,
         state'[e], ~state[e], Sleepers(e) # {}
  PROVE  \/ /\ SetEvent(t, e) /\ pc'[t] = "visit" /\ Ev(t)' = e
            /\ ~call'[t].timedout
         \/ Hand(t) /\ e = Ev(t)
<1>1. CASE SetEvent(t, e)
  <2>1. Enter(t, e, "poll", "visit") BY <1>1 DEF SetEvent
  <2> QED BY <1>1, <2>1, EnterIs
<1>2. CASE CreateEvent(t, e)
  <2>1. e \notin created BY <1>2 DEF CreateEvent
  <2>2. PICK u \in Threads : pc[u] = "asleep" /\ Ev(u) = e BY DEF Sleepers
  <2>3. e \in created BY <2>2, EvCreated DEF Destroying
  <2> QED BY <2>1, <2>3
<1> QED BY <1>1, <1>2, StateStep DEF StateMoved

(* SetEvent wakes one of those that sleep, or all.                          *)
LEMMA WakeWakes ==
  ASSUME LocksInv, NEW t \in Threads, Wake(t), Sleepers(Ev(t)) # {}
  PROVE  /\ \E u \in Threads \ {t} : u \in Sleepers(Ev(t)) /\ pc'[u] = "relock"
         /\ ~AutoReset(t) =>
              \A u \in Sleepers(Ev(t)) : u # t /\ pc'[u] = "relock"
<1>1. pc[t] = "wake" BY DEF Wake
<1>2. \A u \in Sleepers(Ev(t)) : u \in Threads /\ u # t BY <1>1 DEF Sleepers
<1>3. PICK W \in SUBSET Sleepers(Ev(t)) :
        /\ W = {} \/ ~AutoReset(t) => W = Sleepers(Ev(t))
        /\ pc' = [u \in Threads |-> IF u = t THEN "idle"
                                    ELSE IF u \in W THEN "relock" ELSE pc[u]]
  BY DEF Wake
<1>4. \A u \in W : u \in Sleepers(Ev(t)) /\ pc'[u] = "relock"
  BY <1>2, <1>3
<1>5. W # {} BY <1>3
<1> QED BY <1>2, <1>3, <1>4, <1>5

(* ManualOK is kept.                                                        *)
LEMMA ManualStep ==
  ASSUME LocksInv, ListsOK, ManualOK, NEW t \in Threads, Step(t)
  PROVE  ManualOK'
<1> SUFFICES ASSUME NEW e \in Events \ AutoEvents, state'[e],
                    NEW u \in Threads, u \in Sleepers(e)'
             PROVE  \E s \in Threads : Setting(s, e)'
  BY DEF ManualOK, Sleepers
<1>1. u # t /\ u \in Sleepers(e) BY SleeperBefore
<1>2. CASE ~state[e]
  <2>1. CASE SetEvent(t, e)
    BY <1>1, <1>2, <2>1, EventIsSet DEF Setting, Hand, SetEvent, Enter
  <2>2. CASE Hand(t) /\ e = Ev(t)
    <3>1. pc'[t] = "signal" /\ call'[t] = call[t] BY <2>2, HandHolds
    <3> QED BY <2>2, <3>1 DEF Setting, Ev
  <2> QED BY <1>1, <1>2, <2>1, <2>2, EventIsSet
<1>3. CASE state[e]
  <2>1. PICK s \in Threads : Setting(s, e) BY <1>1, <1>3 DEF ManualOK
  <2>2. CASE s # t BY <2>1, <2>2, OthersVisit DEF Setting
  <2>3. CASE s = t
    <3>1. pc[t] \in {"visit", "hand", "signal", "wake"} /\ Ev(t) = e
      BY <2>1, <2>3 DEF Setting
    <3>2. ~AutoReset(t) BY <3>1 DEF AutoReset
    <3>3. ~Wake(t)
      <4>1. Wake(t) => pc'[u] = "relock" BY <1>1, <3>1, <3>2, WakeWakes
      <4> QED BY <4>1 DEF Sleepers
    <3>4. ~Relock(t) /\ ~TakeEvent(t) /\ ~GiveUp(t) /\ ~Sleep(t)
      BY <3>1 DEF Relock, TakeEvent, GiveUp, Sleep
    <3> QED BY <3>1, <3>2, <3>3, <3>4, SetterMoves DEF Setting
  <2> QED BY <2>2, <2>3
<1> QED BY <1>2, <1>3
-----------------------------------------------------------------------------
Waking(t, e) ==
  /\ pc[t] \in {"visit", "hand", "signal", "wake", "relock", "test"}
  /\ Ev(t) = e /\ ~call[t].timedout

(* A setter has no deadline.                                                *)
LEMMA SettingWakes ==
  ASSUME LocksInv, NEW t \in Threads, NEW e, Setting(t, e) PROVE Waking(t, e)
BY DEF Setting, Waking, LocksInv, Calling

(* Nobody is left asleep on a set event.                                    *)
LEMMA WakingStep ==
  ASSUME LocksInv, ListsOK, SetOK, ManualOK, SetWakesASleeper,
         NEW t \in Threads, Step(t)
  PROVE  SetWakesASleeper'
<1> SUFFICES ASSUME NEW e \in created', state'[e],
                    NEW u \in Threads, u \in Sleepers(e)'
             PROVE  \E s \in Threads : Waking(s, e)'
  BY DEF SetWakesASleeper, Sleepers, Waking
<1>0. e \in Events BY TypesStep DEF TypesOK
<1>1. u # t /\ u \in Sleepers(e) BY <1>0, SleeperBefore
<1>2. pc[u] = "asleep" /\ Ev(u) = e BY <1>1 DEF Sleepers
<1>3. e \in created BY <1>2, EvCreated DEF Destroying
<1>4. CASE ~state[e]
  <2>1. CASE SetEvent(t, e)
    BY <1>0, <1>1, <1>4, <2>1, EventIsSet DEF Waking, Hand, SetEvent, Enter
  <2>2. CASE Hand(t) /\ e = Ev(t)
    <3>1. pc'[t] = "signal" /\ call'[t] = call[t] /\ pc[t] = "hand"
      BY <2>2, HandHolds
    <3>2. ~call[t].timedout BY <3>1 DEF LocksInv, Calling
    <3> QED BY <2>2, <3>1, <3>2 DEF Waking, Ev
  <2> QED BY <1>0, <1>1, <1>4, <2>1, <2>2, EventIsSet
<1>5. CASE state[e]
  <2>1. PICK s \in Threads : Waking(s, e)
    BY <1>1, <1>3, <1>5 DEF SetWakesASleeper, Waking
  <2>2. ASSUME NEW r \in Threads, r # t, Waking(r, e) PROVE Waking(r, e)'
    BY <2>2, OthersVisit DEF Waking
  <2>3. CASE s = t
    <3>1. /\ pc[t] \in {"visit", "hand", "signal", "wake", "relock", "test"}
          /\ Ev(t) = e /\ ~call[t].timedout
      BY <2>1, <2>3 DEF Waking
    <3>2. ~(Signal(t) /\ AutoReset(t)) BY <1>5, <3>1 DEF SetOK, Signal
    <3>3. CASE Wake(t)
      <4>1. PICK r \in Threads \ {t} : r \in Sleepers(e) /\ pc'[r] = "relock"
        BY <1>1, <3>1, <3>3, WakeWakes
      <4>2. pc[r] = "asleep" /\ Ev(r) = e BY <4>1 DEF Sleepers
      <4>3. ~call[r].timedout BY <4>2 DEF LocksInv, Calling
      <4>4. call'[r] = call[r] /\ Ev(r)' = e BY <4>1, <4>2, OthersVisit
      <4> QED BY <4>1, <4>3, <4>4 DEF Waking
    <3>4. CASE TakeEvent(t)
      <4>1. state' = [state EXCEPT ![e] = e \notin AutoEvents] /\ pc[t] = "test"
        BY <3>1, <3>4 DEF TakeEvent, Taken
      <4>2. e \notin AutoEvents BY <1>0, <4>1 DEF LocksInv, TypesOK
      <4>3. PICK r \in Threads : Setting(r, e)
        BY <1>0, <1>1, <1>5, <4>2 DEF ManualOK
      <4>4. r # t BY <4>1, <4>3 DEF Setting
      <4> QED BY <2>2, <4>3, <4>4, SettingWakes
    <3>5. ~GiveUp(t) BY <1>5, <3>1 DEF GiveUp
    <3>6. ~Sleep(t) BY <1>5, <3>1 DEF Sleep
    <3> QED BY <3>1, <3>2, <3>3, <3>4, <3>5, <3>6, SetterMoves DEF Waking
  <2> QED BY <2>1, <2>2, <2>3
<1> QED BY <1>4, <1>5

-----------------------------------------------------------------------------
(* Those that wait for a mutex.                                             *)

(* A set of numbers that is not empty has a least one.                      *)
LEMMA LeastExists ==
  ASSUME NEW S \in SUBSET Nat, S # {}
  PROVE  \E x \in S : \A y \in S : ~(y < x)
<1> DEFINE R == OpToRel(<, Nat)
<1>1. \A x, y \in Nat : x < y => <<x, y>> \in R BY DEF OpToRel
<1>2. IsWellFoundedOn(R, Nat) BY NatLessThanWellFounded
<1> HIDE DEF R
<1>3. PICK x \in S : \A y \in S : ~(<<y, x>> \in R) BY <1>2, WFMin
<1>4. \A y \in S : ~(y < x) BY <1>1, <1>3
<1> QED BY <1>3, <1>4

(* All lists name the events in one order, say from the highest rank to the *)
(* lowest.                                                                  *)
InOrder(rank) ==
  \A list \in Lists : \A i, j \in 1 .. Len(list) :
    i < j => rank[list[i]] > rank[list[j]]

(* Of the callers in a circle, one waits for the event of least rank. The   *)
(* setter that holds it waits for a waiter registered there, whose caller   *)
(* is one of the circle too and waits for an event of lower rank.           *)
LEMMA NoCircle ==
  ASSUME LocksInv, PlacesOK, ListsOK,
         NEW rank \in [Events -> Nat], InOrder(rank)
  PROVE  NobodyWaitsInACircle
<1> SUFFICES ASSUME NEW T \in SUBSET Threads, T # {},
                    \A t \in T : \E u \in T : Awaits(t, u)
             PROVE  FALSE
  BY DEF NobodyWaitsInACircle
<1>1. \A t \in T : pc[t] \in {"reg", "relock", "visit", "redoze"}
  BY DEF Awaits
<1>2. ASSUME NEW t \in T, pc[t] \in {"reg", "relock"}
      PROVE  \E u \in T : pc[u] = "visit" /\ Ev(u) = Ev(t)
  <2>1. PICK u \in T : Awaits(t, u) OBVIOUS
  <2>2. held[Ev(t)] = u BY <1>2, <2>1 DEF Awaits
  <2>3. Ev(t) \in Events BY <1>2, HandIs
  <2>4. pc[u] \in HoldsEvent /\ Ev(u) = Ev(t)
    BY <2>2, <2>3 DEF LocksInv, HeldOK
  <2>5. pc[u] = "visit" BY <1>1, <2>4 DEF HoldsEvent
  <2> QED BY <2>4, <2>5
<1>3. ASSUME NEW u \in T, NEW o \in Waiters, waiter[o].holder = u
      PROVE  pc[u] = "reg" /\ Owner(o, u)
  <2>1. o \in Holding(u) BY <1>3 DEF LocksInv, LocksOK
  <2> QED BY <1>1, <2>1 DEF Holding, HoldsOwn, Owner
<1>4. ASSUME NEW t \in T, pc[t] = "visit"
      PROVE  \E u \in T : /\ pc[u] = "reg" /\ rank[Ev(u)] < rank[Ev(t)]
  <2>1. PICK u \in T : Awaits(t, u) OBVIOUS
  <2>2. /\ waits[Ev(t)] # <<>>
        /\ waiter[Head(waits[Ev(t)]).waiter].holder = u
    BY <1>4, <2>1 DEF Awaits
  <2> DEFINE o == Head(waits[Ev(t)]).waiter
  <2>3. o \in Waiters BY <1>4, <2>2, HandIs
  <2>4. pc[u] = "reg" /\ Owner(o, u) BY <1>3, <2>2, <2>3
  <2>5. Ev(t) \in Events BY <1>4, HandIs
  <2>6. 1 \in 1 .. Len(waits[Ev(t)]) /\ waits[Ev(t)][1].waiter = o
    <3>1. waits[Ev(t)] \in Seq(Entries) BY <2>5 DEF LocksInv, TypesOK, WaitLists
    <3> QED BY <2>2, <3>1, TailWithout
  <2> HIDE DEF o
  <2>7. PICK m \in 1 .. Probed(u) : call[u].list[m] = Ev(t)
    BY <2>3, <2>4, <2>5, <2>6 DEF PlacesOK
  <2>8. /\ Calling(u) /\ call[u].i \in Nat /\ Len(call[u].list) \in Nat
        /\ call[u].list \in Lists
    BY <2>3, <2>4, LenProperties DEF LocksInv, TypesOK, Calls, ListsOK
  <2>9. /\ Probed(u) = call[u].i - 1 /\ call[u].i \in 1 .. Len(call[u].list)
    BY <2>4, <2>8 DEF Probed, Probing, Calling
  <2>10. m \in 1 .. Len(call[u].list) /\ m < call[u].i BY <2>7, <2>8, <2>9
  <2>11. rank[call[u].list[m]] > rank[call[u].list[call[u].i]]
    BY <2>8, <2>9, <2>10 DEF InOrder
  <2>12. Ev(u) \in Events BY <2>4, HandIs
  <2>13. rank[Ev(t)] > rank[Ev(u)] BY <2>7, <2>11 DEF Ev
  <2>14. rank[Ev(u)] < rank[Ev(t)] BY <2>5, <2>12, <2>13
  <2> QED BY <2>4, <2>14
<1>5. ASSUME NEW t \in T, pc[t] = "redoze" PROVE FALSE
  <2>1. PICK u \in T : Awaits(t, u) OBVIOUS
  <2>2. waiter[Own(t)].holder = u BY <1>5, <2>1 DEF Awaits
  <2>3. Own(t) \in Waiters /\ call[t].own = {Own(t)} BY <1>5, OwnWaiter
  <2>4. pc[u] = "reg" /\ Owner(Own(t), u) BY <1>3, <2>2, <2>3
  <2>5. Owner(Own(t), t) BY <1>5, <2>3 DEF Owner
  <2> QED BY <1>5, <2>3, <2>4, <2>5 DEF LocksInv, OwnersOK
<1>6. ASSUME NEW t \in T, pc[t] = "reg"
      PROVE  \E u \in T : pc[u] = "reg" /\ rank[Ev(u)] < rank[Ev(t)]
  <2>1. PICK v \in T : pc[v] = "visit" /\ Ev(v) = Ev(t) BY <1>2, <1>6
  <2> QED BY <1>4, <2>1
<1>7. \E t \in T : pc[t] = "reg"
  <2>1. PICK t \in T : TRUE OBVIOUS
  <2> QED BY <1>1, <1>2, <1>4, <1>5
<1> DEFINE S == {rank[Ev(t)] : t \in {u \in T : pc[u] = "reg"}}
<1>8. S # {}
  <2>1. PICK t \in T : pc[t] = "reg" BY <1>7
  <2>2. rank[Ev(t)] \in S BY <2>1
  <2> QED BY <2>2
<1>9. S \in SUBSET Nat
  <2>1. \A t \in T : pc[t] = "reg" => Ev(t) \in Events BY HandIs
  <2> QED BY <2>1
<1>10. \A x \in S : \E y \in S : y < x BY <1>6
<1> HIDE DEF S
<1> QED BY <1>8, <1>9, <1>10, LeastExists
-----------------------------------------------------------------------------
(* Everything together. *)
EventsInv == /\ LocksInv /\ ListsOK /\ PlacesOK /\ WaitersOK /\ LeftOK /\ SetOK
             /\ FiredIsSignalled /\ ManualOK /\ SetWakesASleeper

(* EventsInv holds at first.                                                *)
LEMMA EventsInit == Init => EventsInv
<1> SUFFICES ASSUME Init PROVE EventsInv OBVIOUS
<1>1. LocksInv BY LocksInvInit
<1>2. /\ \A t \in Threads : pc[t] = "idle" /\ call[t] = NoCall
      /\ \A e \in Events : waits[e] = <<>>
      /\ waiter = [o \in Waiters |-> Blank] /\ created = Events
  BY DEF Init
<1>3. \A o : \A t \in Threads : ~Owner(o, t) BY <1>2 DEF Owner, HoldsOwn
<1>4. ListsOK
  <2>1. \A t \in Threads : ~Destroying(t) /\ Len(call[t].list) = 0
    BY <1>2 DEF Destroying, NoCall
  <2> QED BY <1>2, <1>3, <2>1 DEF ListsOK
<1>5. PlacesOK /\ LeftOK BY <1>3 DEF PlacesOK, LeftOK
<1>6. WaitersOK BY <1>2, <1>3 DEF WaitersOK, Blank
<1>7. SetOK BY <1>2 DEF SetOK
<1>8. \A e : Sleepers(e) = {} BY <1>2 DEF Sleepers
<1>9. FiredIsSignalled BY <1>2 DEF FiredIsSignalled
<1>10. ManualOK /\ SetWakesASleeper BY <1>8 DEF ManualOK, SetWakesASleeper
<1> QED BY <1>1, <1>4, <1>5, <1>6, <1>7, <1>9, <1>10 DEF EventsInv

(* EventsInv is kept by every step.                                         *)
LEMMA EventsStep == EventsInv /\ [Next]_vars => EventsInv'
<1> SUFFICES ASSUME EventsInv, [Next]_vars PROVE EventsInv' OBVIOUS
<1>1. LocksInv' BY LocksInvStep DEF EventsInv
<1>2. CASE Next
  <2>1. PICK t \in Threads : Step(t) BY <1>2, NextIsStep
  <2>2. ListsOK' /\ PlacesOK' BY <2>1, ListsStep, PlacesStep DEF EventsInv
  <2>3. WaitersOK' BY <1>1, <2>1, WaitersStep DEF EventsInv
  <2>4. LeftOK' BY <1>1, <2>1, LeftStep DEF EventsInv
  <2>5. SetOK' BY <2>1, SetStep DEF EventsInv
  <2>6. FiredIsSignalled' BY <1>1, <2>1, FiredIsSignalledStep DEF EventsInv
  <2>7. ManualOK' BY <2>1, ManualStep DEF EventsInv
  <2>8. SetWakesASleeper' BY <2>1, WakingStep DEF EventsInv
  <2> QED BY <1>1, <2>2, <2>3, <2>4, <2>5, <2>6, <2>7, <2>8 DEF EventsInv
<1>3. CASE UNCHANGED vars
  <2>0. UNCHANGED <<created, state, held, waits, live, waiter, pc, call,
                    leaked>>
    BY <1>3 DEF vars, events
  <2>1. /\ \A t \in Threads : Ev(t)' = Ev(t) /\ Own(t)' = Own(t)
        /\ \A o : \A t \in Threads : Owner(o, t)' <=> Owner(o, t)
        /\ \A t \in Threads : Destroying(t)' <=> Destroying(t)
        /\ \A t \in Threads : Probing(t)' <=> Probing(t)
        /\ \A o : NumPlaces(waits', o) = NumPlaces(waits, o)
    BY <2>0 DEF Ev, Own, Owner, Destroying, Probing
  <2>2. /\ \A t \in Threads : Probed(t)' = Probed(t)
        /\ \A t \in Threads : Unprobed(t)' = Unprobed(t)
        /\ \A t \in Threads : AutoReset(t)' <=> AutoReset(t)
        /\ \A e : Sleepers(e)' = Sleepers(e)
        /\ \A e : \A t \in Threads : Visiting(t, e)' <=> Visiting(t, e)
        /\ \A e : \A t \in Threads : Setting(t, e)' <=> Setting(t, e)
    BY <2>0, <2>1 DEF Probed, Unprobed, AutoReset, Sleepers, Visiting, Setting
  <2>3. ListsOK' /\ PlacesOK'
    BY <2>0, <2>1, <2>2 DEF EventsInv, ListsOK, PlacesOK
  <2>4. WaitersOK' BY <2>0, <2>1 DEF EventsInv, WaitersOK
  <2>5. LeftOK' BY <2>0, <2>1, <2>2 DEF EventsInv, LeftOK
  <2>6. SetOK' BY <2>0, <2>1, <2>2 DEF EventsInv, SetOK
  <2>7. FiredIsSignalled' BY <2>0, <2>1 DEF EventsInv, FiredIsSignalled
  <2>8. ManualOK' BY <2>0, <2>2 DEF EventsInv, ManualOK
  <2>9. SetWakesASleeper' BY <2>0, <2>1, <2>2 DEF EventsInv, SetWakesASleeper
  <2> QED BY <1>1, <2>3, <2>4, <2>5, <2>6, <2>7, <2>8, <2>9 DEF EventsInv
<1> QED BY <1>2, <1>3

(* What the threads of pevents.h keep up at every step: mutexes are held by *)
(* who is between their lock and unlock, waiters are counted, registrations *)
(* are of events that the caller has asked for, and a set event is left     *)
(* only when all that wait for it have been served.                         *)
THEOREM EventsCorrect == Spec => []EventsInv
BY EventsInit, EventsStep, PTL DEF Spec

(* Every variable has its type, and a mutex is held by the thread that is   *)
(* between its lock and its unlock: no path of pevents.h leaves one locked. *)
THEOREM TypeCorrect == Spec => []TypeOK
<1>1. EventsInv => TypeOK
  BY DEF EventsInv, LocksInv, TypesOK, HeldOK, LocksOK, TypeOK, Objects, Labels,
     Awake
<1> QED BY <1>1, EventsCorrect, PTL

(* RefCount is the number of those that still use the waiter: its caller,   *)
(* and the registrations, also those that a DestroyEvent forgot.            *)
THEOREM RefsCorrect == Spec => []RefsCounted
<1>1. EventsInv => RefsCounted BY RefsAreCounted DEF EventsInv
<1> QED BY <1>1, EventsCorrect, PTL

(* EventsLeft of a call that waits for all events is the number of its      *)
(* registrations and of the events still to be asked for (pevents.h:365).   *)
THEOREM LeftCorrect == Spec => []LeftCounted
<1>1. EventsInv => LeftCounted BY LeftIsCounted DEF EventsInv
<1> QED BY <1>1, EventsCorrect, PTL

(* SetEvent leaves nobody registered with an event that stays set.          *)
THEOREM SetCorrect == Spec => []SetMeansUnregistered
<1>1. EventsInv => SetMeansUnregistered BY SetMeansNone DEF EventsInv
<1> QED BY <1>1, EventsCorrect, PTL

(* A caller of WaitForMultipleEvents that has got its events does not sleep *)
(* on: the thread that fired the last one is about to signal it.            *)
THEOREM SignalCorrect == Spec => []FiredIsSignalled
<1>1. EventsInv => FiredIsSignalled BY DEF EventsInv
<1> QED BY <1>1, EventsCorrect, PTL

(* No caller of WaitForEvent sleeps on a set event that nobody is going to  *)
(* wake it for: no wakeup is lost between SetEvent and WaitForEvent.        *)
THEOREM WakeCorrect == Spec => []SetWakesASleeper
<1>1. EventsInv => SetWakesASleeper BY DEF EventsInv
<1> QED BY <1>1, EventsCorrect, PTL

(* A waiter for any one event is given one: FiredEvent is written once.     *)
THEOREM FiredOnceCorrect == Spec => FiredOnce
<1> DEFINE Once == \A o \in live \cap live' :
                     ~waiter[o].all /\ waiter[o].status # -1
                       => waiter'[o].status = waiter[o].status
<1>1. EventsInv /\ [Next]_vars => [Once]_vars
  <2> SUFFICES ASSUME EventsInv, Next PROVE Once OBVIOUS
  <2>1. PICK t \in Threads : Step(t) BY NextIsStep
  <2>2. FiredStays BY <2>1, FiredStep DEF EventsInv
  <2> QED BY <2>2 DEF FiredStays
<1> HIDE DEF Once
<1>2. Spec => [][Once]_vars BY <1>1, EventsCorrect, PTL DEF Spec
<1> QED BY <1>2 DEF FiredOnce, Once

(* If all lists name the events in one order, the two orders in which       *)
(* pevents.h takes its mutexes lead to no deadlock.                         *)
THEOREM OrderCorrect ==
  ASSUME NEW rank \in [Events -> Nat], InOrder(rank)
  PROVE  Spec => []NobodyWaitsInACircle
<1>1. EventsInv => NobodyWaitsInACircle BY NoCircle DEF EventsInv
<1> QED BY <1>1, EventsCorrect, PTL
=============================================================================
