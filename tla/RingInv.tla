------------------------------ MODULE RingInv -------------------------------
(***************************************************************************)
(* The properties of the ring, the two scheduling assumptions under which  *)
(* they hold with several writers or readers (Prompt and ClearsInTime), and *)
(* the inductive invariant (IInv) from which they follow.                  *)
(*                                                                         *)
(* Cursors are indexes, and an index comes back after BlockCount moves.    *)
(* What a thread checked about an index it loaded is stale once the cursor *)
(* has come round to it again.                                             *)
(***************************************************************************)
EXTENDS Ring, FiniteSets

Slot(k) == k % BlockCount   \* the block that the k-th move of a cursor leaves

(* The message that r has taken and not yet copied or dropped, or 0         *)
Held(r) == IF pc[r] \in {"size", "copy"} THEN ticket[r] + 1 ELSE 0

Mailbox == INSTANCE Mailbox WITH
  Capacity <- BlockCount - 1,
  MaxLen   <- BlockSize,
  visible  <- published,
  freed    <- returned,
  holding  <- [r \in Readers |-> Held(r)]
-----------------------------------------------------------------------------
(* The scheduling assumptions. *)

(* t is about to compare-and-swap on an index that it loaded when its       *)
(* cursor had made lap[t] moves, but the block has been claimed (or taken)  *)
(* again since.  Then it moves the start cursor although what it checked is *)
(* stale, or takes down the flag of a later lap.                            *)
Overtaken(t) ==
  \/ pc[t] = "cas"     /\ claims >= lap[t] + BlockCount
  \/ pc[t] = "grab"    /\ taken >= lap[t] + BlockCount
  \/ pc[t] = "consume" /\ claims > lap[t] + BlockCount
  \/ pc[t] = "unmark"  /\ taken > lap[t] + BlockCount

Prompt == \A t \in Threads : ~Overtaken(t)

(* Between doneRead = 1 and Amount = 0 of return_block another reader may   *)
(* give the block away.  No reader is suspended there until it is claimed   *)
(* again, which in a full ring is the first or the second claim that the    *)
(* reclaimed space lets in.                                                 *)
ClearsInTime ==
  \A r \in Readers : pc[r] = "clear" => claims <= ticket[r] + BlockCount

Timely == Prompt /\ ClearsInTime

PromptSpec == Init /\ [][Next /\ Prompt']_vars
TimelySpec == Init /\ [][Next /\ Timely']_vars

(* The clients call send(), the server calls receive(), each in an endless  *)
(* loop (main.cpp), and the scheduler lets every thread go on.              *)
FairSpec ==
  /\ Spec
  /\ \A w \in Writers : WF_vars(Writer(w))
  /\ \A r \in Readers : WF_vars(Reader(r))
-----------------------------------------------------------------------------
(* The properties. *)

WriterLabels == {"idle", "claim", "room", "await", "cas", "fill", "post",
                 "advance", "consume", "move", "count"}
ReaderLabels == {"idle", "take", "avail", "await", "grab", "size", "copy",
                 "release", "clear", "reclaim", "unmark", "retire", "count"}

SharedOK ==
  /\ writeStart \in Blocks /\ writeEnd \in Blocks
  /\ readStart \in Blocks /\ readEnd \in Blocks
  /\ doneWrite \in [Blocks -> BOOLEAN] /\ doneRead \in [Blocks -> BOOLEAN]
  /\ amount \in [Blocks -> 0 .. BlockSize]
  /\ data \in [Blocks -> Payload \cup {Blank}]
  /\ msgCount \in 0 .. CountMod - 1

LabelsOK ==
  /\ pc \in [Threads -> WriterLabels \cup ReaderLabels]
  /\ \A w \in Writers : pc[w] \in WriterLabels
  /\ \A r \in Readers : pc[r] \in ReaderLabels

LocalsOK ==
  /\ idx \in [Threads -> Blocks] /\ own \in [Threads -> Blocks]
  /\ len \in [Threads -> 0 .. BlockSize]
  /\ early \in [Threads -> BOOLEAN]

HistoryOK ==
  /\ calls \in [Writers -> 0 .. MaxWrites]
  /\ claims \in Nat /\ published \in Nat
  /\ taken \in Nat /\ returned \in Nat
  /\ ticket \in [Threads -> Nat] /\ lap \in [Threads -> Nat]
  /\ sent \in Seq(Message)
  /\ inbox \in [Readers -> Seq(Message)]

(* Every variable has its type; cursors and indexes always name a block.    *)
TypeOK == SharedOK /\ LabelsOK /\ LocalsOK /\ HistoryOK

(* t has acquired a block with a compare-and-swap on a start cursor and has *)
(* not yet set the flag that gives it away.                                 *)
Holds(t) == pc[t] \in {"fill", "post", "size", "copy", "release"}

(* A block is in the hands of one thread at a time: no writer fills a block *)
(* that another writer fills or that a reader still sizes or copies.        *)
Exclusive ==
  \A s, t \in Threads : s # t /\ Holds(s) /\ Holds(t) => own[s] # own[t]

(* The ring implements the mailbox: order, capacity, exactly-once delivery  *)
(* of unmodified messages, no reuse of space that is being read.            *)
Implements == Mailbox!MailSpec

(* What that means to the callers: nothing is received that was not sent,   *)
(* nothing twice or by two readers, nothing handed out is lost unless it    *)
(* was empty, and a writer's messages come in the order it sent them in.    *)
ExactlyOnce == Mailbox!ExactlyOnce
WriterOrder == Mailbox!WriterOrder

(* get_block_write takes a block only when there is room for it: the check  *)
(* against m_readEnd still holds when the compare-and-swap succeeds.        *)
ClaimHasRoom ==
  [][\A w \in Writers : ClaimBlock(w) => Next1(writeStart) # readEnd]_vars

(* Outside post_block no finished message is left behind m_writeEnd: when   *)
(* no writer holds a block or publishes, every accepted message is visible. *)
AtRest == {"idle", "claim", "room", "await", "cas", "count", "take", "avail",
           "grab", "size", "copy"}
AllPublished == (\A w \in Writers : pc[w] \in AtRest) => published = claims

(* The same for return_block: when no reader holds a block or returns one,  *)
(* all the space that was taken is available to writers again.              *)
AllReclaimed ==
  (\A r \in Readers : pc[r] \in AtRest \ {"size", "copy"})
     => returned = taken

(* Every accepted message is eventually taken and its block given back.     *)
EveryMessageMoves ==
  \A k \in 1 .. MaxWrites * Cardinality(Writers) :
    claims >= k ~> returned >= k

(* With no call in progress m_msgCount is the number of messages accepted   *)
(* and not yet taken: the messages in the queue (MessageQueue.h).           *)
CountAtRest ==
  (\A t \in Threads : pc[t] = "idle")
     => msgCount = (claims - taken) % CountMod
-----------------------------------------------------------------------------
(* The inductive invariant. *)

(* Each cursor is where its number of moves puts it, the cursors do not     *)
(* overtake each other, and one block always stays free.                    *)
CursorsOK ==
  /\ writeStart = Slot(claims) /\ writeEnd = Slot(published)
  /\ readStart = Slot(taken)   /\ readEnd = Slot(returned)
  /\ returned <= taken /\ taken <= published /\ published <= claims
  /\ claims < returned + BlockCount
  /\ Len(sent) = claims

(* t has loaded a cursor and not yet loaded one again.                      *)
InWindow(t) ==
  early[t] \/ pc[t] \in {"room", "cas", "consume", "move",
                         "avail", "grab", "unmark", "retire"}

(* An index in a window is a value its cursor had, now or earlier; if it is *)
(* the value of now, then what was checked about it still holds.            *)
WindowOK(t) ==
  /\ InWindow(t) => idx[t] = Slot(lap[t])
  /\ early[t] => pc[t] \in {"fill", "post", "release", "clear"}
  /\ pc[t] \in {"room", "cas"} => lap[t] <= claims
  /\ pc[t] = "cas" /\ lap[t] = claims => claims + 1 < returned + BlockCount
  /\ pc[t] \in {"avail", "grab"} => lap[t] <= taken
  /\ pc[t] = "grab" /\ lap[t] = taken => taken < published
  /\ pc[t] = "consume" \/ (pc[t] \in {"fill", "post"} /\ early[t])
       => lap[t] <= published
  /\ pc[t] = "unmark" \/ (pc[t] \in {"release", "clear"} /\ early[t])
       => lap[t] <= returned

WindowsOK == \A t \in Threads : WindowOK(t)

(* A block is claimed under a ticket that no other writer has, and is not   *)
(* visible while it is filled.                                              *)
Filling(w) == pc[w] \in {"fill", "post"}
FillersOK ==
  /\ \A w \in Writers : Filling(w) =>
        /\ own[w] = Slot(ticket[w]) /\ ~doneWrite[own[w]]
        /\ published <= ticket[w] /\ ticket[w] < claims
  /\ \A v, w \in Writers :
        v # w /\ Filling(v) /\ Filling(w) => ticket[v] # ticket[w]

(* A block is taken under a ticket that no other reader has, and is not     *)
(* free while it is used.                                                   *)
Using(r)   == pc[r] \in {"size", "copy", "release"}
Keeping(r) == pc[r] \in {"size", "copy", "release", "clear"}
UsersOK ==
  /\ \A r \in Readers : Keeping(r) =>
        own[r] = Slot(ticket[r]) /\ ticket[r] < taken
  /\ \A r \in Readers : Using(r) =>
        ~doneRead[own[r]] /\ returned <= ticket[r]
  /\ \A q, r \in Readers :
        q # r /\ Keeping(q) /\ Keeping(r) => ticket[q] # ticket[r]

(* Whoever consumed the flag under an end cursor is alone to move it.       *)
MoversOK ==
  \A w \in Writers : pc[w] = "move" =>
    /\ lap[w] = published /\ published < claims
    /\ ~doneWrite[Slot(published)]
    /\ \A v \in Writers : Filling(v) => ticket[v] # published
    /\ \A v \in Writers : pc[v] = "move" => v = w

RetirersOK ==
  \A r \in Readers : pc[r] = "retire" =>
    /\ lap[r] = returned /\ returned < taken
    /\ ~doneRead[Slot(returned)]
    /\ \A q \in Readers : Using(q) => ticket[q] # returned
    /\ \A q \in Readers : pc[q] = "retire" => q = r

(* A flag is up only on a block that is claimed and not yet visible, or     *)
(* taken and not yet free.                                                  *)
WriteFlagsOK ==
  \A b \in Blocks : doneWrite[b] =>
    \E k \in published .. claims - 1 : b = Slot(k)
ReadFlagsOK ==
  \A b \in Blocks : doneRead[b] =>
    \E k \in returned .. taken - 1 : b = Slot(k)

(* The block of the k-th claim holds the k-th message.                      *)
Intact(k) == /\ amount[Slot(k)] = sent[k + 1].len
             /\ data[Slot(k)] = sent[k + 1].payload

(* The k-th message is in its block: it is finished or being finished, and  *)
(* visible or becoming so, and nobody has copied it yet.                    *)
Settled(k) ==
  \/ \E w \in Writers : pc[w] = "post" /\ ticket[w] = k
  \/ published <= k /\ k < claims /\ doneWrite[Slot(k)]
  \/ k = published /\ \E w \in Writers : pc[w] = "move"
  \/ taken <= k /\ k < published
  \/ \E r \in Readers : pc[r] \in {"size", "copy"} /\ ticket[r] = k

ContentsOK ==
  /\ \A w \in Writers : pc[w] = "fill" =>
        sent[ticket[w] + 1] = [payload |-> <<w, calls[w]>>, len |-> len[w]]
  /\ \A k \in returned .. claims - 1 : Settled(k) => Intact(k)
  /\ \A r \in Readers : pc[r] = "copy" => len[r] # 0 /\ len[r] = amount[own[r]]

(* Everything claimed is being filled, is finished or is being published;   *)
(* everything taken is in use, is finished or is being reclaimed.           *)
NothingLost ==
  /\ \A k \in published .. claims - 1 :
        \/ doneWrite[Slot(k)]
        \/ \E w \in Writers : Filling(w) /\ ticket[w] = k
        \/ k = published /\ \E w \in Writers : pc[w] = "move"
  /\ \A k \in returned .. taken - 1 :
        \/ doneRead[Slot(k)]
        \/ \E r \in Readers : Using(r) /\ ticket[r] = k
        \/ k = returned /\ \E r \in Readers : pc[r] = "retire"

(* A finished block under an end cursor has a thread that is going to look  *)
(* at its flag.                                                             *)
LookersOK ==
  /\ doneWrite[Slot(published)] =>
       \E w \in Writers : \/ pc[w] = "advance"
                          \/ pc[w] = "consume" /\ lap[w] = published
  /\ doneRead[Slot(returned)] =>
       \E r \in Readers : \/ pc[r] \in {"clear", "reclaim"}
                          \/ pc[r] = "unmark" /\ lap[r] = returned

(* Under sequential consistency nobody looks before the flag is up.         *)
SomeoneLooks == ~StoreBuffer => LookersOK /\ \A t \in Threads : ~early[t]

(* A call that has not claimed yet leaves room for its message's number,    *)
(* and one that is filling its block has numbered it.                       *)
CallsOK ==
  \A w \in Writers :
    /\ pc[w] \in {"claim", "room", "await", "cas"} => calls[w] < MaxWrites
    /\ pc[w] = "fill" => calls[w] >= 1

(* Enough for Exclusive: where everybody is.                                *)
PlaceInv ==
  /\ TypeOK /\ CallsOK /\ CursorsOK /\ WindowsOK
  /\ FillersOK /\ UsersOK /\ MoversOK /\ RetirersOK
  /\ WriteFlagsOK /\ ReadFlagsOK

(* And what the blocks hold.                                                *)
IInv == PlaceInv /\ ContentsOK /\ NothingLost /\ SomeoneLooks
=============================================================================
