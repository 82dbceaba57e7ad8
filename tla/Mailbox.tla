------------------------------ MODULE Mailbox -------------------------------
(***************************************************************************)
(* What the ring of ShmQueue promises its callers, with no cursors, flags  *)
(* or blocks: messages are accepted into one order, become visible in that *)
(* order, each is handed to exactly one reader in that order, a reader     *)
(* gets exactly what was accepted, and at most Capacity messages are in    *)
(* the mailbox at a time.  A message of length 0 is dropped by the reader  *)
(* it is handed to (the loop in ShmQueue::read).                           *)
(***************************************************************************)
EXTENDS Naturals, Sequences

CONSTANTS Writers, Readers, Capacity, MaxLen

VARIABLES
  sent,      \* all messages accepted, in order
  calls,     \* number of messages accepted from each writer
  visible,   \* the first visible messages of sent may be taken
  taken,     \* the first taken messages of sent have been handed to a reader
  freed,     \* the first freed messages of sent no longer take up space
  holding,   \* position in sent of the message a reader holds, or 0
  inbox      \* what each reader has received

mailVars == <<sent, calls, visible, taken, freed, holding, inbox>>

MailInit ==
  /\ sent = <<>>
  /\ calls = [w \in Writers |-> 0]
  /\ visible = 0 /\ taken = 0 /\ freed = 0
  /\ holding = [r \in Readers |-> 0]
  /\ inbox = [r \in Readers |-> <<>>]

(* A writer's messages are numbered in the order it sends them.            *)
Accept(w, n) ==
  /\ Len(sent) - freed < Capacity
  /\ calls' = [calls EXCEPT ![w] = @ + 1]
  /\ sent' = Append(sent, [payload |-> <<w, calls[w] + 1>>, len |-> n])
  /\ UNCHANGED <<visible, taken, freed, holding, inbox>>

Publish ==
  /\ visible < Len(sent)
  /\ visible' = visible + 1
  /\ UNCHANGED <<sent, calls, taken, freed, holding, inbox>>

Take(r) ==
  /\ holding[r] = 0
  /\ taken < visible
  /\ taken' = taken + 1
  /\ holding' = [holding EXCEPT ![r] = taken + 1]
  /\ UNCHANGED <<sent, calls, visible, freed, inbox>>

Deliver(r) ==
  /\ holding[r] # 0
  /\ IF sent[holding[r]].len = 0
       THEN UNCHANGED inbox
       ELSE inbox' = [inbox EXCEPT ![r] = Append(@, sent[holding[r]])]
  /\ holding' = [holding EXCEPT ![r] = 0]
  /\ UNCHANGED <<sent, calls, visible, taken, freed>>

(* Space is given back in order, never that of a message still held.       *)
Free ==
  /\ freed < taken
  /\ \A r \in Readers : holding[r] # freed + 1
  /\ freed' = freed + 1
  /\ UNCHANGED <<sent, calls, visible, taken, holding, inbox>>

MailNext ==
  \/ \E w \in Writers, n \in 0 .. MaxLen : Accept(w, n)
  \/ \E r \in Readers : Take(r) \/ Deliver(r)
  \/ Publish
  \/ Free

MailSpec == MailInit /\ [][MailNext]_mailVars
-----------------------------------------------------------------------------
(* Properties *)

(* What readers have received was sent, none of it twice or to two of them, *)
(* and every message that was handed out and is no longer held was received *)
(* by somebody, unless it was empty.                                        *)
ExactlyOnce ==
  /\ \A r \in Readers : \A i \in 1 .. Len(inbox[r]) :
       \E k \in 1 .. taken : inbox[r][i] = sent[k]
  /\ \A q, r \in Readers :
       \A i \in 1 .. Len(inbox[q]), j \in 1 .. Len(inbox[r]) :
         inbox[q][i] = inbox[r][j] => q = r /\ i = j
  /\ \A k \in 1 .. taken :
       sent[k].len # 0 /\ (\A r \in Readers : holding[r] # k)
         => \E r \in Readers : \E i \in 1 .. Len(inbox[r]) :
              inbox[r][i] = sent[k]

(* A reader receives a writer's messages in the order they were sent in.    *)
WriterOrder ==
  \A r \in Readers : \A i, j \in 1 .. Len(inbox[r]) :
    LET m == inbox[r][i].payload  n == inbox[r][j].payload
    IN  i < j /\ m[1] = n[1] => m[2] < n[2]
=============================================================================
