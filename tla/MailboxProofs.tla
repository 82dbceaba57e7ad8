--------------------------- MODULE MailboxProofs ----------------------------
(***************************************************************************)
(* What the promise of the mailbox means for those who use it: whatever    *)
(* implements the mailbox delivers every message exactly once and keeps    *)
(* the order of each writer, for any number of writers, readers and        *)
(* messages.                                                               *)
(***************************************************************************)
EXTENDS Mailbox, TLAPS

Messages == [payload : Writers \X Nat, len : 0 .. MaxLen]

MailTypes ==
  /\ sent \in Seq(Messages) /\ calls \in [Writers -> Nat]
  /\ visible \in Nat /\ taken \in Nat
  /\ taken <= visible /\ visible <= Len(sent)
  /\ holding \in [Readers -> 0 .. taken]
  /\ inbox \in [Readers -> Seq(Messages)]

(* Each writer numbers its messages in the order of acceptance.             *)
Numbered ==
  /\ \A k \in 1 .. Len(sent) :
       sent[k].payload[2] <= calls[sent[k].payload[1]]
  /\ \A j, k \in 1 .. Len(sent) :
       j < k /\ sent[j].payload[1] = sent[k].payload[1]
         => sent[j].payload[2] < sent[k].payload[2]

(* A message is held by one reader.                                         *)
HeldOnce ==
  \A q, r \in Readers : holding[q] = holding[r] /\ holding[r] # 0 => q = r

(* The i-th message in the inbox of r is the k-th that was sent.            *)
Got(r, i, k) == i \in 1 .. Len(inbox[r]) /\ inbox[r][i] = sent[k]

(* What was received is held no more, and it came in the order of sending   *)
(* and before what the reader holds.                                        *)
Received ==
  /\ \A r \in Readers : \A i \in 1 .. Len(inbox[r]) :
       \E k \in 1 .. taken : Got(r, i, k) /\ \A q \in Readers : holding[q] # k
  /\ \A r \in Readers : \A i, j \in 1 .. Len(inbox[r]) :
       \A k, l \in 1 .. taken : Got(r, i, k) /\ Got(r, j, l) /\ i < j => k < l
  /\ \A r \in Readers : \A i \in 1 .. Len(inbox[r]) : \A k \in 1 .. taken :
       Got(r, i, k) /\ holding[r] # 0 => k < holding[r]

MailInv == MailTypes /\ Numbered /\ HeldOnce /\ Received /\ ExactlyOnce

(* What is in the log.                                                      *)
LEMMA SentType ==
  ASSUME MailTypes, NEW k \in 1 .. Len(sent)
  PROVE  /\ sent[k] \in Messages
         /\ sent[k].payload[1] \in Writers /\ sent[k].payload[2] \in Nat
<1>1. sent[k] \in Messages BY DEF MailTypes
<1>2. sent[k].payload \in Writers \X Nat BY <1>1 DEF Messages
<1>3. \A p \in Writers \X Nat : p[1] \in Writers /\ p[2] \in Nat OBVIOUS
<1> QED BY <1>1, <1>2, <1>3

(* No two messages are the same.                                            *)
LEMMA SentOnce ==
  ASSUME MailInv, NEW j \in 1 .. Len(sent), NEW k \in 1 .. Len(sent),
         sent[j] = sent[k]
  PROVE  j = k
<1>1. sent[j].payload[2] \in Nat BY SentType DEF MailInv
<1> QED BY <1>1 DEF MailInv, Numbered

(* The mailbox starts that way.                                             *)
LEMMA MailStarts == MailInit => MailInv
<1> SUFFICES ASSUME MailInit PROVE MailInv OBVIOUS
<1> USE DEF MailInit
<1>1. MailTypes /\ Numbered /\ HeldOnce
  BY DEF MailTypes, Numbered, HeldOnce
<1>2. \A r \in Readers : Len(inbox[r]) = 0 OBVIOUS
<1> QED BY <1>1, <1>2 DEF MailInv, Received, ExactlyOnce

(* A step that hands nothing over and delivers nothing.                     *)
LEMMA MailSame ==
  ASSUME MailInv, MailTypes', Numbered', UNCHANGED <<taken, holding, inbox>>,
         \A k \in 1 .. taken : sent'[k] = sent[k]
  PROVE  MailInv'
<1>1. \A r, i : \A k \in 1 .. taken : Got(r, i, k)' <=> Got(r, i, k)
  BY DEF Got
<1>2. HeldOnce' BY DEF MailInv, HeldOnce
<1>3. Received' BY <1>1 DEF MailInv, Received
<1>4. ExactlyOnce'
  <2>1. \A k \in 1 .. taken' : k \in 1 .. taken /\ sent'[k] = sent[k]
    OBVIOUS
  <2>2. \A k \in 1 .. taken : k \in 1 .. taken' OBVIOUS
  <2> QED BY <2>1, <2>2 DEF MailInv, ExactlyOnce
<1> QED BY <1>2, <1>3, <1>4 DEF MailInv

(* A message is accepted under its writer's next number.                    *)
LEMMA AcceptKeeps ==
  ASSUME MailInv, NEW w \in Writers, NEW n \in 0 .. MaxLen, Accept(w, n)
  PROVE  MailInv'
<1> DEFINE m == [payload |-> <<w, calls[w] + 1>>, len |-> n]
<1>1. /\ sent' = Append(sent, m) /\ calls' = [calls EXCEPT ![w] = @ + 1]
      /\ UNCHANGED <<visible, taken, freed, holding, inbox>>
  BY DEF Accept
<1>2. m \in Messages BY DEF Messages, MailInv, MailTypes
<1>3. /\ m.payload[1] = w /\ m.payload[2] = calls[w] + 1 OBVIOUS
<1> HIDE DEF m
<1>4. /\ Len(sent') = Len(sent) + 1 /\ sent' \in Seq(Messages)
      /\ sent'[Len(sent) + 1] = m
      /\ \A k \in 1 .. Len(sent) : sent'[k] = sent[k]
  BY <1>1, <1>2 DEF MailInv, MailTypes
<1>5. MailTypes' BY <1>1, <1>4 DEF MailInv, MailTypes
<1>6. \A k \in 1 .. Len(sent) :
        sent[k].payload[1] \in Writers /\ sent[k].payload[2] \in Nat
  BY SentType DEF MailInv
<1>7. calls \in [Writers -> Nat] /\ Len(sent) \in Nat
  BY DEF MailInv, MailTypes
<1>8. ASSUME NEW k \in 1 .. Len(sent')
      PROVE  sent'[k].payload[2] <= calls'[sent'[k].payload[1]]
  <2>1. CASE k = Len(sent) + 1 BY <1>1, <1>3, <1>4, <1>7, <2>1
  <2>2. CASE k # Len(sent) + 1
    <3>1. k \in 1 .. Len(sent) BY <1>4, <1>7, <2>2
    <3>2. sent[k].payload[2] <= calls[sent[k].payload[1]]
      BY <3>1 DEF MailInv, Numbered
    <3>3. calls[sent[k].payload[1]] <= calls'[sent[k].payload[1]]
      BY <3>1, <1>1, <1>6, <1>7
    <3>4. calls'[sent[k].payload[1]] \in Nat BY <3>1, <1>1, <1>6, <1>7
    <3> QED BY <3>1, <3>2, <3>3, <3>4, <1>4, <1>6, <1>7
  <2> QED BY <2>1, <2>2
<1>9. ASSUME NEW j \in 1 .. Len(sent'), NEW k \in 1 .. Len(sent'), j < k,
             sent'[j].payload[1] = sent'[k].payload[1]
      PROVE  sent'[j].payload[2] < sent'[k].payload[2]
  <2>1. j \in 1 .. Len(sent) BY <1>4, <1>7, <1>9
  <2>2. CASE k = Len(sent) + 1
    <3>1. sent[j].payload[2] <= calls[w]
      BY <2>1, <2>2, <1>3, <1>4, <1>9 DEF MailInv, Numbered
    <3> QED BY <3>1, <2>1, <2>2, <1>3, <1>4, <1>6, <1>7
  <2>3. CASE k # Len(sent) + 1
    <3>1. k \in 1 .. Len(sent) BY <1>4, <1>7, <2>3
    <3> QED BY <2>1, <3>1, <1>4, <1>9 DEF MailInv, Numbered
  <2> QED BY <2>2, <2>3
<1>10. Numbered' BY <1>8, <1>9 DEF Numbered
<1>11. \A k \in 1 .. taken : sent'[k] = sent[k]
  <2>1. taken \in Nat /\ visible \in Nat /\ taken <= visible
        /\ visible <= Len(sent)
    BY DEF MailInv, MailTypes
  <2>2. \A k \in 1 .. taken : k \in 1 .. Len(sent) BY <2>1, <1>7
  <2> QED BY <2>2, <1>4
<1> QED BY <1>1, <1>5, <1>10, <1>11, MailSame

(* A message is handed to a reader that holds none.                         *)
LEMMA TakeKeeps ==
  ASSUME MailInv, NEW r \in Readers, Take(r)
  PROVE  MailInv'
<1>1. /\ holding[r] = 0 /\ taken < visible /\ taken' = taken + 1
      /\ holding' = [holding EXCEPT ![r] = taken + 1]
      /\ UNCHANGED <<sent, calls, visible, freed, inbox>>
  BY DEF Take
<1>2. /\ taken \in Nat /\ taken + 1 \in 1 .. Len(sent)
      /\ holding \in [Readers -> 0 .. taken]
  BY <1>1 DEF MailInv, MailTypes
<1>3. MailTypes' BY <1>1, <1>2 DEF MailInv, MailTypes
<1>4. Numbered' BY <1>1 DEF MailInv, Numbered
<1>5. HeldOnce' BY <1>1, <1>2 DEF MailInv, HeldOnce
<1>6. \A q \in Readers : \A i : ~Got(q, i, taken + 1)
  <2> SUFFICES ASSUME NEW q \in Readers, NEW i, Got(q, i, taken + 1)
               PROVE  FALSE
    OBVIOUS
  <2>1. PICK k \in 1 .. taken : Got(q, i, k) BY DEF Got, MailInv, Received
  <2>2. k \in 1 .. Len(sent) /\ sent[k] = sent[taken + 1]
    BY <1>2, <2>1 DEF Got, MailInv, MailTypes
  <2> QED BY <1>2, <2>2, SentOnce
<1>7. \A q, i, k : Got(q, i, k)' <=> Got(q, i, k) BY <1>1 DEF Got
<1>8. \A k \in 1 .. taken' : k \in 1 .. taken \/ k = taken + 1
  BY <1>1, <1>2
<1>9. Received'
  <2>1. ASSUME NEW q \in Readers, NEW i \in 1 .. Len(inbox'[q])
        PROVE  \E k \in 1 .. taken' :
                 Got(q, i, k)' /\ \A p \in Readers : holding'[p] # k
    <3>1. PICK k \in 1 .. taken :
            Got(q, i, k) /\ \A p \in Readers : holding[p] # k
      BY <1>1 DEF MailInv, Received
    <3>2. k \in 1 .. taken' /\ \A p \in Readers : holding'[p] # k
      BY <1>1, <1>2, <3>1
    <3> QED BY <3>1, <3>2, <1>7
  <2>2. ASSUME NEW q \in Readers, NEW i, NEW k \in 1 .. taken', Got(q, i, k)'
        PROVE  k \in 1 .. taken /\ Got(q, i, k)
    BY <2>2, <1>6, <1>7, <1>8
  <2>3. ASSUME NEW q \in Readers, NEW i \in 1 .. Len(inbox'[q]),
               NEW k \in 1 .. taken', Got(q, i, k)', holding'[q] # 0
        PROVE  k < holding'[q]
    <3>1. k \in 1 .. taken /\ Got(q, i, k) BY <2>2, <2>3
    <3>2. CASE q = r BY <1>1, <1>2, <3>1, <3>2
    <3>3. CASE q # r
      BY <1>1, <1>2, <2>3, <3>1, <3>3 DEF MailInv, Received
    <3> QED BY <3>2, <3>3
  <2>4. ASSUME NEW q \in Readers, NEW i \in 1 .. Len(inbox'[q]),
               NEW j \in 1 .. Len(inbox'[q]), NEW k \in 1 .. taken',
               NEW l \in 1 .. taken', Got(q, i, k)', Got(q, j, l)', i < j
        PROVE  k < l
    <3>1. /\ k \in 1 .. taken /\ Got(q, i, k)
          /\ l \in 1 .. taken /\ Got(q, j, l)
      BY <2>2, <2>4
    <3> QED BY <1>1, <2>4, <3>1 DEF MailInv, Received
  <2> QED BY <2>1, <2>3, <2>4 DEF Received
<1>10. ExactlyOnce'
  <2>1. ASSUME NEW q \in Readers, NEW i \in 1 .. Len(inbox'[q])
        PROVE  \E k \in 1 .. taken' : inbox'[q][i] = sent'[k]
    <3>1. PICK k \in 1 .. taken : inbox[q][i] = sent[k]
      BY <1>1 DEF MailInv, ExactlyOnce
    <3> QED BY <1>1, <1>2, <3>1
  <2>2. ASSUME NEW k \in 1 .. taken', sent'[k].len # 0,
               \A q \in Readers : holding'[q] # k
        PROVE  \E q \in Readers : \E i \in 1 .. Len(inbox'[q]) :
                 inbox'[q][i] = sent'[k]
    <3>1. k \in 1 .. taken /\ \A q \in Readers : holding[q] # k
      BY <1>1, <1>2, <1>8, <2>2
    <3> QED BY <1>1, <2>2, <3>1 DEF MailInv, ExactlyOnce
  <2>3. \A p, q \in Readers :
          \A i \in 1 .. Len(inbox'[p]), j \in 1 .. Len(inbox'[q]) :
            inbox'[p][i] = inbox'[q][j] => p = q /\ i = j
    BY <1>1 DEF MailInv, ExactlyOnce
  <2> QED BY <2>1, <2>2, <2>3 DEF ExactlyOnce
<1> QED BY <1>3, <1>4, <1>5, <1>9, <1>10 DEF MailInv

(* A reader receives the message that it holds.                             *)
LEMMA DeliverKeeps ==
  ASSUME MailInv, NEW r \in Readers, Deliver(r)
  PROVE  MailInv'
<1>0. PICK h, n : h = holding[r] /\ n = Len(inbox[r]) OBVIOUS
<1>1. /\ h # 0 /\ holding' = [holding EXCEPT ![r] = 0]
      /\ UNCHANGED <<sent, calls, visible, taken, freed>>
      /\ sent[h].len = 0 => inbox' = inbox
      /\ sent[h].len # 0 => inbox' = [inbox EXCEPT ![r] = Append(@, sent[h])]
  BY <1>0 DEF Deliver
<1>2. /\ h \in 1 .. taken /\ taken \in Nat /\ taken <= Len(sent) /\ n \in Nat
      /\ holding \in [Readers -> 0 .. taken]
      /\ sent[h] \in Messages /\ inbox \in [Readers -> Seq(Messages)]
  BY <1>0, <1>1 DEF MailInv, MailTypes
<1>3. MailTypes'
  <2>1. holding' \in [Readers -> 0 .. taken] BY <1>1, <1>2
  <2>2. inbox' \in [Readers -> Seq(Messages)]
    <3>1. Append(inbox[r], sent[h]) \in Seq(Messages) BY <1>2
    <3> QED BY <1>1, <1>2, <3>1
  <2> QED BY <1>1, <2>1, <2>2 DEF MailInv, MailTypes
<1>4. Numbered' BY <1>1 DEF MailInv, Numbered
<1>5. HeldOnce' BY <1>1, <1>2 DEF MailInv, HeldOnce
<1>6. /\ holding'[r] = 0
      /\ \A q \in Readers \ {r} : holding'[q] = holding[q]
  BY <1>1, <1>2
<1>6a. \A q \in Readers : holding'[q] = holding[q] \/ holding'[q] = 0
  BY <1>6
<1>7. CASE sent[h].len = 0
  <2>1. \A q, i, k : Got(q, i, k)' <=> Got(q, i, k) BY <1>1, <1>7 DEF Got
  <2>2. Received'
    <3>1. inbox' = inbox /\ taken' = taken BY <1>1, <1>7
    <3>2. ASSUME NEW q \in Readers, NEW i \in 1 .. Len(inbox[q])
          PROVE  \E k \in 1 .. taken :
                   Got(q, i, k)' /\ \A p \in Readers : holding'[p] # k
      <4>1. PICK k \in 1 .. taken :
              Got(q, i, k) /\ \A p \in Readers : holding[p] # k
        BY DEF MailInv, Received
      <4>2. \A p \in Readers : holding'[p] # k BY <4>1, <1>6a
      <4> QED BY <4>1, <4>2, <2>1
    <3>3. ASSUME NEW q \in Readers, NEW i \in 1 .. Len(inbox[q]),
                 NEW k \in 1 .. taken, Got(q, i, k)', holding'[q] # 0
          PROVE  k < holding'[q]
      <4>1. q # r /\ holding'[q] = holding[q] BY <1>6, <3>3
      <4> QED BY <2>1, <3>3, <4>1 DEF MailInv, Received
    <3>4. \A q \in Readers : \A i, j \in 1 .. Len(inbox[q]) :
            \A k, l \in 1 .. taken :
              Got(q, i, k)' /\ Got(q, j, l)' /\ i < j => k < l
      BY <2>1 DEF MailInv, Received
    <3> QED BY <3>1, <3>2, <3>3, <3>4 DEF Received
  <2>3. ASSUME NEW k \in 1 .. taken, sent[k].len # 0,
               \A q \in Readers : holding'[q] # k
        PROVE  \A q \in Readers : holding[q] # k
    BY <1>0, <1>1, <1>2, <1>7, <2>3
  <2>4. ExactlyOnce' BY <1>1, <1>7, <2>3 DEF MailInv, ExactlyOnce
  <2> QED BY <1>3, <1>4, <1>5, <2>2, <2>4 DEF MailInv
<1>8. CASE sent[h].len # 0
  <2>1. /\ Len(inbox'[r]) = n + 1 /\ inbox'[r][n + 1] = sent[h]
        /\ \A i \in 1 .. n : inbox'[r][i] = inbox[r][i]
        /\ \A q \in Readers \ {r} : inbox'[q] = inbox[q]
    <3>1. inbox' = [inbox EXCEPT ![r] = Append(inbox[r], sent[h])]
      BY <1>1, <1>8
    <3>2. inbox'[r] = Append(inbox[r], sent[h]) BY <3>1, <1>2
    <3>3. inbox[r] \in Seq(Messages) BY <1>2
    <3>4. \A q \in Readers \ {r} : inbox'[q] = inbox[q] BY <3>1, <1>2
    <3> QED BY <3>2, <3>3, <3>4, <1>0, <1>2
  <2>2. \A q \in Readers : \A i \in 1 .. Len(inbox[q]) :
          /\ i \in 1 .. Len(inbox'[q]) /\ inbox'[q][i] = inbox[q][i]
          /\ inbox[q][i] # sent[h]
    <3> SUFFICES ASSUME NEW q \in Readers, NEW i \in 1 .. Len(inbox[q])
                 PROVE  /\ i \in 1 .. Len(inbox'[q])
                        /\ inbox'[q][i] = inbox[q][i]
                        /\ inbox[q][i] # sent[h]
      OBVIOUS
    <3>1. PICK k \in 1 .. taken : Got(q, i, k) /\ k # h
      BY <1>0 DEF MailInv, Received
    <3>2. inbox[q][i] # sent[h]
      BY <1>2, <3>1, SentOnce DEF Got
    <3>3. i \in 1 .. Len(inbox'[q]) /\ inbox'[q][i] = inbox[q][i]
      <4>1. CASE q = r
        <5>1. i \in 1 .. n BY <1>0, <4>1
        <5>2. i \in 1 .. n + 1 BY <5>1, <1>2
        <5> QED BY <2>1, <4>1, <5>1, <5>2
      <4>2. CASE q # r BY <2>1, <4>2
      <4> QED BY <4>1, <4>2
    <3> QED BY <3>2, <3>3
  <2>3. \A q \in Readers : \A i \in 1 .. Len(inbox'[q]) :
          i \in 1 .. Len(inbox[q]) \/ (q = r /\ i = n + 1)
    BY <1>0, <1>2, <2>1
  <2>4. ASSUME NEW k \in 1 .. taken PROVE Got(r, n + 1, k)' <=> k = h
    <3>1. Got(r, n + 1, k)' <=> sent[k] = sent[h]
      <4>1. n + 1 \in 1 .. Len(inbox'[r]) BY <1>2, <2>1
      <4> QED BY <1>1, <2>1, <4>1 DEF Got
    <3>2. k \in 1 .. Len(sent) /\ h \in 1 .. Len(sent)
      <4>1. Len(sent) \in Nat BY DEF MailInv, MailTypes
      <4> QED BY <1>2, <4>1
    <3>3. sent[k] = sent[h] => k = h BY <3>2, SentOnce
    <3> QED BY <3>1, <3>3
  <2>5. \A q \in Readers : \A i \in 1 .. Len(inbox[q]) : \A k :
          Got(q, i, k)' <=> Got(q, i, k)
    BY <1>1, <2>2 DEF Got
  <2>6. ASSUME NEW q \in Readers, NEW i \in 1 .. Len(inbox'[q])
        PROVE  \E k \in 1 .. taken :
                 Got(q, i, k)' /\ \A p \in Readers : holding'[p] # k
    <3>1. CASE i \in 1 .. Len(inbox[q])
      <4>1. PICK k \in 1 .. taken :
              Got(q, i, k) /\ \A p \in Readers : holding[p] # k
        BY <3>1 DEF MailInv, Received
      <4>2. \A p \in Readers : holding'[p] # k BY <4>1, <1>6a, <1>2
      <4> QED BY <3>1, <4>1, <4>2, <2>5
    <3>2. CASE q = r /\ i = n + 1
      <4>1. \A p \in Readers : holding'[p] # h
        <5> SUFFICES ASSUME NEW p \in Readers, holding'[p] = h PROVE FALSE
          OBVIOUS
        <5>1. p # r BY <1>1, <1>6
        <5>2. holding[p] = holding[r] BY <1>0, <5>1, <1>6
        <5> QED BY <1>0, <5>1, <5>2, <1>1 DEF MailInv, HeldOnce
      <4>2. Got(r, n + 1, h)' BY <1>2, <2>4
      <4> QED BY <1>2, <3>2, <4>1, <4>2
    <3> QED BY <2>3, <3>1, <3>2
  <2>7. ASSUME NEW q \in Readers, NEW i \in 1 .. Len(inbox'[q]),
               NEW j \in 1 .. Len(inbox'[q]), NEW k \in 1 .. taken,
               NEW l \in 1 .. taken, Got(q, i, k)', Got(q, j, l)', i < j
        PROVE  k < l
    <3>1. i \in 1 .. Len(inbox[q])
      BY <1>0, <1>2, <2>1, <2>3, <2>7
    <3>2. Got(q, i, k) BY <2>5, <2>7, <3>1
    <3>3. CASE j \in 1 .. Len(inbox[q])
      <4>1. Got(q, j, l) BY <2>5, <2>7, <3>3
      <4> QED BY <2>7, <3>1, <3>2, <3>3, <4>1 DEF MailInv, Received
    <3>4. CASE q = r /\ j = n + 1
      <4>1. l = h BY <2>4, <2>7, <3>4
      <4> QED BY <1>0, <1>1, <3>1, <3>2, <3>4, <4>1 DEF MailInv, Received
    <3> QED BY <2>3, <3>3, <3>4
  <2>8. ASSUME NEW q \in Readers, NEW i \in 1 .. Len(inbox'[q]),
               NEW k \in 1 .. taken, Got(q, i, k)', holding'[q] # 0
        PROVE  k < holding'[q]
    <3>1. q # r /\ holding'[q] = holding[q] BY <1>1, <1>2, <2>8
    <3>2. i \in 1 .. Len(inbox[q]) BY <2>3, <3>1
    <3> QED BY <2>5, <2>8, <3>1, <3>2 DEF MailInv, Received
  <2>9. Received' BY <1>1, <2>6, <2>7, <2>8 DEF Received
  <2>10. ASSUME NEW p \in Readers, NEW q \in Readers,
                NEW i \in 1 .. Len(inbox'[p]), NEW j \in 1 .. Len(inbox'[q]),
                inbox'[p][i] = inbox'[q][j]
         PROVE  p = q /\ i = j
    <3>1. CASE i \in 1 .. Len(inbox[p]) /\ j \in 1 .. Len(inbox[q])
      BY <2>2, <2>10, <3>1 DEF MailInv, ExactlyOnce
    <3>2. CASE i \notin 1 .. Len(inbox[p]) /\ j \in 1 .. Len(inbox[q])
      BY <2>1, <2>2, <2>3, <2>10, <3>2
    <3>3. CASE i \in 1 .. Len(inbox[p]) /\ j \notin 1 .. Len(inbox[q])
      BY <2>1, <2>2, <2>3, <2>10, <3>3
    <3>4. CASE i \notin 1 .. Len(inbox[p]) /\ j \notin 1 .. Len(inbox[q])
      BY <2>3, <3>4
    <3> QED BY <3>1, <3>2, <3>3, <3>4
  <2>11. ASSUME NEW k \in 1 .. taken, sent[k].len # 0,
                \A q \in Readers : holding'[q] # k
         PROVE  \E q \in Readers : \E i \in 1 .. Len(inbox'[q]) :
                  inbox'[q][i] = sent[k]
    <3>1. CASE k = h
      <4>1. n + 1 \in 1 .. Len(inbox'[r]) BY <1>2, <2>1
      <4> QED BY <2>1, <3>1, <4>1
    <3>2. CASE k # h
      <4>1. \A q \in Readers : holding[q] # k
        BY <1>0, <1>1, <1>2, <2>11, <3>2
      <4>2. PICK q \in Readers : \E i \in 1 .. Len(inbox[q]) :
                                   inbox[q][i] = sent[k]
        BY <2>11, <4>1 DEF MailInv, ExactlyOnce
      <4> QED BY <2>2, <4>2
    <3> QED BY <3>1, <3>2
  <2>12. ExactlyOnce'
    <3>1. \A q \in Readers : \A i \in 1 .. Len(inbox'[q]) :
            \E k \in 1 .. taken : inbox'[q][i] = sent'[k]
      BY <2>6 DEF Got
    <3>2. \A p, q \in Readers :
            \A i \in 1 .. Len(inbox'[p]), j \in 1 .. Len(inbox'[q]) :
              inbox'[p][i] = inbox'[q][j] => p = q /\ i = j
      BY <2>10
    <3>3. taken' = taken /\ sent' = sent BY <1>1
    <3> QED BY <2>11, <3>1, <3>2, <3>3 DEF ExactlyOnce
  <2> QED BY <1>3, <1>4, <1>5, <2>9, <2>12 DEF MailInv
<1> QED BY <1>7, <1>8

(* No step of the mailbox leaves the invariant.                             *)
LEMMA MailSteps == MailInv /\ [MailNext]_mailVars => MailInv'
<1> SUFFICES ASSUME MailInv, [MailNext]_mailVars PROVE MailInv' OBVIOUS
<1>1. ASSUME Publish PROVE MailInv'
  <2>1. MailTypes' BY <1>1 DEF Publish, MailInv, MailTypes
  <2>2. Numbered' BY <1>1 DEF Publish, MailInv, Numbered
  <2> QED BY <1>1, <2>1, <2>2, MailSame DEF Publish
<1>2. ASSUME Free \/ UNCHANGED mailVars PROVE MailInv'
  <2>1. UNCHANGED <<sent, calls, visible, taken, holding, inbox>>
    BY <1>2 DEF Free, mailVars
  <2>2. MailTypes' BY <2>1 DEF MailInv, MailTypes
  <2>3. Numbered' BY <2>1 DEF MailInv, Numbered
  <2> QED BY <2>1, <2>2, <2>3, MailSame
<1> QED BY <1>1, <1>2, AcceptKeeps, TakeKeeps, DeliverKeeps DEF MailNext

(* The promise says what its users want to hear.                            *)
LEMMA MailSays == MailInv => ExactlyOnce /\ WriterOrder
<1> SUFFICES ASSUME MailInv PROVE WriterOrder BY DEF MailInv
<1> SUFFICES ASSUME NEW r \in Readers, NEW i \in 1 .. Len(inbox[r]),
                    NEW j \in 1 .. Len(inbox[r]), i < j,
                    inbox[r][i].payload[1] = inbox[r][j].payload[1]
             PROVE  inbox[r][i].payload[2] < inbox[r][j].payload[2]
  BY DEF WriterOrder
<1>1. PICK k \in 1 .. taken : Got(r, i, k) BY DEF MailInv, Received
<1>2. PICK l \in 1 .. taken : Got(r, j, l) BY DEF MailInv, Received
<1>3. k < l BY <1>1, <1>2 DEF MailInv, Received
<1>4. k \in 1 .. Len(sent) /\ l \in 1 .. Len(sent)
  BY <1>1, <1>2 DEF MailInv, MailTypes
<1> QED BY <1>1, <1>2, <1>3, <1>4 DEF Got, MailInv, Numbered

(* Whatever keeps the promise of the mailbox delivers every message once,   *)
(* and the messages of a writer in order.                                   *)
THEOREM MailCorrect == MailSpec => [](ExactlyOnce /\ WriterOrder)
BY MailStarts, MailSteps, MailSays, PTL DEF MailSpec
=============================================================================
