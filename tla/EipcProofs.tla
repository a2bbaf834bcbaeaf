----------------------------- MODULE EipcProofs -----------------------------
(***************************************************************************)
(* The EIPC channel for every capacity, number of messages and number of   *)
(* corrupted ciphertexts, with the two loops in sequence or concurrent.    *)
(***************************************************************************)
EXTENDS Eipc, Integers, TLAPS

(***************************************************************************)
(* Messages: what was sealed, whole or with a bit flipped.                 *)
(***************************************************************************)
AllMessages == Messages \cup {Corrupted(m) : m \in Messages}

LEMMA SealedShape ==
    ASSUME NEW n \in 1 .. MaxSeq
    PROVE  LET m == Message(n, Plaintext(n))
           IN /\ m \in AllMessages /\ m.seq = n /\ Corrupted(m).seq = n
              /\ m.ct.pt = Plaintext(n) /\ ~m.ct.flipped
              /\ Corrupted(m).ct.flipped /\ ~Opens(Corrupted(m))
              /\ Corrupted(Corrupted(m)) = Corrupted(m)
<1> DEFINE m == Message(n, Plaintext(n))
<1>1. m \in AllMessages
  BY DEF AllMessages, Messages
<1>2. /\ m.seq = n /\ Corrupted(m).seq = n /\ m.ct.pt = Plaintext(n) /\ ~m.ct.flipped
      /\ Corrupted(m).ct.flipped /\ Corrupted(m).tag.ct.flipped = FALSE
  BY DEF Message, Encrypt, Corrupted, Flip, Poly1305
<1>3. ~Opens(Corrupted(m))
  BY <1>2 DEF Opens, Poly1305
<1>4. Corrupted(Corrupted(m)) = Corrupted(m)
  BY DEF Corrupted, Flip, Message, Encrypt
<1> QED BY <1>1, <1>2, <1>3, <1>4

\* Corruption changes neither the number of a message nor that it is one, and
\* what opens has the plaintext that was sealed under that number.
LEMMA MessageFacts ==
    ASSUME NEW m \in AllMessages
    PROVE  /\ m.seq \in 1 .. MaxSeq /\ m # None
           /\ Corrupted(m) \in AllMessages /\ Corrupted(m).seq = m.seq
           /\ Opens(m) => Decrypt(m.ct) = Plaintext(m.seq)
<1>1. PICK n \in 1 .. MaxSeq : LET s == Message(n, Plaintext(n)) IN m = s \/ m = Corrupted(s)
  BY DEF AllMessages, Messages
<1> DEFINE s == Message(n, Plaintext(n))
<1>2. s \in Messages
  BY DEF Messages
<1>3. /\ s.seq = n /\ Corrupted(s).seq = n /\ s.ct.pt = Plaintext(n) /\ ~s.ct.flipped
      /\ ~Opens(Corrupted(s)) /\ Corrupted(Corrupted(s)) = Corrupted(s)
  BY SealedShape
<1> HIDE DEF s
<1>4. Corrupted(m) = Corrupted(s) /\ m.seq = n /\ (Opens(m) => m = s)
  BY <1>1, <1>3 DEF s
<1> QED BY <1>2, <1>3, <1>4, EipcNoneAssumption DEF AllMessages, Decrypt

(***************************************************************************)
(* The ring, counted from head.                                            *)
(***************************************************************************)
At(i) == slots[(head + i) % CAP]

\* Offsets up to CAP wrap at most once.
LEMMA Wraps ==
    ASSUME NEW h \in Slots, NEW i \in 0 .. CAP
    PROVE  /\ (h + i) % CAP = IF h + i < CAP THEN h + i ELSE h + i - CAP
           /\ (h + i) % CAP \in Slots
<1>1. CAP \in Nat /\ CAP >= 1 /\ h \in Nat /\ h < CAP /\ i \in Nat /\ i <= CAP
  BY CapAssumption DEF Slots
<1>2. CASE h + i < CAP
  BY <1>1, <1>2 DEF Slots
<1>3. CASE h + i >= CAP
  <2>1. h + i = CAP + (h + i - CAP) /\ h + i - CAP \in 0 .. CAP - 1
    BY <1>1, <1>3
  <2>2. \A x, y \in Nat : y < CAP /\ x = CAP + y => x % CAP = y
    BY <1>1
  <2> QED BY <1>1, <1>3, <2>1, <2>2 DEF Slots
<1> QED BY <1>1, <1>2, <1>3

RingInv ==
    /\ head \in Slots /\ tail \in Slots /\ count \in 0 .. CAP
    /\ tail = (head + count) % CAP
    /\ slots \in [Slots -> AllMessages \cup {None}]
    /\ \A i \in Slots : IF i < count THEN At(i) \in AllMessages ELSE At(i) = None

\* enqueue writes behind the last message.
LEMMA PutAt ==
    ASSUME RingInv, ~Full, NEW m \in AllMessages, Put(m)
    PROVE  /\ RingInv' /\ count' = count + 1
           /\ \A i \in Slots : At(i)' = IF i = count THEN m ELSE At(i)
<1>0. CAP \in Nat /\ count \in Nat /\ count < CAP /\ count \in Slots /\ head \in Slots /\ tail \in Slots
  BY CapAssumption DEF RingInv, Full, Slots
<1>1. /\ slots' = [slots EXCEPT ![tail] = m] /\ tail' = NextSlot(tail) /\ count' = count + 1
      /\ head' = head /\ tail = (head + count) % CAP
  BY DEF Put, RingInv
<1>2. \A i \in Slots : (head + i) % CAP \in Slots /\ ((head + i) % CAP = tail <=> i = count)
  <2> SUFFICES ASSUME NEW i \in Slots
               PROVE  (head + i) % CAP \in Slots /\ ((head + i) % CAP = tail <=> i = count)
    OBVIOUS
  <2>1. i \in 0 .. CAP /\ count \in 0 .. CAP
    BY <1>0 DEF Slots
  <2>2. /\ (head + i) % CAP = IF head + i < CAP THEN head + i ELSE head + i - CAP
        /\ (head + i) % CAP \in Slots
    BY <1>0, <2>1, Wraps
  <2>3. tail = IF head + count < CAP THEN head + count ELSE head + count - CAP
    BY <1>0, <1>1, <2>1, Wraps
  <2> QED BY <1>0, <2>1, <2>2, <2>3 DEF Slots
<1>3. \A i \in Slots : At(i)' = IF i = count THEN m ELSE At(i)
  BY <1>0, <1>1, <1>2 DEF At, RingInv
<1>4. tail' \in Slots /\ tail' = (head' + count') % CAP
  <2>1. 1 \in 0 .. CAP /\ count + 1 \in 0 .. CAP /\ count \in 0 .. CAP
    BY <1>0
  <2>2. tail' = IF tail + 1 < CAP THEN tail + 1 ELSE tail + 1 - CAP
    BY <1>0, <1>1, <2>1, Wraps DEF NextSlot
  <2>3. tail = IF head + count < CAP THEN head + count ELSE head + count - CAP
    BY <1>0, <1>1, <2>1, Wraps
  <2>4. (head + (count + 1)) % CAP = IF head + (count + 1) < CAP THEN head + (count + 1)
                                     ELSE head + (count + 1) - CAP
    BY <1>0, <2>1, Wraps
  <2> QED BY <1>0, <1>1, <2>2, <2>3, <2>4 DEF Slots
<1>5. slots' \in [Slots -> AllMessages \cup {None}]
  BY <1>0, <1>1 DEF RingInv
<1>6. \A i \in Slots : IF i < count' THEN At(i)' \in AllMessages ELSE At(i)' = None
  BY <1>0, <1>1, <1>3 DEF RingInv, Slots
<1>7. RingInv'
  BY <1>0, <1>1, <1>4, <1>5, <1>6 DEF RingInv, At
<1> QED BY <1>1, <1>3, <1>7

\* dequeue takes the first message, the others move up by one.
LEMMA TakeAt ==
    ASSUME RingInv, count # 0, Take
    PROVE  /\ RingInv' /\ count' = count - 1
           /\ slots[head] = At(0) /\ At(0) \in AllMessages
           /\ \A i \in Slots : i + 1 \in Slots => At(i)' = At(i + 1)
<1>0. /\ CAP \in Nat /\ CAP >= 1 /\ count \in Nat /\ 0 < count /\ count <= CAP
      /\ head \in Slots /\ head \in Nat /\ head < CAP /\ 0 \in Slots
  BY CapAssumption DEF RingInv, Slots
<1>1. /\ slots' = [slots EXCEPT ![head] = None] /\ head' = (head + 1) % CAP
      /\ count' = count - 1 /\ tail' = tail
  BY DEF Take, Emptied, NextSlot
<1>2. head' = (IF head + 1 < CAP THEN head + 1 ELSE head + 1 - CAP) /\ head' \in Slots
  BY <1>0, <1>1, Wraps, 1 \in 0 .. CAP
<1>3. slots[head] = At(0) /\ At(0) \in AllMessages
  <2>1. (head + 0) % CAP = head
    BY <1>0
  <2> QED BY <1>0, <2>1 DEF At, RingInv
<1>4. ASSUME NEW i \in Slots
      PROVE  (head' + i) % CAP = (IF i + 1 < CAP THEN (head + (i + 1)) % CAP ELSE head)
  <2>1. i \in 0 .. CAP /\ i + 1 \in 0 .. CAP
    BY <1>0 DEF Slots
  <2>2. (head' + i) % CAP = IF head' + i < CAP THEN head' + i ELSE head' + i - CAP
    BY <1>2, <2>1, Wraps
  <2>3. (head + (i + 1)) % CAP = IF head + (i + 1) < CAP THEN head + (i + 1)
                                 ELSE head + (i + 1) - CAP
    BY <1>0, <2>1, Wraps
  <2> QED BY <1>0, <1>2, <2>1, <2>2, <2>3 DEF Slots
<1>5. ASSUME NEW i \in Slots, i # 0 PROVE (head + i) % CAP # head /\ (head + i) % CAP \in Slots
  <2>1. i \in 0 .. CAP
    BY <1>0 DEF Slots
  <2>2. /\ (head + i) % CAP = IF head + i < CAP THEN head + i ELSE head + i - CAP
        /\ (head + i) % CAP \in Slots
    BY <1>0, <2>1, Wraps
  <2> QED BY <1>0, <1>5, <2>1, <2>2 DEF Slots
<1>6. \A i \in Slots : i + 1 \in Slots => At(i)' = At(i + 1)
  <2> SUFFICES ASSUME NEW i \in Slots, i + 1 \in Slots PROVE At(i)' = At(i + 1)
    OBVIOUS
  <2>1. i + 1 < CAP /\ i + 1 # 0
    BY <1>0 DEF Slots
  <2>2. (head' + i) % CAP = (head + (i + 1)) % CAP
    BY <1>4, <2>1
  <2>3. slots'[(head + (i + 1)) % CAP] = slots[(head + (i + 1)) % CAP]
    BY <1>0, <1>1, <1>5, <2>1 DEF RingInv
  <2> QED BY <2>2, <2>3 DEF At
<1>7. ASSUME NEW i \in Slots, i + 1 \notin Slots PROVE At(i)' = None
  <2>1. ~(i + 1 < CAP)
    BY <1>0, <1>7 DEF Slots
  <2>2. (head' + i) % CAP = head
    BY <1>4, <2>1
  <2> QED BY <1>0, <1>1, <2>2 DEF At, RingInv
<1>8. ASSUME NEW i \in Slots
      PROVE  IF i < count' THEN At(i)' \in AllMessages ELSE At(i)' = None
  <2>1. CASE i + 1 \in Slots
    BY <1>0, <1>1, <1>6, <2>1 DEF RingInv, Slots
  <2>2. CASE i + 1 \notin Slots
    BY <1>0, <1>1, <1>7, <2>2 DEF Slots
  <2> QED BY <2>1, <2>2
<1>9. tail' = (head' + count') % CAP
  <2>1. count \in 0 .. CAP /\ count - 1 \in 0 .. CAP
    BY <1>0
  <2>2. tail = IF head + count < CAP THEN head + count ELSE head + count - CAP
    BY <1>0, <2>1, Wraps DEF RingInv
  <2>3. (head' + (count - 1)) % CAP = IF head' + (count - 1) < CAP THEN head' + (count - 1)
                                     ELSE head' + (count - 1) - CAP
    BY <1>2, <2>1, Wraps
  <2> QED BY <1>0, <1>1, <1>2, <2>2, <2>3
<1>10. RingInv'
  BY <1>0, <1>1, <1>2, <1>8, <1>9 DEF RingInv, At
<1> QED BY <1>1, <1>3, <1>6, <1>10

\* A flipped bit leaves every message where it is, with the same number.
LEMMA CorruptAt ==
    ASSUME RingInv, NEW k \in Slots, CorruptSlot(k)
    PROVE  /\ RingInv' /\ count' = count
           /\ \A i \in Slots : i < count => At(i)'.seq = At(i).seq
<1>1. /\ slots' = [slots EXCEPT ![k] = Corrupted(slots[k])] /\ slots[k] # None
      /\ head' = head /\ tail' = tail /\ count' = count
  BY DEF CorruptSlot
<1>2. slots[k] \in AllMessages
  BY <1>1 DEF RingInv
<1>3. /\ Corrupted(slots[k]) \in AllMessages /\ Corrupted(slots[k]).seq = slots[k].seq
  BY <1>2, MessageFacts
<1>4. ASSUME NEW i \in Slots
      PROVE  /\ At(i)' = IF (head + i) % CAP = k THEN Corrupted(slots[k]) ELSE At(i)
             /\ (head + i) % CAP = k => At(i) = slots[k] /\ i < count
  <2>1. i \in 0 .. CAP /\ head \in Slots
    BY CapAssumption DEF Slots, RingInv
  <2>2. (head + i) % CAP \in Slots
    BY <2>1, Wraps
  <2> QED BY <1>1, <2>2 DEF At, RingInv
<1>5. RingInv'
  <2>1. slots' \in [Slots -> AllMessages \cup {None}]
    BY <1>1, <1>3 DEF RingInv
  <2>2. \A i \in Slots : IF i < count THEN At(i)' \in AllMessages ELSE At(i)' = None
    BY <1>3, <1>4 DEF RingInv
  <2> QED BY <1>1, <2>1, <2>2 DEF RingInv, At
<1> QED BY <1>1, <1>3, <1>4, <1>5

(***************************************************************************)
(* The numbers: those delivered, the one being opened and those in the     *)
(* ring increase, in this order, none is beyond what the sender sealed,    *)
(* and all of them were accepted.                                          *)
(***************************************************************************)
Sealed == IF spc = "log" THEN seq ELSE seq - 1
AcceptedIn(acc, n) == \E j \in DOMAIN acc : acc[j] = n
Openings == {<<n, Plaintext(n)>> : n \in 1 .. MaxSeq}

SenderInv ==
    /\ spc \in {"enqueue", "log"} /\ seq \in 1 .. MaxSeq + 1
    /\ spc = "log" => seq <= MaxSeq
    /\ accepted \in Seq(1 .. MaxSeq) /\ delivered \in Seq(Openings)

OrderInv ==
    /\ \A i \in Slots : i < count => At(i).seq <= Sealed /\ AcceptedIn(accepted, At(i).seq)
    /\ \A i, j \in Slots : i < j /\ j < count => At(i).seq < At(j).seq

OpenInv ==
    rpc = "open" => /\ msg \in AllMessages /\ msg.seq <= Sealed /\ AcceptedIn(accepted, msg.seq)
                    /\ \A i \in Slots : i < count => msg.seq < At(i).seq

DeliveredInv ==
    /\ \A k \in DOMAIN delivered :
         LET n == delivered[k][1]
         IN /\ n <= Sealed /\ AcceptedIn(accepted, n)
            /\ \A i \in Slots : i < count => n < At(i).seq
            /\ rpc = "open" => n < msg.seq
    /\ \A k, l \in DOMAIN delivered : k < l => delivered[k][1] < delivered[l][1]

NumbersInv == SenderInv /\ OrderInv /\ OpenInv /\ DeliveredInv

LEMMA OpeningFacts ==
    ASSUME NEW d \in Openings
    PROVE  d[1] \in 1 .. MaxSeq /\ d[2] = Plaintext(d[1])
BY DEF Openings

LEMMA EnqueueNumbers ==
    ASSUME RingInv, NumbersInv, Enqueue
    PROVE  RingInv' /\ NumbersInv'
<1> DEFINE m == Message(seq, Plaintext(seq))
<1>0. /\ seq \in 1 .. MaxSeq /\ spc = "enqueue" /\ ~Full /\ Put(m)
      /\ accepted' = Append(accepted, seq) /\ spc' = "log" /\ seq' = seq
      /\ rpc' = rpc /\ msg' = msg /\ delivered' = delivered
      /\ MaxSeq \in Nat /\ accepted \in Seq(1 .. MaxSeq)
  BY SeqAssumption DEF Enqueue, receiver, NumbersInv, SenderInv
<1>1. m \in AllMessages /\ m.seq = seq
  BY <1>0, SealedShape
<1> HIDE DEF m
<1>2. /\ RingInv' /\ count' = count + 1 /\ count \in Nat
      /\ \A i \in Slots : At(i)' = IF i = count THEN m ELSE At(i)
  BY <1>0, <1>1, PutAt DEF RingInv
<1>3. Sealed = seq - 1 /\ Sealed' = seq /\ (\A n : AcceptedIn(accepted, n) => AcceptedIn(accepted', n)) /\ AcceptedIn(accepted', seq)
  <2>1. /\ \A k \in DOMAIN accepted : k \in DOMAIN Append(accepted, seq) /\ Append(accepted, seq)[k] = accepted[k]
        /\ Append(accepted, seq)[Len(accepted) + 1] = seq
        /\ Len(accepted) + 1 \in DOMAIN Append(accepted, seq)
    BY <1>0
  <2> QED BY <1>0, <2>1 DEF Sealed, AcceptedIn
<1>4. \A i \in Slots : i < count => At(i).seq \in 1 .. MaxSeq
  BY MessageFacts DEF RingInv
<1>5. OrderInv'
  <2>1. \A i \in Slots : i < count => At(i).seq <= seq - 1 /\ AcceptedIn(accepted', At(i).seq)
    BY <1>3 DEF NumbersInv, OrderInv
  <2>2. \A i \in Slots : i < count' => At(i)'.seq <= seq /\ AcceptedIn(accepted', At(i)'.seq)
    BY <1>0, <1>1, <1>2, <1>3, <1>4, <2>1 DEF Slots
  <2>3. \A i, j \in Slots : i < j /\ j < count' => At(i)'.seq < At(j)'.seq
    BY <1>0, <1>1, <1>2, <1>4, <2>1 DEF Slots, NumbersInv, OrderInv
  <2> QED BY <1>3, <2>2, <2>3 DEF OrderInv, AcceptedIn
<1>6. OpenInv'
  <2> SUFFICES ASSUME rpc = "open" PROVE OpenInv'
    BY <1>0 DEF OpenInv
  <2>1. msg \in AllMessages /\ msg.seq \in 1 .. MaxSeq /\ msg.seq <= seq - 1 /\ AcceptedIn(accepted', msg.seq)
    BY <1>3, MessageFacts DEF NumbersInv, OpenInv
  <2>2. \A i \in Slots : i < count' => msg.seq < At(i)'.seq
    BY <1>0, <1>1, <1>2, <2>1 DEF Slots, NumbersInv, OpenInv
  <2> QED BY <1>0, <1>3, <2>1, <2>2 DEF OpenInv, AcceptedIn
<1>7. DeliveredInv'
  <2>1. ASSUME NEW k \in DOMAIN delivered
        PROVE  LET n == delivered[k][1]
               IN /\ n <= seq /\ AcceptedIn(accepted', n)
                  /\ \A i \in Slots : i < count' => n < At(i)'.seq
                  /\ rpc = "open" => n < msg.seq
    <3> DEFINE n == delivered[k][1]
    <3>1. n \in 1 .. MaxSeq
      BY OpeningFacts DEF NumbersInv, SenderInv
    <3>2. /\ n <= seq - 1 /\ AcceptedIn(accepted', n) /\ (rpc = "open" => n < msg.seq)
          /\ \A i \in Slots : i < count => n < At(i).seq
      BY <1>3 DEF NumbersInv, DeliveredInv
    <3> HIDE DEF n
    <3>3. n <= seq /\ \A i \in Slots : i < count' => n < At(i)'.seq
      BY <1>0, <1>1, <1>2, <3>1, <3>2 DEF Slots
    <3> QED BY <3>2, <3>3 DEF n
  <2> QED BY <1>0, <1>3, <2>1 DEF DeliveredInv, NumbersInv, AcceptedIn
<1>8. SenderInv'
  BY <1>0 DEF NumbersInv, SenderInv
<1> QED BY <1>2, <1>5, <1>6, <1>7, <1>8 DEF NumbersInv

\* A step that moves no message keeps the order.
LEMMA QuietNumbers ==
    ASSUME RingInv, NumbersInv, SenderInv', count' = count,
           \A i \in Slots : i < count => At(i)'.seq = At(i).seq,
           accepted' = accepted, delivered' = delivered, msg' = msg,
           Sealed <= Sealed', rpc' = "open" => rpc = "open"
    PROVE  NumbersInv'
<1>0. Sealed \in Int /\ Sealed' \in Int /\ MaxSeq \in Nat
  BY SeqAssumption DEF Sealed, SenderInv, NumbersInv
<1>1. \A i \in Slots : i < count => At(i).seq \in 1 .. MaxSeq
  BY MessageFacts DEF RingInv
<1>2. OrderInv'
  <2>1. \A i \in Slots : i < count => At(i)'.seq <= Sealed' /\ AcceptedIn(accepted', At(i)'.seq)
    BY <1>0, <1>1 DEF NumbersInv, OrderInv
  <2>2. \A i, j \in Slots : i < j /\ j < count => i < count
    BY DEF Slots, RingInv
  <2>3. \A i, j \in Slots : i < j /\ j < count => At(i)'.seq < At(j)'.seq
    BY <2>2 DEF NumbersInv, OrderInv
  <2> QED BY <2>1, <2>3 DEF OrderInv
<1>3. OpenInv'
  <2> SUFFICES ASSUME rpc' = "open" PROVE OpenInv'
    BY DEF OpenInv
  <2>1. msg \in AllMessages /\ msg.seq \in 1 .. MaxSeq /\ msg.seq <= Sealed /\ AcceptedIn(accepted, msg.seq)
    BY MessageFacts DEF NumbersInv, OpenInv
  <2>2. \A i \in Slots : i < count => msg.seq < At(i)'.seq
    BY DEF NumbersInv, OpenInv
  <2> QED BY <1>0, <2>1, <2>2 DEF OpenInv
<1>4. DeliveredInv'
  <2>1. ASSUME NEW k \in DOMAIN delivered
        PROVE  LET n == delivered[k][1]
               IN /\ n <= Sealed' /\ AcceptedIn(accepted, n)
                  /\ \A i \in Slots : i < count => n < At(i)'.seq
                  /\ rpc' = "open" => n < msg.seq
    <3> DEFINE n == delivered[k][1]
    <3>1. n \in 1 .. MaxSeq
      BY OpeningFacts DEF NumbersInv, SenderInv
    <3>2. /\ n <= Sealed /\ AcceptedIn(accepted, n) /\ (rpc = "open" => n < msg.seq)
          /\ \A i \in Slots : i < count => n < At(i).seq
      BY DEF NumbersInv, DeliveredInv
    <3> HIDE DEF n
    <3>3. n <= Sealed'
      BY <1>0, <3>1, <3>2
    <3> QED BY <3>2, <3>3 DEF n
  <2> QED BY <2>1 DEF DeliveredInv, NumbersInv
<1> QED BY <1>2, <1>3, <1>4 DEF NumbersInv

LEMMA DequeueNumbers ==
    ASSUME RingInv, NumbersInv, Dequeue
    PROVE  RingInv' /\ NumbersInv'
<1>0. /\ rpc = "dequeue" /\ count # 0 /\ msg' = slots[head] /\ Take /\ rpc' = "open"
      /\ spc' = spc /\ seq' = seq /\ accepted' = accepted /\ delivered' = delivered
  BY DEF Dequeue, sender, history
<1>1. /\ RingInv' /\ count' = count - 1 /\ msg' = At(0) /\ msg' \in AllMessages
      /\ \A i \in Slots : i + 1 \in Slots => At(i)' = At(i + 1)
  BY <1>0, TakeAt
<1>2. /\ CAP \in Nat /\ count \in Nat /\ count <= CAP /\ 0 < count /\ 0 \in Slots
  BY <1>0, CapAssumption DEF RingInv, Slots
<1>3. \A i \in Slots : i < count' => i + 1 \in Slots /\ i + 1 < count /\ 0 < i + 1
  BY <1>1, <1>2 DEF Slots
<1>4. Sealed' = Sealed
  BY <1>0 DEF Sealed
<1>5. SenderInv'
  BY <1>0 DEF SenderInv, NumbersInv
<1>6. OrderInv'
  <2>1. \A i \in Slots : i < count' => At(i)'.seq <= Sealed /\ AcceptedIn(accepted, At(i)'.seq)
    BY <1>1, <1>3 DEF NumbersInv, OrderInv
  <2>2. ASSUME NEW i \in Slots, NEW j \in Slots, i < j, j < count' PROVE At(i)'.seq < At(j)'.seq
    <3>1. i < count' /\ i + 1 < j + 1
      BY <1>1, <1>2, <2>2 DEF Slots
    <3> QED BY <1>1, <1>3, <2>2, <3>1 DEF NumbersInv, OrderInv
  <2> QED BY <1>0, <1>4, <2>1, <2>2 DEF OrderInv
<1>7. OpenInv'
  <2>1. At(0).seq <= Sealed /\ AcceptedIn(accepted, At(0).seq)
    BY <1>2 DEF NumbersInv, OrderInv
  <2>2. \A i \in Slots : i < count' => At(0).seq < At(i)'.seq
    BY <1>1, <1>2, <1>3 DEF NumbersInv, OrderInv
  <2> QED BY <1>0, <1>1, <1>4, <2>1, <2>2 DEF OpenInv
<1>8. DeliveredInv'
  <2>1. ASSUME NEW k \in DOMAIN delivered
        PROVE  LET n == delivered[k][1]
               IN /\ n <= Sealed /\ AcceptedIn(accepted, n)
                  /\ \A i \in Slots : i < count' => n < At(i)'.seq
                  /\ n < At(0).seq
    BY <1>1, <1>2, <1>3 DEF NumbersInv, DeliveredInv
  <2> QED BY <1>0, <1>1, <1>4, <2>1 DEF DeliveredInv, NumbersInv
<1> QED BY <1>1, <1>5, <1>6, <1>7, <1>8 DEF NumbersInv

LEMMA OpenNumbers ==
    ASSUME RingInv, NumbersInv, Open
    PROVE  RingInv' /\ NumbersInv'
<1>0. /\ rpc = "open" /\ rpc' = "dequeue" /\ UNCHANGED chan /\ spc' = spc /\ seq' = seq
      /\ accepted' = accepted
  BY DEF Open, sender
<1>1. RingInv' /\ count' = count /\ \A i \in Slots : At(i)' = At(i)
  BY <1>0 DEF RingInv, At, chan
<1>2. /\ msg \in AllMessages /\ msg.seq \in 1 .. MaxSeq /\ msg.seq <= Sealed
      /\ AcceptedIn(accepted, msg.seq) /\ \A i \in Slots : i < count => msg.seq < At(i).seq
      /\ Opens(msg) => Decrypt(msg.ct) = Plaintext(msg.seq)
  BY <1>0, MessageFacts DEF NumbersInv, OpenInv
<1>3. Sealed' = Sealed
  BY <1>0 DEF Sealed
<1>4. OrderInv' /\ OpenInv'
  BY <1>0, <1>1, <1>3 DEF NumbersInv, OrderInv, OpenInv
<1> DEFINE d == <<msg.seq, Plaintext(msg.seq)>>
<1>5. delivered' = delivered \/ delivered' = Append(delivered, d)
  BY <1>2 DEF Open
<1>6. delivered \in Seq(Openings) /\ d \in Openings /\ d[1] = msg.seq
  BY <1>2 DEF NumbersInv, SenderInv, Openings
<1>7. CASE delivered' = delivered
  <2>1. SenderInv'
    BY <1>0, <1>7 DEF NumbersInv, SenderInv
  <2>2. DeliveredInv'
    BY <1>0, <1>1, <1>3, <1>7 DEF NumbersInv, DeliveredInv
  <2> QED BY <1>1, <1>4, <2>1, <2>2 DEF NumbersInv
<1>8. CASE delivered' = Append(delivered, d)
  <2> HIDE DEF d
  <2>1. /\ delivered' \in Seq(Openings) /\ Len(delivered) \in Nat
        /\ DOMAIN delivered = 1 .. Len(delivered)
        /\ delivered'[Len(delivered) + 1] = d
        /\ \A k \in DOMAIN delivered : delivered'[k] = delivered[k]
        /\ \A k \in DOMAIN delivered' : k \in DOMAIN delivered \/ k = Len(delivered) + 1
    BY <1>6, <1>8
  <2>2. SenderInv'
    BY <1>0, <2>1 DEF NumbersInv, SenderInv
  <2>3. ASSUME NEW k \in DOMAIN delivered'
        PROVE  LET n == delivered'[k][1]
               IN /\ n <= Sealed /\ AcceptedIn(accepted, n)
                  /\ \A i \in Slots : i < count => n < At(i).seq
    BY <1>2, <1>6, <2>1 DEF NumbersInv, DeliveredInv
  <2>4. ASSUME NEW k \in DOMAIN delivered', NEW l \in DOMAIN delivered', k < l
        PROVE  delivered'[k][1] < delivered'[l][1]
    <3>1. CASE l \in DOMAIN delivered
      <4>1. k \in DOMAIN delivered
        BY <2>1, <2>4, <3>1
      <4> QED BY <2>1, <2>4, <3>1, <4>1 DEF NumbersInv, DeliveredInv
    <3>2. CASE l = Len(delivered) + 1
      <4>1. k \in DOMAIN delivered
        BY <2>1, <2>4, <3>2
      <4> QED BY <1>0, <1>6, <2>1, <3>2, <4>1 DEF NumbersInv, DeliveredInv
    <3> QED BY <2>1, <3>1, <3>2
  <2>5. DeliveredInv'
    BY <1>0, <1>1, <1>3, <2>3, <2>4 DEF DeliveredInv
  <2> QED BY <1>1, <1>4, <2>2, <2>5 DEF NumbersInv
<1> QED BY <1>5, <1>7, <1>8

(***************************************************************************)
(* The audit log: every message the sender is done with has its EipcSend   *)
(* entry, or lost it to a concurrent task, and in sequence the receiver    *)
(* only runs once the sender is done.                                      *)
(***************************************************************************)
Entries == {"EipcSend", "EipcReceive"} \X (1 .. MaxSeq) \X {"written", "lost"}
SendLogged(log, n) ==
    \E j \in DOMAIN log : \/ log[j] = <<"EipcSend", n, "written">>
                          \/ concurrent /\ log[j] = <<"EipcSend", n, "lost">>

\* An entry is justified by an EipcSend entry before it, or anywhere or lost if
\* the loops are concurrent, or by what the sender is about to log.
Justified(i, n) ==
    \/ \E j \in DOMAIN audit : audit[j] = <<"EipcSend", n, "written">> /\ (j < i \/ concurrent)
    \/ concurrent /\ \E j \in DOMAIN audit : audit[j] = <<"EipcSend", n, "lost">>
    \/ concurrent /\ spc = "log" /\ seq = n

WasDelivered(n) == \E k \in DOMAIN delivered : delivered[k][1] = n

AuditInv ==
    /\ audit \in Seq(Entries)
    /\ \A n \in 1 .. MaxSeq : n < seq => SendLogged(audit, n)
    /\ ~concurrent /\ rpc # "dequeue" => SenderDone
    /\ \A i \in DOMAIN audit : \A n \in 1 .. MaxSeq :
         audit[i] = <<"EipcReceive", n, "written">> => WasDelivered(n) /\ Justified(i, n)

LEMMA AuditMeans == AuditInv => SendAuditedFirst
BY DEF AuditInv, SendAuditedFirst, WasDelivered, Justified

\* A step that logs nothing and leaves the sender's number alone.
LEMMA QuietAudit ==
    ASSUME AuditInv, audit' = audit, seq' = seq, concurrent' = concurrent,
           delivered' = delivered, spc = "log" => spc' = "log",
           ~concurrent /\ rpc' # "dequeue" => SenderDone'
    PROVE  AuditInv'
BY DEF AuditInv, SendLogged, Justified, WasDelivered

\* What appending an entry does.
LEMMA AppendEntry ==
    ASSUME NEW log \in Seq(Entries), NEW e \in Entries
    PROVE  LET new == Append(log, e)
           IN /\ new \in Seq(Entries) /\ new[Len(log) + 1] = e
              /\ Len(log) + 1 \in DOMAIN new /\ DOMAIN log = 1 .. Len(log) /\ Len(log) \in Nat
              /\ \A k \in DOMAIN log : k \in DOMAIN new /\ new[k] = log[k]
              /\ \A k \in DOMAIN new : k \in DOMAIN log \/ k = Len(log) + 1
OBVIOUS

LEMMA LogSendAudit ==
    ASSUME NumbersInv, AuditInv, LogSend
    PROVE  AuditInv'
<1>0. /\ spc = "log" /\ spc' = "enqueue"
      /\ seq' = seq + 1 /\ rpc' = rpc /\ concurrent' = concurrent /\ delivered' = delivered
      /\ seq \in 1 .. MaxSeq /\ MaxSeq \in Nat
  BY SeqAssumption DEF LogSend, receiver, history, NumbersInv, SenderInv
<1>w. PICK w \in {"written", "lost"} :
        (w = "lost" => concurrent) /\ audit' = Append(audit, <<"EipcSend", seq, w>>)
  BY DEF LogSend, LogEvent
<1> DEFINE e == <<"EipcSend", seq, w>>
<1>1. e \in Entries /\ audit \in Seq(Entries)
  BY <1>0 DEF Entries, AuditInv
<1>e. /\ \/ e = <<"EipcSend", seq, "written">>
         \/ concurrent /\ e = <<"EipcSend", seq, "lost">>
      /\ \A n : e # <<"EipcReceive", n, "written">>
      /\ audit' = Append(audit, e)
  BY <1>w
<1> HIDE DEF e
<1>2. /\ audit' \in Seq(Entries) /\ audit'[Len(audit) + 1] = e
      /\ Len(audit) + 1 \in DOMAIN audit' /\ DOMAIN audit = 1 .. Len(audit) /\ Len(audit) \in Nat
      /\ \A k \in DOMAIN audit : k \in DOMAIN audit' /\ audit'[k] = audit[k]
      /\ \A k \in DOMAIN audit' : k \in DOMAIN audit \/ k = Len(audit) + 1
  BY <1>1, <1>e, AppendEntry
<1>3. ASSUME NEW n \in 1 .. MaxSeq, n < seq' PROVE SendLogged(audit, n)'
  <2>1. CASE n < seq
    BY <1>0, <1>2, <2>1 DEF AuditInv, SendLogged
  <2>2. CASE n = seq
    BY <1>0, <1>e, <1>2, <2>2 DEF SendLogged
  <2> QED BY <1>0, <1>3, <2>1, <2>2
<1>4. ~concurrent /\ rpc # "dequeue" => SenderDone'
  BY <1>0 DEF AuditInv, SenderDone
<1>5. ASSUME NEW i \in DOMAIN audit', NEW n \in 1 .. MaxSeq, audit'[i] = <<"EipcReceive", n, "written">>
      PROVE  WasDelivered(n)' /\ Justified(i, n)'
  <2>1. i \in DOMAIN audit
    BY <1>e, <1>2, <1>5
  <2>2. WasDelivered(n) /\ Justified(i, n)
    BY <1>2, <1>5, <2>1 DEF AuditInv
  <2>3. Justified(i, n)'
    <3>1. CASE \E j \in DOMAIN audit : audit[j] = <<"EipcSend", n, "written">> /\ (j < i \/ concurrent)
      BY <1>0, <1>2, <3>1 DEF Justified
    <3>2. CASE concurrent /\ \E j \in DOMAIN audit : audit[j] = <<"EipcSend", n, "lost">>
      BY <1>0, <1>2, <3>2 DEF Justified
    <3>3. CASE concurrent /\ seq = n
      BY <1>0, <1>e, <1>2, <3>3 DEF Justified
    <3> QED BY <2>2, <3>1, <3>2, <3>3 DEF Justified
  <2> QED BY <1>0, <2>2, <2>3 DEF WasDelivered
<1> QED BY <1>0, <1>2, <1>3, <1>4, <1>5 DEF AuditInv

LEMMA OpenAudit ==
    ASSUME RingInv, NumbersInv, AuditInv, Open
    PROVE  AuditInv'
<1>0. /\ rpc = "open" /\ rpc' = "dequeue" /\ spc' = spc /\ seq' = seq /\ concurrent' = concurrent
      /\ MaxSeq \in Nat /\ seq \in 1 .. MaxSeq + 1 /\ delivered \in Seq(Openings)
  BY SeqAssumption DEF Open, sender, NumbersInv, SenderInv
<1>1. PICK n0 \in 1 .. MaxSeq : n0 = msg.seq /\ n0 <= Sealed
  BY <1>0, MessageFacts DEF NumbersInv, OpenInv
<1>2. \/ audit' = audit /\ delivered' = delivered
      \/ /\ \E w \in {"written", "lost"} : audit' = Append(audit, <<"EipcReceive", n0, w>>)
         /\ delivered' = Append(delivered, <<n0, Decrypt(msg.ct)>>)
  BY <1>1 DEF Open, LogEvent
<1>3. CASE audit' = audit /\ delivered' = delivered
  BY <1>0, <1>3, QuietAudit
<1>4. ASSUME NEW w \in {"written", "lost"}, audit' = Append(audit, <<"EipcReceive", n0, w>>),
             delivered' = Append(delivered, <<n0, Decrypt(msg.ct)>>)
      PROVE  AuditInv'
  <2> DEFINE e == <<"EipcReceive", n0, w>>
             d == <<n0, Decrypt(msg.ct)>>
  <2>1. e \in Entries /\ audit \in Seq(Entries)
    BY <1>1 DEF Entries, AuditInv
  <2>e. audit' = Append(audit, e) /\ \A n : e = <<"EipcReceive", n, "written">> => n = n0
    BY <1>4
  <2>d. delivered' = Append(delivered, d) /\ d[1] = n0
    BY <1>4
  <2> HIDE DEF e, d
  <2>2. /\ audit' \in Seq(Entries) /\ audit'[Len(audit) + 1] = e
        /\ Len(audit) + 1 \in DOMAIN audit' /\ DOMAIN audit = 1 .. Len(audit) /\ Len(audit) \in Nat
        /\ \A k \in DOMAIN audit : k \in DOMAIN audit' /\ audit'[k] = audit[k]
        /\ \A k \in DOMAIN audit' : k \in DOMAIN audit \/ k = Len(audit) + 1
    BY <2>1, <2>e, AppendEntry
  <2>3. \A n \in 1 .. MaxSeq : n < seq' => SendLogged(audit, n)'
    BY <1>0, <2>2 DEF AuditInv, SendLogged
  <2>4. Justified(Len(audit) + 1, n0)
    <3>1. CASE n0 < seq
      <4>1. SendLogged(audit, n0)
        BY <1>1, <3>1 DEF AuditInv
      <4> QED BY <2>2, <4>1 DEF Justified, SendLogged
    <3>2. CASE ~(n0 < seq)
      <4>1. spc = "log" /\ seq = n0
        BY <1>0, <1>1, <3>2 DEF Sealed
      <4>2. concurrent
        BY <1>0, <4>1 DEF AuditInv, SenderDone
      <4> QED BY <4>1, <4>2 DEF Justified
    <3> QED BY <3>1, <3>2
  <2>5. /\ \A k \in DOMAIN delivered : k \in DOMAIN delivered' /\ delivered'[k] = delivered[k]
        /\ Len(delivered) + 1 \in DOMAIN delivered' /\ delivered'[Len(delivered) + 1] = d
    BY <1>0, <2>d
  <2>6. WasDelivered(n0)' /\ \A n \in 1 .. MaxSeq : WasDelivered(n) => WasDelivered(n)'
    <3>1. WasDelivered(n0)'
      BY <2>d, <2>5 DEF WasDelivered
    <3>2. \A n \in 1 .. MaxSeq : WasDelivered(n) => WasDelivered(n)'
      BY <2>5 DEF WasDelivered
    <3> QED BY <3>1, <3>2
  <2>7. \A i \in DOMAIN audit', n \in 1 .. MaxSeq : Justified(i, n) => Justified(i, n)'
    BY <1>0, <2>2 DEF Justified
  <2>8. ASSUME NEW i \in DOMAIN audit', NEW n \in 1 .. MaxSeq,
               audit'[i] = <<"EipcReceive", n, "written">>
        PROVE  WasDelivered(n)' /\ Justified(i, n)'
    <3>1. CASE i \in DOMAIN audit
      <4>1. WasDelivered(n) /\ Justified(i, n)
        BY <2>2, <2>8, <3>1 DEF AuditInv
      <4> QED BY <2>6, <2>7, <4>1
    <3>2. CASE i = Len(audit) + 1
      <4>1. n = n0
        BY <2>e, <2>2, <2>8, <3>2
      <4>2. Justified(i, n)
        BY <2>4, <3>2, <4>1
      <4> QED BY <2>6, <2>7, <4>1, <4>2
    <3> QED BY <2>2, <3>1, <3>2
  <2>9. ~concurrent' /\ rpc' # "dequeue" => SenderDone'
    BY <1>0
  <2> QED BY <2>2, <2>3, <2>8, <2>9 DEF AuditInv
<1> QED BY <1>2, <1>3, <1>4

-----------------------------------------------------------------------------
EipcInv == RingInv /\ NumbersInv /\ AuditInv

LEMMA InitInv == Init => EipcInv
<1> SUFFICES ASSUME Init PROVE EipcInv
  OBVIOUS
<1>0. /\ CAP \in Nat /\ CAP >= 1 /\ MaxSeq \in Nat /\ 0 \in Slots
  BY CapAssumption, SeqAssumption DEF Slots
<1>1. /\ slots = [i \in Slots |-> None] /\ head = 0 /\ tail = 0 /\ count = 0 /\ spc = "enqueue"
      /\ seq = 1 /\ rpc = "dequeue" /\ audit = <<>> /\ accepted = <<>> /\ delivered = <<>>
  BY DEF Init
<1>2. RingInv
  <2>1. ASSUME NEW i \in Slots PROVE At(i) = None /\ ~(i < 0)
    <3>1. i \in 0 .. CAP
      BY <1>0 DEF Slots
    <3>2. (head + i) % CAP \in Slots
      BY <1>0, <1>1, <3>1, Wraps
    <3> QED BY <1>0, <1>1, <3>2 DEF At, Slots
  <2>2. (0 + 0) % CAP = 0
    BY <1>0
  <2> QED BY <1>0, <1>1, <2>1, <2>2 DEF RingInv
<1>3. \A i \in Slots : ~(i < count)
  BY <1>0, <1>1 DEF Slots
<1>4. SenderInv /\ OrderInv /\ OpenInv /\ DeliveredInv
  BY <1>0, <1>1, <1>3 DEF SenderInv, OrderInv, OpenInv, DeliveredInv
<1>5. AuditInv
  BY <1>0, <1>1 DEF AuditInv
<1> QED BY <1>2, <1>4, <1>5 DEF EipcInv, NumbersInv

\* The steps that move no message, and stuttering.
LEMMA QuietSteps ==
    ASSUME EipcInv,
           EnqueueRefused \/ LogSend \/ DequeueNone \/ TamperTest \/ UNCHANGED vars
    PROVE  EipcInv' /\ InFlight' = InFlight
<1>0. /\ RingInv /\ NumbersInv /\ AuditInv /\ MaxSeq \in Nat
      /\ spc \in {"enqueue", "log"} /\ seq \in 1 .. MaxSeq + 1 /\ (spc = "log" => seq <= MaxSeq)
      /\ accepted \in Seq(1 .. MaxSeq) /\ delivered \in Seq(Openings)
  BY SeqAssumption DEF EipcInv, NumbersInv, SenderInv
<1>1. /\ slots' = slots /\ head' = head /\ tail' = tail /\ count' = count /\ msg' = msg
      /\ accepted' = accepted /\ delivered' = delivered /\ concurrent' = concurrent
  BY DEF EnqueueRefused, LogSend, DequeueNone, TamperTest, vars, chan, receiver, history
<1>2. RingInv' /\ InFlight' = InFlight /\ \A i \in Slots : At(i)' = At(i)
  BY <1>0, <1>1 DEF RingInv, At, InFlight
<1>3. ASSUME SenderInv', Sealed <= Sealed', rpc' = "open" => rpc = "open" PROVE NumbersInv'
  BY <1>0, <1>1, <1>2, <1>3, QuietNumbers
<1>4. CASE EnqueueRefused
  <2>1. /\ spc = "enqueue" /\ seq <= MaxSeq /\ spc' = "log" /\ seq' = seq /\ rpc' = rpc /\ audit' = audit
    BY <1>4 DEF EnqueueRefused, receiver
  <2>2. SenderInv' /\ Sealed <= Sealed'
    BY <1>0, <1>1, <2>1 DEF SenderInv, Sealed
  <2>3. ~concurrent /\ rpc' # "dequeue" => SenderDone'
    BY <1>0, <2>1 DEF AuditInv, SenderDone
  <2>4. AuditInv'
    BY <1>0, <1>1, <2>1, <2>3, QuietAudit
  <2> QED BY <1>2, <1>3, <2>1, <2>2, <2>4 DEF EipcInv
<1>5. CASE LogSend
  <2>1. /\ spc = "log" /\ spc' = "enqueue" /\ seq' = seq + 1 /\ rpc' = rpc
    BY <1>5 DEF LogSend, receiver
  <2>2. SenderInv' /\ Sealed <= Sealed'
    BY <1>0, <1>1, <2>1 DEF SenderInv, Sealed
  <2>3. AuditInv'
    BY <1>0, <1>5, LogSendAudit
  <2> QED BY <1>2, <1>3, <2>1, <2>2, <2>3 DEF EipcInv
<1>6. CASE DequeueNone \/ TamperTest \/ UNCHANGED vars
  <2>1. /\ spc' = spc /\ seq' = seq /\ audit' = audit
        /\ \/ rpc = "dequeue" /\ MayReceive /\ rpc' = "tamper"
           \/ rpc = "tamper" /\ rpc' = "end"
           \/ rpc' = rpc
    BY <1>6 DEF DequeueNone, TamperTest, vars, sender, receiver
  <2>2. SenderInv' /\ Sealed <= Sealed'
    BY <1>0, <1>1, <2>1 DEF SenderInv, Sealed
  <2>3. ~concurrent /\ rpc' # "dequeue" => SenderDone'
    BY <1>0, <2>1 DEF AuditInv, SenderDone, MayReceive
  <2>4. AuditInv'
    BY <1>0, <1>1, <2>1, <2>3, QuietAudit
  <2> QED BY <1>2, <1>3, <2>1, <2>2, <2>4 DEF EipcInv
<1> QED BY <1>4, <1>5, <1>6

LEMMA EnqueueStep ==
    ASSUME EipcInv, Enqueue
    PROVE  EipcInv'
<1>1. /\ spc = "enqueue" /\ seq <= MaxSeq /\ spc' = "log" /\ seq' = seq /\ rpc' = rpc /\ audit' = audit
      /\ concurrent' = concurrent /\ delivered' = delivered /\ seq \in Nat /\ MaxSeq \in Nat
  BY SeqAssumption DEF Enqueue, receiver, EipcInv, NumbersInv, SenderInv
<1>2. ~concurrent /\ rpc' # "dequeue" => SenderDone'
  BY <1>1 DEF AuditInv, SenderDone, EipcInv
<1>3. AuditInv'
  BY <1>1, <1>2, QuietAudit DEF EipcInv
<1> QED BY <1>3, EnqueueNumbers DEF EipcInv

LEMMA DequeueStep ==
    ASSUME EipcInv, Dequeue
    PROVE  EipcInv'
<1>1. /\ spc' = spc /\ seq' = seq /\ audit' = audit /\ concurrent' = concurrent
      /\ delivered' = delivered
      /\ concurrent \/ SenderDone
  BY DEF Dequeue, sender, history, MayReceive
<1>2. AuditInv'
  BY <1>1, QuietAudit DEF EipcInv, SenderDone
<1> QED BY <1>2, DequeueNumbers DEF EipcInv

LEMMA CorruptStep ==
    ASSUME EipcInv, NEW k \in Slots, CorruptSlot(k)
    PROVE  EipcInv'
<1>1. /\ spc' = spc /\ seq' = seq /\ audit' = audit /\ concurrent' = concurrent /\ rpc' = rpc
      /\ msg' = msg /\ accepted' = accepted /\ delivered' = delivered
  BY DEF CorruptSlot, sender, receiver, history
<1>2. RingInv' /\ count' = count /\ \A i \in Slots : i < count => At(i)'.seq = At(i).seq
  BY CorruptAt DEF EipcInv
<1>3. SenderInv' /\ Sealed <= Sealed'
  BY <1>1, SeqAssumption DEF EipcInv, NumbersInv, SenderInv, Sealed
<1>4. NumbersInv'
  BY <1>1, <1>2, <1>3, QuietNumbers DEF EipcInv
<1>5. AuditInv'
  BY <1>1, QuietAudit DEF EipcInv, AuditInv, SenderDone
<1> QED BY <1>2, <1>4, <1>5 DEF EipcInv

LEMMA InvStep == EipcInv /\ [Next]_vars => EipcInv'
<1> SUFFICES ASSUME EipcInv, [Next]_vars PROVE EipcInv'
  OBVIOUS
<1>1. CASE Enqueue
  BY <1>1, EnqueueStep
<1>2. CASE Dequeue
  BY <1>2, DequeueStep
<1>3. CASE Open
  BY <1>3, OpenNumbers, OpenAudit DEF EipcInv
<1>4. CASE \E k \in Slots : CorruptSlot(k)
  BY <1>4, CorruptStep
<1>5. CASE EnqueueRefused \/ LogSend \/ DequeueNone \/ TamperTest \/ UNCHANGED vars
  BY <1>5, QuietSteps
<1> QED BY <1>1, <1>2, <1>3, <1>4, <1>5 DEF Next, Sender, Receiver

(***************************************************************************)
(* The refinement: what is in the ring is the queue of BoundedFifo.        *)
(***************************************************************************)
LEMMA FlightIs ==
    ASSUME RingInv
    PROVE  /\ count \in Nat /\ count <= CAP /\ CAP \in Nat
           /\ InFlight = [i \in 1 .. count |-> At(i - 1).seq]
           /\ InFlight \in Seq(1 .. MaxSeq) /\ Len(InFlight) = count
           /\ \A i \in 1 .. count : i - 1 \in Slots
<1>1. count \in Nat /\ count <= CAP /\ CAP \in Nat /\ head \in Nat
  BY CapAssumption DEF RingInv, Slots
<1>2. \A i \in 1 .. count : i - 1 \in Slots /\ i - 1 < count /\ head + i - 1 = head + (i - 1)
  BY <1>1 DEF Slots
<1>3. InFlight = [i \in 1 .. count |-> At(i - 1).seq]
  BY <1>2 DEF InFlight, At
<1>4. \A i \in 1 .. count : At(i - 1).seq \in 1 .. MaxSeq
  BY <1>2, MessageFacts DEF RingInv
<1>5. InFlight \in [1 .. count -> 1 .. MaxSeq]
  BY <1>3, <1>4
<1> QED BY <1>1, <1>2, <1>3, <1>5

LEMMA FlightIsPrimed ==
    ASSUME RingInv'
    PROVE  /\ count' \in Nat /\ count' <= CAP
           /\ InFlight' = [i \in 1 .. count' |-> At(i - 1)'.seq]
<1>1. count' \in Nat /\ count' <= CAP /\ CAP \in Nat /\ head' \in Nat
  BY CapAssumption DEF RingInv, Slots
<1>2. \A i \in 1 .. count' : head' + i - 1 = head' + (i - 1)
  BY <1>1
<1> QED BY <1>1, <1>2 DEF InFlight, At

LEMMA EnqueueSends ==
    ASSUME EipcInv, Enqueue
    PROVE  Fifo!Send(seq) /\ seq \in 1 .. MaxSeq
<1> DEFINE m == Message(seq, Plaintext(seq))
<1>0. RingInv /\ ~Full /\ Put(m) /\ seq \in 1 .. MaxSeq
  BY SeqAssumption DEF Enqueue, EipcInv, NumbersInv, SenderInv
<1>1. m \in AllMessages /\ m.seq = seq
  BY <1>0, SealedShape
<1> HIDE DEF m
<1>2. /\ RingInv' /\ count' = count + 1
      /\ \A i \in Slots : At(i)' = IF i = count THEN m ELSE At(i)
  BY <1>0, <1>1, PutAt
<1>3. /\ count \in Nat /\ count < CAP /\ CAP \in Nat
      /\ InFlight = [i \in 1 .. count |-> At(i - 1).seq]
      /\ InFlight \in Seq(1 .. MaxSeq) /\ Len(InFlight) = count
      /\ InFlight' = [i \in 1 .. count + 1 |-> At(i - 1)'.seq]
  BY <1>0, <1>2, FlightIs, FlightIsPrimed DEF Full
<1>4. \A i \in 1 .. count + 1 : At(i - 1)'.seq = IF i = count + 1 THEN seq ELSE At(i - 1).seq
  <2> TAKE i \in 1 .. count + 1
  <2>1. i - 1 \in Slots /\ (i - 1 = count <=> i = count + 1)
    BY <1>3 DEF Slots
  <2> QED BY <1>1, <1>2, <2>1
<1>5. InFlight' = Append(InFlight, seq)
  <2> DEFINE q == Append(InFlight, seq)
  <2>1. q \in Seq(1 .. MaxSeq) /\ Len(q) = count + 1
    BY <1>0, <1>3
  <2>2. \A i \in 1 .. count + 1 : q[i] = IF i = count + 1 THEN seq ELSE InFlight[i]
    BY <1>0, <1>3
  <2>3. \A i \in 1 .. count : InFlight[i] = At(i - 1).seq
    BY <1>3
  <2> HIDE DEF q
  <2>4. \A i \in 1 .. count + 1 : q[i] = At(i - 1)'.seq
    <3> TAKE i \in 1 .. count + 1
    <3>1. CASE i = count + 1
      BY <1>4, <2>2, <3>1
    <3>2. CASE i # count + 1
      <4>1. i \in 1 .. count
        BY <1>3, <3>2
      <4> QED BY <1>4, <2>2, <2>3, <3>2, <4>1
    <3> QED BY <3>1, <3>2
  <2>5. q = [i \in 1 .. count + 1 |-> q[i]]
    BY <1>3, <2>1
  <2> QED BY <1>3, <2>4, <2>5 DEF q
<1> QED BY <1>0, <1>3, <1>5 DEF Fifo!Send

LEMMA DequeueReceives ==
    ASSUME EipcInv, Dequeue
    PROVE  Fifo!Receive
<1>0. RingInv /\ count # 0 /\ Take
  BY DEF Dequeue, EipcInv
<1>1. /\ RingInv' /\ count' = count - 1
      /\ \A i \in Slots : i + 1 \in Slots => At(i)' = At(i + 1)
  BY <1>0, TakeAt
<1>2. /\ count \in Nat /\ 0 < count /\ count <= CAP /\ CAP \in Nat
      /\ InFlight = [i \in 1 .. count |-> At(i - 1).seq]
      /\ InFlight \in Seq(1 .. MaxSeq) /\ Len(InFlight) = count
      /\ InFlight' = [i \in 1 .. count - 1 |-> At(i - 1)'.seq]
  BY <1>0, <1>1, FlightIs, FlightIsPrimed
<1>3. InFlight # <<>>
  <2>1. Len(InFlight) # 0
    BY <1>2
  <2> QED BY <2>1
<1>4. \A i \in 1 .. count - 1 : At(i - 1)'.seq = InFlight[i + 1]
  <2> TAKE i \in 1 .. count - 1
  <2>1. /\ i - 1 \in Slots /\ (i - 1) + 1 \in Slots /\ (i - 1) + 1 = (i + 1) - 1
        /\ i + 1 \in 1 .. count
    BY <1>2 DEF Slots
  <2>2. At(i - 1)' = At((i + 1) - 1)
    BY <1>1, <2>1
  <2> QED BY <1>2, <2>1, <2>2
<1>5. Tail(InFlight) = [i \in 1 .. count - 1 |-> InFlight[i + 1]]
  BY <1>2, <1>3
<1> QED BY <1>2, <1>3, <1>4, <1>5 DEF Fifo!Receive

LEMMA CorruptStutters ==
    ASSUME EipcInv, NEW k \in Slots, CorruptSlot(k)
    PROVE  InFlight' = InFlight
<1>1. RingInv' /\ count' = count /\ \A i \in Slots : i < count => At(i)'.seq = At(i).seq
  BY CorruptAt DEF EipcInv
<1>2. /\ count \in Nat /\ InFlight = [i \in 1 .. count |-> At(i - 1).seq]
      /\ InFlight' = [i \in 1 .. count |-> At(i - 1)'.seq]
      /\ \A i \in 1 .. count : i - 1 \in Slots
  BY <1>1, FlightIs, FlightIsPrimed DEF EipcInv
<1>3. \A i \in 1 .. count : At(i - 1)'.seq = At(i - 1).seq
  BY <1>1, <1>2
<1> QED BY <1>2, <1>3

LEMMA InitMaps == Init => Fifo!Init
BY DEF Init, InFlight, Fifo!Init

LEMMA StepMaps == EipcInv /\ [Next]_vars => [Fifo!Next]_InFlight
<1> SUFFICES ASSUME EipcInv, [Next]_vars PROVE Fifo!Next \/ InFlight' = InFlight
  OBVIOUS
<1>1. CASE Enqueue
  BY <1>1, EnqueueSends DEF Fifo!Next
<1>2. CASE Dequeue
  BY <1>2, DequeueReceives DEF Fifo!Next
<1>3. CASE Open
  BY <1>3 DEF Open, chan, InFlight
<1>4. CASE \E k \in Slots : CorruptSlot(k)
  BY <1>4, CorruptStutters
<1>5. CASE EnqueueRefused \/ LogSend \/ DequeueNone \/ TamperTest \/ UNCHANGED vars
  BY <1>5, QuietSteps
<1> QED BY <1>1, <1>2, <1>3, <1>4, <1>5 DEF Next, Sender, Receiver

(***************************************************************************)
(* The checkpoint of run_demo: all_ok && received == 3.                    *)
(***************************************************************************)
Least(a, b) == IF a <= b THEN a ELSE b

InHand == IF rpc = "open" THEN 1 ELSE 0

\* Without a corrupted ciphertext each message the channel accepted was opened, is
\* at hand or is in the ring, whether or not the loops run concurrently.
NothingLost ==
    flips = 0 => all_ok /\ Len(accepted) = received + InHand + count

\* When the two loops have run one after the other the channel is empty, and if no
\* ciphertext was corrupted every message it had room for was opened: all of them
\* if they fit, the first CAP otherwise.
Checkpoint ==
    rpc = "end" /\ ~concurrent =>
        count = 0 /\ (flips = 0 => all_ok /\ received = Least(MaxSeq, CAP))

IntactInv ==
    flips = 0 => /\ \A i \in Slots : slots[i] # None => slots[i] \in Messages
                 /\ rpc = "open" => msg \in Messages

\* In sequence: the receiving loop waits for the other, which fills the channel.
SequenceInv ==
    ~concurrent =>
        /\ Len(accepted) = Least(Sealed, CAP)
        /\ ~SenderDone => rpc = "dequeue" /\ count = Len(accepted)
        /\ rpc \in {"tamper", "end"} => count = 0

CheckTypes == received \in Nat /\ flips \in Nat /\ all_ok \in BOOLEAN
CheckInv == EipcInv /\ CheckTypes /\ NothingLost /\ IntactInv /\ SequenceInv

LEMMA CheckInit == Init => CheckInv
<1> SUFFICES ASSUME Init PROVE CheckInv
  OBVIOUS
<1>1. CheckTypes /\ IntactInv
  BY DEF Init, CheckTypes, IntactInv
<1>2. NothingLost
  BY DEF Init, NothingLost, InHand
<1>3. Sealed = 0 /\ Least(0, CAP) = 0 /\ Len(accepted) = 0 /\ count = 0 /\ rpc = "dequeue"
  BY CapAssumption DEF Init, Sealed, Least
<1>4. SequenceInv
  BY <1>3 DEF SequenceInv
<1> QED BY <1>1, <1>2, <1>4, InitInv DEF CheckInv

\* What was sealed opens; the message of the tamper test does not.
LEMMA SealedOpens ==
    /\ \A m \in Messages : Opens(m)
    /\ \A pt : ~Opens(Corrupted(Message(TamperSeq, pt)))
<1>1. \A n, pt : Opens(Message(n, pt))
  BY DEF Opens, Message, Encrypt, Poly1305
<1>2. ASSUME NEW pt PROVE ~Opens(Corrupted(Message(TamperSeq, pt)))
  <2> DEFINE m == Corrupted(Message(TamperSeq, pt))
  <2>1. m.ct.flipped /\ m.tag.ct.flipped = FALSE
    BY DEF Message, Encrypt, Corrupted, Flip, Poly1305
  <2> HIDE DEF m
  <2>2. ~Opens(m)
    BY <2>1 DEF Opens, Poly1305
  <2> QED BY <2>2 DEF m
<1> QED BY <1>1, <1>2 DEF Messages

LEMMA CheckFacts ==
    ASSUME CheckInv
    PROVE  /\ count \in Nat /\ count <= CAP /\ CAP \in Nat /\ MaxSeq \in Nat
           /\ head \in Slots /\ tail \in Slots
           /\ received \in Nat /\ seq \in Nat /\ seq >= 1 /\ seq <= MaxSeq + 1
           /\ accepted \in Seq(1 .. MaxSeq) /\ Len(accepted) \in Nat
           /\ ~concurrent /\ rpc # "dequeue" => SenderDone
<1>1. seq \in 1 .. MaxSeq + 1 /\ accepted \in Seq(1 .. MaxSeq) /\ count \in 0 .. CAP
  BY DEF CheckInv, EipcInv, RingInv, NumbersInv, SenderInv
<1>2. ~concurrent /\ rpc # "dequeue" => SenderDone
  BY DEF CheckInv, EipcInv, AuditInv
<1> QED BY <1>1, <1>2, SeqAssumption, CapAssumption
        DEF CheckInv, EipcInv, RingInv, CheckTypes

LEMMA CheckEnqueue ==
    ASSUME CheckInv, Enqueue
    PROVE  CheckTypes' /\ NothingLost' /\ IntactInv' /\ SequenceInv'
<1> DEFINE m == Message(seq, Plaintext(seq))
<1>0. /\ spc = "enqueue" /\ seq <= MaxSeq /\ count < CAP /\ spc' = "log" /\ seq' = seq
      /\ slots' = [slots EXCEPT ![tail] = m] /\ count' = count + 1
      /\ accepted' = Append(accepted, seq) /\ concurrent' = concurrent
      /\ rpc' = rpc /\ msg' = msg /\ received' = received /\ all_ok' = all_ok /\ flips' = flips
  BY CheckFacts DEF Enqueue, Put, Full, receiver
<1>1. seq \in 1 .. MaxSeq /\ m \in Messages
  BY <1>0, CheckFacts DEF Messages
<1> HIDE DEF m
<1>2. Len(accepted') = Len(accepted) + 1
  BY <1>0, <1>1, CheckFacts
<1>3. CheckTypes'
  BY <1>0 DEF CheckInv, CheckTypes
<1>4. NothingLost'
  <2>1. flips = 0 => all_ok /\ Len(accepted) = received + InHand + count
    BY Zenon DEF CheckInv, NothingLost
  <2>2. InHand \in Nat /\ InHand' = InHand
    BY <1>0 DEF InHand
  <2>3. flips = 0 => Len(accepted) + 1 = received + InHand + (count + 1)
    <3>1. flips = 0 => Len(accepted) = received + InHand + count
      BY <2>1, Zenon
    <3>2. Len(accepted) \in Nat /\ received \in Nat /\ count \in Nat
      BY CheckFacts
    <3> QED BY <2>2, <3>1, <3>2
  <2> QED BY <1>0, <1>2, <2>1, <2>2, <2>3, Zenon DEF NothingLost
<1>5. IntactInv'
  <2>1. \A i \in Slots : slots'[i] = IF i = tail THEN m ELSE slots[i]
    BY <1>0 DEF CheckInv, EipcInv, RingInv
  <2> QED BY <1>0, <1>1, <2>1 DEF CheckInv, IntactInv
<1>6. SequenceInv'
  <2> SUFFICES ASSUME ~concurrent PROVE SequenceInv'
    BY <1>0 DEF SequenceInv
  <2>1. ~SenderDone /\ Sealed = seq - 1 /\ Sealed' = seq
    BY <1>0, CheckFacts DEF SenderDone, Sealed
  <2>2. rpc = "dequeue" /\ count = Len(accepted) /\ Len(accepted) = Least(seq - 1, CAP)
    BY <2>1 DEF CheckInv, SequenceInv
  <2>3. Len(accepted) + 1 = Least(seq, CAP)
    BY <1>0, <2>2, CheckFacts DEF Least
  <2> QED BY <1>0, <1>2, <2>1, <2>2, <2>3 DEF SequenceInv
<1> QED BY <1>3, <1>4, <1>5, <1>6

LEMMA CheckSender ==
    ASSUME CheckInv, EnqueueRefused \/ LogSend
    PROVE  CheckTypes' /\ NothingLost' /\ IntactInv' /\ SequenceInv'
<1>0. /\ slots' = slots /\ count' = count /\ accepted' = accepted /\ concurrent' = concurrent
      /\ rpc' = rpc /\ msg' = msg /\ received' = received /\ all_ok' = all_ok /\ flips' = flips
  BY DEF EnqueueRefused, LogSend, chan, receiver, history
<1>1. CheckTypes' /\ NothingLost' /\ IntactInv'
  BY <1>0 DEF CheckInv, CheckTypes, NothingLost, InHand, IntactInv
<1>2. SequenceInv'
  <2> SUFFICES ASSUME ~concurrent PROVE SequenceInv'
    BY <1>0 DEF SequenceInv
  <2>1. ~SenderDone
    <3>1. spc = "log" \/ seq <= MaxSeq
      BY DEF EnqueueRefused, LogSend
    <3>2. seq \in Nat /\ MaxSeq \in Nat
      BY CheckFacts
    <3> QED BY <3>1, <3>2 DEF SenderDone
  <2>2. rpc = "dequeue" /\ count = Len(accepted) /\ Len(accepted) = Least(Sealed, CAP)
    BY <2>1 DEF CheckInv, SequenceInv
  <2>3. Least(Sealed', CAP) = Least(Sealed, CAP)
    <3>1. CASE EnqueueRefused
      <4>1. Sealed = seq - 1 /\ Sealed' = seq /\ count = CAP
        BY <3>1, CheckFacts DEF EnqueueRefused, Sealed, Full
      <4> QED BY <2>2, <4>1, CheckFacts DEF Least
    <3>2. CASE LogSend
      <4>1. Sealed = seq /\ Sealed' = seq
        BY <3>2, CheckFacts DEF LogSend, Sealed
      <4> QED BY <4>1
    <3> QED BY <3>1, <3>2
  <2> QED BY <1>0, <2>2, <2>3 DEF SequenceInv
<1> QED BY <1>1, <1>2

LEMMA CheckReceiver ==
    ASSUME CheckInv, Dequeue \/ DequeueNone
    PROVE  CheckTypes' /\ NothingLost' /\ IntactInv' /\ SequenceInv'
<1>0. /\ accepted' = accepted /\ concurrent' = concurrent /\ spc' = spc /\ seq' = seq
      /\ rpc = "dequeue" /\ received' = received /\ all_ok' = all_ok /\ flips' = flips
      /\ ~concurrent => SenderDone
  BY DEF Dequeue, DequeueNone, sender, history, MayReceive
<1>1. CheckTypes'
  BY <1>0 DEF CheckInv, CheckTypes
<1>2. Sealed' = Sealed /\ (~concurrent => SenderDone')
  BY <1>0 DEF Sealed, SenderDone
<1>3. CASE Dequeue
  <2>1. /\ count' = count - 1 /\ rpc' = "open" /\ msg' = slots[head]
        /\ slots' = [slots EXCEPT ![head] = None] /\ count # 0
    BY <1>3 DEF Dequeue, Take, Emptied
  <2>2. NothingLost'
    <3>1. flips = 0 => Len(accepted) = received + 1 + (count - 1) /\ all_ok
      BY <1>0, CheckFacts DEF CheckInv, NothingLost, InHand
    <3> QED BY <1>0, <2>1, <3>1 DEF NothingLost, InHand
  <2>3. IntactInv'
    <3>1. slots[head] # None
      <4>1. RingInv /\ Take
        BY <1>3 DEF CheckInv, EipcInv, Dequeue
      <4>2. slots[head] \in AllMessages
        BY <2>1, <4>1, TakeAt
      <4> QED BY <4>2, MessageFacts
    <3>2. \A i \in Slots : slots'[i] = IF i = head THEN None ELSE slots[i]
      BY <2>1 DEF CheckInv, EipcInv, RingInv
    <3> QED BY <1>0, <2>1, <3>1, <3>2, CheckFacts DEF CheckInv, IntactInv
  <2>4. SequenceInv'
    BY <1>0, <1>2, <2>1 DEF CheckInv, SequenceInv
  <2> QED BY <1>1, <2>2, <2>3, <2>4
<1>4. CASE DequeueNone
  <2>1. count' = count /\ count = 0 /\ rpc' = "tamper" /\ slots' = slots
    BY <1>4 DEF DequeueNone, chan
  <2>2. NothingLost' /\ IntactInv'
    BY <1>0, <2>1 DEF CheckInv, NothingLost, InHand, IntactInv
  <2>3. SequenceInv'
    BY <1>0, <1>2, <2>1 DEF CheckInv, SequenceInv
  <2> QED BY <1>1, <2>2, <2>3
<1> QED BY <1>3, <1>4

LEMMA CheckOpen ==
    ASSUME CheckInv, Open \/ TamperTest
    PROVE  CheckTypes' /\ NothingLost' /\ IntactInv' /\ SequenceInv'
<1>0. /\ slots' = slots /\ count' = count /\ accepted' = accepted /\ concurrent' = concurrent
      /\ spc' = spc /\ seq' = seq /\ flips' = flips /\ rpc \in {"open", "tamper"}
  BY DEF Open, TamperTest, sender, chan, history
<1>1. Sealed' = Sealed /\ (~concurrent => SenderDone')
  BY <1>0, CheckFacts DEF Sealed, SenderDone
<1>2. CASE Open
  <2>1. /\ rpc = "open" /\ rpc' = "dequeue"
        /\ \/ Opens(msg) /\ received' = received + 1 /\ all_ok' = all_ok
           \/ ~Opens(msg) /\ received' = received /\ all_ok' = FALSE
    BY <1>2 DEF Open
  <2>2. CheckTypes'
    <3>1. received' \in Nat
      BY <2>1, CheckFacts
    <3>2. all_ok' \in BOOLEAN
      BY <2>1, Zenon DEF CheckInv, CheckTypes
    <3> QED BY <1>0, <3>1, <3>2 DEF CheckInv, CheckTypes
  <2>3. flips = 0 => received' = received + 1 /\ all_ok' = all_ok
    BY <2>1, SealedOpens DEF CheckInv, IntactInv
  <2>4. NothingLost'
    <3>1. flips = 0 => all_ok /\ Len(accepted) = (received + 1) + 0 + count
      BY <2>1, CheckFacts DEF CheckInv, NothingLost, InHand
    <3> QED BY <1>0, <2>1, <2>3, <3>1 DEF NothingLost, InHand
  <2>5. IntactInv' /\ SequenceInv'
    BY <1>0, <1>1, <2>1 DEF CheckInv, IntactInv, SequenceInv
  <2> QED BY <2>2, <2>4, <2>5
<1>3. CASE TamperTest
  <2>1. rpc = "tamper" /\ rpc' = "end" /\ received' = received
    BY <1>3 DEF TamperTest
  <2>2. all_ok' = all_ok
    <3>1. all_ok' = (all_ok /\ ~Opens(Corrupted(Message(TamperSeq, <<"pt", "tamper_test">>))))
      BY <1>3 DEF TamperTest
    <3>2. ~Opens(Corrupted(Message(TamperSeq, <<"pt", "tamper_test">>)))
      BY SealedOpens, Zenon
    <3> QED BY <3>1, <3>2, Zenon DEF CheckInv, CheckTypes
  <2>3. CheckTypes' /\ NothingLost' /\ IntactInv'
    BY <1>0, <2>1, <2>2 DEF CheckInv, CheckTypes, NothingLost, InHand, IntactInv
  <2>4. SequenceInv'
    BY <1>0, <1>1, <2>1 DEF CheckInv, SequenceInv
  <2> QED BY <2>3, <2>4
<1> QED BY <1>2, <1>3

LEMMA CheckStep == CheckInv /\ [Next]_vars => CheckInv'
<1> SUFFICES ASSUME CheckInv, [Next]_vars PROVE CheckInv'
  OBVIOUS
<1>0. EipcInv'
  BY InvStep DEF CheckInv
<1>1. CASE Enqueue
  BY <1>0, <1>1, CheckEnqueue DEF CheckInv
<1>2. CASE EnqueueRefused \/ LogSend
  BY <1>0, <1>2, CheckSender DEF CheckInv
<1>3. CASE Dequeue \/ DequeueNone
  BY <1>0, <1>3, CheckReceiver DEF CheckInv
<1>4. CASE Open \/ TamperTest
  BY <1>0, <1>4, CheckOpen DEF CheckInv
<1>5. CASE \E k \in Slots : CorruptSlot(k)
  <2>1. /\ count' = count /\ accepted' = accepted /\ concurrent' = concurrent /\ spc' = spc
        /\ seq' = seq /\ rpc' = rpc /\ received' = received /\ all_ok' = all_ok
        /\ flips' = flips + 1
    BY <1>5 DEF CorruptSlot, sender, receiver, history
  <2>2. flips' # 0 /\ CheckTypes'
    BY <2>1 DEF CheckInv, CheckTypes
  <2>3. SequenceInv'
    BY <2>1 DEF CheckInv, SequenceInv, Sealed, SenderDone
  <2> QED BY <1>0, <2>2, <2>3 DEF CheckInv, NothingLost, IntactInv
<1>6. CASE UNCHANGED vars
  BY <1>0, <1>6 DEF CheckInv, vars, chan, sender, receiver, history, CheckTypes, NothingLost, InHand, IntactInv, SequenceInv, Sealed, SenderDone
<1> QED BY <1>1, <1>2, <1>3, <1>4, <1>5, <1>6 DEF Next, Sender, Receiver

-----------------------------------------------------------------------------
\* The channel, the numbers of its messages and its audit entries keep the
\* inductive invariant, whatever the two loops of run_demo interleave.
THEOREM EipcInvariant == Spec => []EipcInv
BY InitInv, InvStep, PTL DEF Spec

\* enqueue and dequeue keep the ring exact for every CAP: the slots from head
\* on hold the `count` queued ciphertexts, all others are empty.
THEOREM RingIsExact == Spec => []RingWellFormed
<1>1. EipcInv => RingWellFormed
  <2> SUFFICES ASSUME RingInv PROVE RingWellFormed
    BY DEF EipcInv
  <2>1. \A i \in Slots : At(i) # None <=> i < count
    BY MessageFacts DEF RingInv
  <2> QED BY <2>1 DEF RingWellFormed, RingInv, At
<1> QED BY <1>1, EipcInvariant, PTL

\* chacha20_poly1305_open behind the ring: whatever is delivered was accepted,
\* has the plaintext that was sealed, and comes once and in order, however many
\* ciphertexts are corrupted on the way.
THEOREM DeliveryIsExact == Spec => []DeliveredInOrder
<1>1. EipcInv => DeliveredInOrder
  <2> SUFFICES ASSUME NumbersInv PROVE DeliveredInOrder
    BY DEF EipcInv
  <2>1. \A k \in DOMAIN delivered : delivered[k][2] = Plaintext(delivered[k][1])
    BY OpeningFacts DEF NumbersInv, SenderInv
  <2> QED BY <2>1 DEF DeliveredInOrder, NumbersInv, DeliveredInv, AcceptedIn
<1> QED BY <1>1, EipcInvariant, PTL

\* The audit trail of the channel: an EipcReceive entry is of a message open has
\* accepted, and follows the EipcSend entry of that message in run_demo's own order.
\* With two tasks the EipcSend entry may come later or have been lost by meal::log.
THEOREM SendsAreAudited == Spec => []SendAuditedFirst
<1>1. EipcInv => SendAuditedFirst
  BY AuditMeans DEF EipcInv
<1> QED BY <1>1, EipcInvariant, PTL

\* The ring of eipc.rs implements a bounded first-in first-out queue.
THEOREM ChannelIsFifo == Spec => IsBoundedFifo
BY EipcInvariant, InitMaps, StepMaps, PTL DEF Spec, IsBoundedFifo, Fifo!Spec

\* enqueue, dequeue and open between them lose no message that is not corrupted.
THEOREM NoMessageLost == Spec => []NothingLost
<1>1. CheckInv => NothingLost
  BY DEF CheckInv
<1> QED BY <1>1, CheckInit, CheckStep, PTL DEF Spec

\* The checkpoint that closes run_demo passes whenever it is reached and nothing
\* was corrupted: every message the channel had room for was received and opened,
\* and the tampered one was rejected.
THEOREM CheckpointPasses == Spec => []Checkpoint
<1>1. CheckInv => Checkpoint
  <2> SUFFICES ASSUME CheckInv, rpc = "end", ~concurrent PROVE Checkpoint
    BY DEF Checkpoint
  <2>1. SenderDone /\ count = 0 /\ Len(accepted) = Least(Sealed, CAP)
    BY CheckFacts DEF CheckInv, SequenceInv
  <2>2. Sealed = MaxSeq
    BY <2>1, CheckFacts DEF SenderDone, Sealed
  <2>3. flips = 0 => all_ok /\ Len(accepted) = received
    BY <2>1, CheckFacts DEF CheckInv, NothingLost, InHand
  <2> QED BY <2>1, <2>2, <2>3 DEF Checkpoint
<1> QED BY <1>1, CheckInit, CheckStep, PTL DEF Spec
=============================================================================
