----------------------------- MODULE MealProofs -----------------------------
(***************************************************************************)
(* Proofs about Meal for every capacity, every set of callers and every    *)
(* number of appends.  RingHoldsLatest says which entry each slot of the   *)
(* ring holds; with Chained, which says how consecutive entries of the     *)
(* history are linked, it makes every check of verify_chain succeed.       *)
(***************************************************************************)
EXTENDS Meal, SequenceTheorems, FiniteSetTheorems, TLAPS

-----------------------------------------------------------------------------
(***************************************************************************)
(* Arithmetic of the ring.                                                 *)
(***************************************************************************)

\* Slot numbers taken from write_head on stay in the ring; only distance 0 is write_head.
LEMMA SlotInRing ==
  ASSUME NEW w \in Ring, NEW i \in Ring
  PROVE  /\ (w + i) % CAPACITY \in Ring
         /\ i > 0 => (w + i) % CAPACITY # w
  BY CapacityAssumption DEF Ring

\* Advancing write_head moves every slot one place to the front, the oldest to the end.
LEMMA RingRotates ==
  ASSUME NEW w \in Ring, NEW i \in Ring
  PROVE  /\ NextHead(w) \in Ring
         /\ (NextHead(w) + i) % CAPACITY =
              IF i = CAPACITY - 1 THEN w ELSE (w + (i + 1)) % CAPACITY
  BY CapacityAssumption DEF Ring, NextHead

\* A sealed entry is no empty slot, and its MAC is right.
LEMMA SealedEntry ==
  ASSUME NEW f
  PROVE  /\ Sealed(f) # NoEntry
         /\ VerifyEntry(Sealed(f))
         /\ AuthBytes(Sealed(f)) = AuthBytes(f)
         /\ Sealed(Sealed(f)) = Sealed(f)
<1>1. "mac" \in DOMAIN Sealed(f)
  BY DEF Sealed
<1>2. Sealed(f) # NoEntry
  BY <1>1 DEF NoEntry
<1>3. AuthBytes(Sealed(f)) = AuthBytes(f)
  BY DEF Sealed, AuthBytes
<1>4. Sealed(f).mac = Hmac(AuthBytes(f))
  BY DEF Sealed
<1>5. Sealed(Sealed(f)) = Sealed(f)
  BY <1>3 DEF Sealed
<1> QED
  BY <1>2, <1>3, <1>4, <1>5 DEF VerifyEntry

-----------------------------------------------------------------------------
(***************************************************************************)
(* The inductive invariant.                                                *)
(***************************************************************************)

IsSeq == \E S : log \in Seq(S)

\* Every entry of the history has a right MAC and names the hash of the one before
\* it, the first one the genesis hash.
Chained ==
    /\ \A n \in 1 .. Len(log) :
         log[n] # NoEntry /\ VerifyEntry(log[n]) /\ log[n] = Sealed(log[n])
    /\ \A n \in 2 .. Len(log) : log[n].prev_hash = SelfHash(log[n - 1])
    /\ Len(log) > 0 => chain_tip = SelfHash(log[Len(log)]) /\ log[1].prev_hash = Genesis
    /\ Len(log) = 0 => chain_tip = Genesis

Stamped == \A n \in 1 .. Len(log) : log[n].timestamp \in Nat

\* The bound on the number of entries is tested when the lock is taken.
Room == pending # None => total < MaxTotal

MealInv ==
    /\ IsSeq
    /\ TypeOK
    /\ Stamped
    /\ RingHoldsLatest
    /\ Chained
    /\ LogOrdered
    /\ Room

\* The log starts empty.
LEMMA InitInv == Init => MealInv
<1> SUFFICES ASSUME Init PROVE MealInv
  OBVIOUS
<1> USE CapacityAssumption, BoundsAssumption
<1>1. IsSeq
  BY DEF Init, IsSeq
<1>2. TypeOK
  BY DEF Init, TypeOK, Ring
<1>3. RingHoldsLatest
  BY SlotInRing DEF Init, RingHoldsLatest, At, Ring
<1>4. Chained /\ LogOrdered /\ Stamped /\ Room
  BY DEF Init, Chained, LogOrdered, Stamped, Room
<1> QED
  BY <1>1, <1>2, <1>3, <1>4 DEF MealInv

\* Steps that only move the clock, the lock or the report leave the log alone.
LEMMA OtherStepsInv ==
  ASSUME MealInv, UNCHANGED logvars, TypeOK', Room', TICKS' >= TICKS
  PROVE  MealInv'
<1>1. IsSeq' /\ Chained' /\ Stamped'
  BY DEF MealInv, IsSeq, Chained, Stamped, logvars
<1>2. RingHoldsLatest'
  BY DEF MealInv, RingHoldsLatest, At, logvars
<1>3. LogOrdered'
  <2>1. Len(log) \in Nat /\ Len(log') = Len(log) /\ TICKS \in Nat /\ TICKS' \in Nat
    BY DEF MealInv, TypeOK, logvars
  <2>2. \A n \in 1 .. Len(log) : log[n].timestamp <= TICKS'
    BY <2>1 DEF MealInv, Stamped, LogOrdered
  <2> QED
    BY <2>1, <2>2 DEF MealInv, LogOrdered, logvars
<1> QED
  BY <1>1, <1>2, <1>3 DEF MealInv
(***************************************************************************)
(* MealLog::append: the ring rotates by one and the history grows by the   *)
(* entry just sealed.                                                      *)
(***************************************************************************)
LEMMA AppendInv ==
  ASSUME MealInv, NEW c \in Callers, MealAppend(c)
  PROVE  MealInv'
<1> USE CapacityAssumption, BoundsAssumption
<1> DEFINE f == Fields(pending)
           e == Sealed(f)
<1>1. /\ log' = Append(log, e) /\ chain_tip' = SelfHash(e)
      /\ entries' = [entries EXCEPT ![write_head] = e]
      /\ write_head' = NextHead(write_head) /\ total' = total + 1
      /\ TICKS' = TICKS /\ lost' = lost /\ lock' = None /\ pending' = None
  BY DEF MealAppend
<1>2. /\ e # NoEntry /\ VerifyEntry(e) /\ e = Sealed(e)
      /\ e.sequence = total /\ e.timestamp = TICKS /\ e.prev_hash = chain_tip
  <2>1. e # NoEntry /\ VerifyEntry(e) /\ e = Sealed(e)
    BY SealedEntry
  <2> QED
    BY <2>1 DEF Sealed, Fields
<1> HIDE DEF e
<1>3. /\ total = Len(log) /\ total \in Nat /\ TICKS \in Nat /\ write_head \in Ring
      /\ entries \in [Ring -> {log[n] : n \in 1 .. Len(log)} \cup {NoEntry}]
      /\ total < MaxTotal
  BY DEF MealInv, TypeOK, Room, MealAppend
<1>4. IsSeq' /\ Len(log') = total + 1 /\ log'[total + 1] = e
      /\ \A n \in 1 .. total : log'[n] = log[n]
  <2>1. PICK S : log \in Seq(S)
    BY DEF MealInv, IsSeq
  <2>2. log \in Seq(S \cup {e})
    BY <2>1, SeqMonotonic
  <2>3. log' \in Seq(S \cup {e})
    BY <1>1, <2>2
  <2> QED
    BY <1>1, <1>3, <2>2, <2>3 DEF IsSeq
<1>5. TypeOK'
  <2>1. entries' \in [Ring -> {log'[n] : n \in 1 .. total + 1} \cup {NoEntry}]
    BY <1>1, <1>3, <1>4
  <2>2. write_head' \in Ring
    BY <1>1, <1>3, RingRotates
  <2> QED
    BY <1>1, <1>3, <1>4, <2>1, <2>2 DEF MealInv, TypeOK
<1>6. Stamped' /\ LogOrdered'
  <2>1. \A n \in 1 .. total : log[n].timestamp \in Nat /\ log[n].timestamp <= TICKS
    BY <1>3 DEF MealInv, Stamped, LogOrdered
  <2>2. Stamped'
    BY <1>2, <1>3, <1>4, <2>1 DEF Stamped
  <2> QED
    BY <1>1, <1>2, <1>3, <1>4, <2>1, <2>2 DEF MealInv, LogOrdered
<1>7. Chained'
  BY <1>1, <1>2, <1>3, <1>4 DEF MealInv, Chained
<1>8. RingHoldsLatest'
  <2> SUFFICES ASSUME NEW i \in Ring
               PROVE  entries'[(NextHead(write_head) + i) % CAPACITY] =
                        IF total + 1 + i >= CAPACITY
                        THEN log'[total + 1 + i - CAPACITY + 1] ELSE NoEntry
    BY <1>1 DEF RingHoldsLatest, At
  <2> SUFFICES ASSUME NEW m, m = total + 1 + i, NEW k, k = m - CAPACITY + 1
               PROVE  entries'[(NextHead(write_head) + i) % CAPACITY] =
                        IF m >= CAPACITY THEN log'[k] ELSE NoEntry
    BY <1>3 DEF Ring
  <2>1. CASE i = CAPACITY - 1
    <3>1. (NextHead(write_head) + i) % CAPACITY = write_head
      BY <1>3, <2>1, RingRotates
    <3>2. entries'[write_head] = e
      BY <1>1, <1>3
    <3>3. m >= CAPACITY /\ k = total + 1
      BY <1>3, <2>1 DEF Ring
    <3>4. log'[k] = e
      BY <1>4, <3>3, Zenon
    <3> QED
      BY <3>1, <3>2, <3>3, <3>4, Zenon
  <2>2. CASE i # CAPACITY - 1
    <3>1. i + 1 \in Ring /\ i + 1 > 0
      BY <2>2 DEF Ring
    <3>2. /\ (NextHead(write_head) + i) % CAPACITY = (write_head + (i + 1)) % CAPACITY
          /\ (write_head + (i + 1)) % CAPACITY \in Ring \ {write_head}
      <4>1. (NextHead(write_head) + i) % CAPACITY = (write_head + (i + 1)) % CAPACITY
        BY <1>3, <2>2, RingRotates
      <4>2. (write_head + (i + 1)) % CAPACITY \in Ring \ {write_head}
        BY <1>3, <3>1, SlotInRing
      <4> QED
        BY <4>1, <4>2
    <3>3. entries'[(NextHead(write_head) + i) % CAPACITY]
            = At(entries, write_head, i + 1)
      BY <1>1, <1>3, <3>2 DEF At
    <3>4. At(entries, write_head, i + 1) =
            IF total + (i + 1) >= CAPACITY
            THEN log[total + (i + 1) - CAPACITY + 1] ELSE NoEntry
      BY <3>1 DEF MealInv, RingHoldsLatest
    <3>5. /\ total + (i + 1) = m /\ total + (i + 1) - CAPACITY + 1 = k
          /\ m >= CAPACITY => k \in 1 .. total
      BY <1>3, <2>2 DEF Ring
    <3>6. m >= CAPACITY => log'[k] = log[k]
      BY <1>4, <3>5
    <3>7. At(entries, write_head, i + 1) = IF m >= CAPACITY THEN log[k] ELSE NoEntry
      BY <3>4, <3>5, Zenon
    <3>8. At(entries, write_head, i + 1) = IF m >= CAPACITY THEN log'[k] ELSE NoEntry
      BY <3>6, <3>7
    <3> QED
      BY <3>3, <3>8
  <2> QED
    BY <2>1, <2>2
<1>9. Room'
  BY <1>1 DEF Room
<1> QED
  BY <1>4, <1>5, <1>6, <1>7, <1>8, <1>9 DEF MealInv

\* The inductive invariant holds of every run of the log.
THEOREM MealInvariant == Spec => []MealInv
<1> USE CapacityAssumption, BoundsAssumption
<1>1. MealInv /\ [Next]_vars => MealInv'
  <2> SUFFICES ASSUME MealInv, [Next]_vars PROVE MealInv'
    OBVIOUS
  <2>1. ASSUME NEW c \in Callers, MealAppend(c) PROVE MealInv'
    BY <2>1, AppendInv
  <2>2. CASE Timer
    BY <2>2, OtherStepsInv DEF Timer, MealInv, TypeOK, Room, logvars
  <2>3. ASSUME NEW c \in Callers, NEW p \in Payloads, LogTakesLock(c, p) PROVE MealInv'
    BY <2>3, OtherStepsInv DEF LogTakesLock, MealInv, TypeOK, Room, logvars
  <2>4. ASSUME NEW c \in Callers, LogDrops(c) PROVE MealInv'
    BY <2>4, OtherStepsInv DEF LogDrops, MealInv, TypeOK, Room, logvars
  <2>5. ASSUME NEW c \in Callers, ReportTakesLock(c) \/ Report(c) PROVE MealInv'
    BY <2>5, OtherStepsInv DEF ReportTakesLock, Report, MealInv, TypeOK, Room, logvars
  <2>6. CASE UNCHANGED vars
    BY <2>6, OtherStepsInv DEF vars, MealInv, TypeOK, Room, logvars
  <2> QED
    BY <2>1, <2>2, <2>3, <2>4, <2>5, <2>6 DEF Next
<1> QED
  BY <1>1, InitInv, PTL DEF Spec

\* The latest entry seen before another: Max is the greatest element.
LEMMA MaxUnique ==
  ASSUME NEW S \in SUBSET Int, NEW m \in S, \A j \in S : j <= m
  PROVE  Max(S) = m
<1>1. m \in Int /\ \A j \in S : j \in Int /\ m >= j
  OBVIOUS
<1>2. \E x \in S : \A j \in S : x >= j
  BY <1>1
<1> DEFINE x == Max(S)
<1>3. x \in S /\ \A j \in S : x >= j
  BY <1>2, Zenon DEF Max
<1> HIDE DEF x
<1>4. x = m
  BY <1>1, <1>3
<1> QED
  BY <1>4 DEF x

(***************************************************************************)
(* What verify_chain reads: the first position that is not empty, and the  *)
(* place in the history of the entry at position i.                        *)
(***************************************************************************)
First == IF total >= CAPACITY THEN 0 ELSE CAPACITY - total
Place(i) == total + i - CAPACITY + 1

LEMMA Positions ==
  ASSUME MealInv
  PROVE  /\ total = Len(log) /\ total \in Nat /\ First \in 0 .. CAPACITY /\ write_head \in Ring
         /\ \A i \in Ring : i >= First => Place(i) \in 1 .. total
         /\ \A i \in Ring :
              At(entries, write_head, i) = IF i >= First THEN log[Place(i)] ELSE NoEntry
         /\ Present(entries, write_head) = First .. CAPACITY - 1
<1> USE CapacityAssumption
<1>1. total = Len(log) /\ total \in Nat /\ write_head \in Ring
  BY DEF MealInv, TypeOK
<1>2. First \in 0 .. CAPACITY /\ \A i \in Ring : i >= First => Place(i) \in 1 .. total
  BY <1>1 DEF First, Place, Ring
<1>3. \A i \in Ring : At(entries, write_head, i) = IF i >= First THEN log[Place(i)] ELSE NoEntry
  BY <1>1 DEF MealInv, RingHoldsLatest, Ring, First, Place
<1>4. \A n \in 1 .. total : log[n] # NoEntry
  BY <1>1 DEF MealInv, Chained
<1> HIDE DEF First, Place
<1>5. \A i \in Ring : At(entries, write_head, i) # NoEntry <=> i >= First
  BY <1>2, <1>3, <1>4
<1>6. Present(entries, write_head) = {i \in Ring : i >= First}
  BY <1>5 DEF Present
<1>7. Present(entries, write_head) = First .. CAPACITY - 1
  BY <1>2, <1>6 DEF Ring
<1> QED
  BY <1>1, <1>2, <1>3, <1>7

(***************************************************************************)
(* verify_chain accepts what the kernel wrote, and counts it, at any time, *)
(* for every capacity and after every number of appends.                   *)
(***************************************************************************)
LEMMA InvVerifies == MealInv => ChainVerifies
<1> SUFFICES ASSUME MealInv PROVE ChainVerifies
  OBVIOUS
<1> USE CapacityAssumption
<1> DEFINE a(i) == At(entries, write_head, i)
<1>1. total = Len(log) /\ total \in Nat /\ First \in 0 .. CAPACITY
  BY Positions
<1>2. \A i \in Ring : a(i) = IF i >= First THEN log[Place(i)] ELSE NoEntry
  BY Positions
<1>3. \A i \in Ring : i >= First => Place(i) \in 1 .. total
  BY Positions
<1>4. Present(entries, write_head) = First .. CAPACITY - 1
  BY Positions
<1>5. ASSUME NEW i \in First .. CAPACITY - 1
      PROVE  VerifyEntry(a(i)) /\ LinkOk(entries, write_head, i)
  <2>1. i \in Ring /\ i >= First
    BY <1>1 DEF Ring
  <2>2. VerifyEntry(a(i))
    BY <1>1, <1>2, <1>3, <2>1 DEF MealInv, Chained
  <2>3. ASSUME i > First
        PROVE  a(i).prev_hash = SelfHash(a(i - 1))
    <3>1. i - 1 \in Ring /\ i - 1 >= First
      BY <1>1, <2>1, <2>3 DEF Ring
    <3>2. Place(i) \in 2 .. total /\ Place(i - 1) = Place(i) - 1
      BY <1>1, <1>3, <2>1, <2>3, <3>1 DEF Ring, Place
    <3>3. a(i) = log[Place(i)] /\ a(i - 1) = log[Place(i) - 1]
      BY <1>2, <2>1, <3>1, <3>2, Zenon
    <3>4. log[Place(i)].prev_hash = SelfHash(log[Place(i) - 1])
      BY <1>1, <3>2 DEF MealInv, Chained
    <3> QED
      BY <3>3, <3>4
  <2> DEFINE before == {j \in Present(entries, write_head) : j < i}
  <2>4. before = First .. i - 1
    BY <1>1, <1>4, <2>1 DEF Ring
  <2>5. CASE i = First
    <3>1. before = {}
      BY <1>1, <2>1, <2>4, <2>5
    <3> QED
      BY <2>2, <3>1 DEF LinkOk
  <2>6. CASE i > First
    <3>1. Max(before) = i - 1
      <4>1. i - 1 \in before /\ \A j \in before : j <= i - 1
        BY <1>1, <2>1, <2>4, <2>6 DEF Ring
      <4>2. before \in SUBSET Int
        BY <1>1, <2>1, <2>4 DEF Ring
      <4> HIDE DEF before
      <4> QED
        BY <4>1, <4>2, <2>1, MaxUnique DEF Ring
    <3> QED
      BY <2>2, <2>3, <2>6, <3>1 DEF LinkOk
  <2> QED
    BY <1>1, <2>5, <2>6
<1>6. Bad(entries, write_head) = {}
  BY <1>4, <1>5 DEF Bad
<1>7. Cardinality(First .. CAPACITY - 1) = CAPACITY - First
  <2>1. First \in Int /\ CAPACITY - 1 \in Int /\ First <= CAPACITY
    BY <1>1
  <2>2. Cardinality(First .. CAPACITY - 1) =
          IF First > CAPACITY - 1 THEN 0 ELSE CAPACITY - 1 - First + 1
    BY <2>1, FS_Interval
  <2> QED
    BY <2>1, <2>2
<1>8. Min({total, CAPACITY}) = CAPACITY - First
  BY <1>1 DEF Min, First
<1> QED
  BY <1>4, <1>6, <1>7, <1>8 DEF VerifyChain, ChainVerifies

-----------------------------------------------------------------------------
(***************************************************************************)
(* Rings that differ from the one written.                                 *)
(***************************************************************************)

\* verify_chain answers FALSE as soon as one entry is bad.
LEMMA BadRejects ==
  ASSUME NEW es, NEW k \in Bad(es, write_head)
  PROVE  Rejected(es)
<1>1. Bad(es, write_head) # {}
  OBVIOUS
<1> QED
  BY <1>1 DEF Rejected, VerifyChain

\* Every slot is at one distance from the write head.
LEMMA SlotDistance ==
  ASSUME NEW w \in Ring
  PROVE  /\ \A s \in Ring : \E i \in Ring : s = (w + i) % CAPACITY
         /\ \A i, j \in Ring : (w + i) % CAPACITY = (w + j) % CAPACITY => i = j
<1> USE CapacityAssumption
<1>1. \A i \in Ring : (w + i) % CAPACITY = IF w + i < CAPACITY THEN w + i ELSE w + i - CAPACITY
  BY DEF Ring
<1>2. ASSUME NEW s \in Ring PROVE \E i \in Ring : s = (w + i) % CAPACITY
  <2>1. CASE s >= w
    <3>1. s - w \in Ring /\ w + (s - w) = s /\ s < CAPACITY
      BY <2>1 DEF Ring
    <3> QED
      BY <1>1, <3>1
  <2>2. CASE s < w
    <3>1. s - w + CAPACITY \in Ring /\ w + (s - w + CAPACITY) = s + CAPACITY /\ s \in Nat
      BY <2>2 DEF Ring
    <3> QED
      BY <1>1, <3>1
  <2> QED
    BY <2>1, <2>2 DEF Ring
<1>3. \A i, j \in Ring : (w + i) % CAPACITY = (w + j) % CAPACITY => i = j
  BY <1>1 DEF Ring
<1> QED
  BY <1>2, <1>3

\* An entry names no hash but the one of its predecessor in the history.
LEMMA NamesItsPredecessor ==
  ASSUME MealInv, NEW q \in 1 .. total, NEW r \in 1 .. total, r # q - 1
  PROVE  log[q].prev_hash # SelfHash(log[r])
<1>1. total = Len(log) /\ total \in Nat
  BY Positions
<1>2. CASE q = 1
  <2>1. log[q].prev_hash = Genesis
    BY <1>1, <1>2 DEF MealInv, Chained
  <2> QED
    BY <2>1 DEF Genesis, SelfHash, Sha256, AuthBytes
<1>3. CASE q # 1
  <2>1. q \in 2 .. Len(log) /\ q - 1 \in 1 .. Len(log) /\ r \in 1 .. Len(log)
    BY <1>1, <1>3
  <2>2. log[q].prev_hash = SelfHash(log[q - 1])
    BY <2>1 DEF MealInv, Chained
  <2>3. log[q - 1].sequence = q - 1 - 1 /\ log[r].sequence = r - 1
    BY <2>1 DEF MealInv, LogOrdered
  <2>4. log[q - 1].sequence # log[r].sequence
    BY <2>1, <2>3
  <2> QED
    BY <2>2, <2>4 DEF SelfHash, Sha256, AuthBytes
<1> QED
  BY <1>2, <1>3

\* An entry behind one that does not precede it in the history is bad.
LEMMA WrongLink ==
  ASSUME MealInv, NEW es, NEW j \in Present(es, write_head), NEW k \in Present(es, write_head),
         j < k, \A i \in Present(es, write_head) : i < k => i <= j,
         NEW q \in 1 .. total, NEW r \in 1 .. total, r # q - 1,
         At(es, write_head, k) = log[q], At(es, write_head, j) = log[r]
  PROVE  Rejected(es)
<1> DEFINE before == {i \in Present(es, write_head) : i < k}
<1>1. before \in SUBSET Int /\ j \in before /\ \A i \in before : i <= j
  BY CapacityAssumption DEF Present, Ring
<1> HIDE DEF before
<1>2. Max(before) = j /\ before # {}
  BY <1>1, MaxUnique
<1>3. ~LinkOk(es, write_head, k)
  BY <1>2, NamesItsPredecessor DEF LinkOk, before
<1> QED
  BY <1>3, BadRejects DEF Bad

\* Whatever ring is made up of entries the kernel wrote, in any order, repeated or
\* left out: if verify_chain accepts it, each entry is followed by its successor in
\* the history.
AcceptedIsHistory ==
    \A es \in [Ring -> {log[n] : n \in 1 .. Len(log)} \cup {NoEntry}] :
      ~Rejected(es) =>
        \A j, k \in Present(es, write_head) :
          j < k /\ (\A i \in Present(es, write_head) : i < k => i <= j)
          => At(es, write_head, k).sequence = At(es, write_head, j).sequence + 1

LEMMA InvAccepts == MealInv => AcceptedIsHistory
<1> SUFFICES ASSUME MealInv, NEW es \in [Ring -> {log[n] : n \in 1 .. Len(log)} \cup {NoEntry}],
                    ~Rejected(es),
                    NEW j \in Present(es, write_head), NEW k \in Present(es, write_head),
                    j < k, \A i \in Present(es, write_head) : i < k => i <= j
             PROVE  At(es, write_head, k).sequence = At(es, write_head, j).sequence + 1
  BY DEF AcceptedIsHistory
<1>1. total = Len(log) /\ total \in Nat
  BY Positions
<1>2. ASSUME NEW i \in Present(es, write_head)
      PROVE  \E n \in 1 .. total : At(es, write_head, i) = log[n]
  <2>1. (write_head + i) % CAPACITY \in Ring /\ At(es, write_head, i) # NoEntry
    BY Positions, SlotInRing DEF Present
  <2> QED
    BY <1>1, <2>1 DEF At
<1>3. PICK q \in 1 .. total : At(es, write_head, k) = log[q]
  BY <1>2
<1>4. PICK r \in 1 .. total : At(es, write_head, j) = log[r]
  BY <1>2
<1>5. r = q - 1
  BY <1>3, <1>4, WrongLink
<1>6. log[q].sequence = q - 1 /\ log[r].sequence = r - 1
  BY <1>1 DEF MealInv, LogOrdered
<1> QED
  BY <1>1, <1>3, <1>4, <1>5, <1>6

\* The MAC of an entry does not fit another payload.
LEMMA PayloadChanged ==
  ASSUME MealInv, NEW s \in Ring, entries[s] # NoEntry, NEW p, p # entries[s].payload
  PROVE  Rejected([entries EXCEPT ![s].payload = p])
<1> DEFINE es == [entries EXCEPT ![s].payload = p]
<1>1. PICK i \in Ring : s = (write_head + i) % CAPACITY
  BY Positions, SlotDistance
<1>2. At(entries, write_head, i) = entries[s] /\ At(es, write_head, i) = es[s]
  BY <1>1 DEF At
<1>3. PICK n \in 1 .. Len(log) : entries[s] = log[n]
  BY <1>2, Positions
<1>4. entries[s] = Sealed(entries[s])
  BY <1>3 DEF MealInv, Chained
<1>5. es[s] = [entries[s] EXCEPT !.payload = p]
  BY DEF MealInv, TypeOK
<1> HIDE DEF es
<1> DEFINE e == entries[s]
<1>6. e = [sequence |-> e.sequence, timestamp |-> e.timestamp, payload |-> e.payload,
           prev_hash |-> e.prev_hash, mac |-> Hmac(AuthBytes(e))]
  BY <1>4 DEF Sealed
<1> HIDE DEF e
<1>7. /\ [e EXCEPT !.payload = p].payload = p /\ [e EXCEPT !.payload = p].mac = Hmac(AuthBytes(e))
      /\ "mac" \in DOMAIN [e EXCEPT !.payload = p]
  BY <1>6
<1>8. es[s] # NoEntry
  BY <1>5, <1>7 DEF NoEntry, e
<1>9. ~VerifyEntry(es[s])
  <2>1. es[s].payload # e.payload /\ es[s].mac = Hmac(AuthBytes(e))
    BY <1>5, <1>7 DEF e
  <2> QED
    BY <2>1 DEF VerifyEntry, Hmac, AuthBytes
<1> QED
  BY <1>2, <1>8, <1>9, BadRejects DEF Bad, Present, es

\* Two entries exchanged: the position behind the first of the two does not follow
\* what now stands before it.
LEMMA EntriesExchanged ==
  ASSUME MealInv, NEW a \in First .. CAPACITY - 1, NEW b \in First .. CAPACITY - 1, a < b,
         NEW es, \A i \in Ring : At(es, write_head, i) =
                   IF i = a THEN At(entries, write_head, b)
                   ELSE IF i = b THEN At(entries, write_head, a)
                   ELSE At(entries, write_head, i)
  PROVE  Rejected(es)
<1> USE CapacityAssumption
<1>1. /\ First \in Nat /\ total \in Nat /\ First .. CAPACITY - 1 \subseteq Ring
      /\ \A i \in First .. CAPACITY - 1 : Place(i) \in 1 .. total
      /\ \A i \in First .. CAPACITY - 1 : At(entries, write_head, i) = log[Place(i)]
      /\ \A i \in Ring : At(entries, write_head, i) # NoEntry <=> i \in First .. CAPACITY - 1
  <2>1. First \in 0 .. CAPACITY /\ total \in Nat
    BY Positions
  <2>2. First .. CAPACITY - 1 \subseteq Ring /\ \A i \in First .. CAPACITY - 1 : i >= First
    BY <2>1 DEF Ring
  <2>3. \A i \in Ring : At(entries, write_head, i) # NoEntry <=> i \in First .. CAPACITY - 1
    BY Positions DEF Present
  <2> QED
    BY <2>1, <2>2, <2>3, Positions
<1>2. Present(es, write_head) = First .. CAPACITY - 1
  <2>1. \A i \in Ring : At(es, write_head, i) # NoEntry <=> i \in First .. CAPACITY - 1
    BY <1>1
  <2> QED
    BY <1>1, <2>1 DEF Present
<1> DEFINE q == IF a + 1 = b THEN Place(a) ELSE Place(a + 1)
<1>3. a + 1 \in First .. CAPACITY - 1 /\ a < a + 1 /\ \A i \in First .. CAPACITY - 1 : i < a + 1 => i <= a
  BY <1>1
<1>4. At(es, write_head, a + 1) = log[q] /\ At(es, write_head, a) = log[Place(b)]
  BY <1>1, <1>3
<1>5. q \in 1 .. total /\ Place(b) \in 1 .. total
  BY <1>1, <1>3
<1>6. Place(b) # q - 1
  BY <1>1, <1>3 DEF Place
<1> HIDE DEF q
<1> QED
  BY <1>2, <1>3, <1>4, <1>5, <1>6, WrongLink

\* An entry between two others removed: the next one does not follow the last before.
LEMMA EntryRemoved ==
  ASSUME MealInv, NEW k \in First + 1 .. CAPACITY - 2,
         NEW es, \A i \in Ring : At(es, write_head, i) =
                   IF i = k THEN NoEntry ELSE At(entries, write_head, i)
  PROVE  Rejected(es)
<1> USE CapacityAssumption
<1>1. First \in Nat /\ total \in Nat /\ First .. CAPACITY - 1 \subseteq Ring
  BY Positions DEF Ring
<1>2. /\ k - 1 \in First .. CAPACITY - 1 /\ k + 1 \in First .. CAPACITY - 1
      /\ k - 1 # k /\ k + 1 # k /\ k - 1 < k + 1 /\ k - 1 >= First /\ k + 1 >= First
  BY <1>1
<1>3. Present(es, write_head) = (First .. CAPACITY - 1) \ {k}
  BY <1>1, Positions DEF Present
<1>4. At(es, write_head, k + 1) = log[Place(k + 1)] /\ At(es, write_head, k - 1) = log[Place(k - 1)]
  BY <1>1, <1>2, Positions
<1>5. Place(k + 1) \in 1 .. total /\ Place(k - 1) \in 1 .. total
  BY <1>1, <1>2, Positions
<1>6. Place(k - 1) # Place(k + 1) - 1
  BY <1>1 DEF Place
<1>7. \A i \in Present(es, write_head) : i < k + 1 => i <= k - 1
  BY <1>1, <1>3
<1> QED
  BY <1>2, <1>3, <1>4, <1>5, <1>6, <1>7, WrongLink

\* The slots that hold an entry are the positions from First on.
LEMMA FullSlot ==
  ASSUME MealInv, NEW s \in Ring, entries[s] # NoEntry
  PROVE  \E a \in First .. CAPACITY - 1 : s = (write_head + a) % CAPACITY
<1>1. PICK a \in Ring : s = (write_head + a) % CAPACITY
  BY Positions, SlotDistance
<1>2. a \in Present(entries, write_head)
  BY <1>1 DEF Present, At
<1> QED
  BY <1>1, <1>2, Positions

LEMMA InvDetects == MealInv => ChangesDetected
<1> SUFFICES ASSUME MealInv PROVE ChangesDetected
  OBVIOUS
<1> USE CapacityAssumption
<1>0. /\ write_head \in Ring /\ First \in 0 .. CAPACITY /\ DOMAIN entries = Ring
      /\ First .. CAPACITY - 1 \subseteq Ring
      /\ entries = [r \in Ring |-> entries[r]]
  <2>1. write_head \in Ring /\ First \in 0 .. CAPACITY
    BY Positions
  <2>2. DOMAIN entries = Ring /\ entries = [r \in Ring |-> entries[r]]
    BY DEF MealInv, TypeOK
  <2>3. First .. CAPACITY - 1 \subseteq Ring
    BY <2>1 DEF Ring
  <2> QED
    BY <2>1, <2>2, <2>3
<1>i. \A m, n \in Ring : (write_head + m) % CAPACITY = (write_head + n) % CAPACITY => m = n
  BY <1>0, SlotDistance, Zenon
<1>1. ASSUME NEW i \in Ring, entries[i] # NoEntry, NEW p \in Payloads \ {entries[i].payload}
      PROVE  Rejected([entries EXCEPT ![i].payload = p])
  BY <1>1, PayloadChanged
<1>2. ASSUME NEW i \in Ring, entries[i] # NoEntry, NEW j \in Ring, entries[j] # NoEntry, i # j
      PROVE  Rejected([entries EXCEPT ![i] = entries[j], ![j] = entries[i]])
  <2> DEFINE es == [entries EXCEPT ![i] = entries[j], ![j] = entries[i]]
  <2>1. PICK a \in First .. CAPACITY - 1 : i = (write_head + a) % CAPACITY
    BY <1>2, FullSlot
  <2>2. PICK b \in First .. CAPACITY - 1 : j = (write_head + b) % CAPACITY
    BY <1>2, FullSlot
  <2>3. \A s \in Ring : es[s] = IF s = i THEN entries[j] ELSE IF s = j THEN entries[i] ELSE entries[s]
    BY <1>0, <1>2
  <2> HIDE DEF es
  <2>4. a \in Ring /\ b \in Ring /\ a # b
    BY <1>0, <1>2, <2>1, <2>2
  <2>5. \A n \in Ring : At(es, write_head, n) =
          IF n = a THEN At(entries, write_head, b)
          ELSE IF n = b THEN At(entries, write_head, a)
          ELSE At(entries, write_head, n)
    <3> TAKE n \in Ring
    <3>1. (write_head + n) % CAPACITY \in Ring
      BY <1>0, SlotInRing
    <3>2. ((write_head + n) % CAPACITY = i <=> n = a) /\ ((write_head + n) % CAPACITY = j <=> n = b)
      BY <1>i, <2>1, <2>2, <2>4, Zenon
    <3> QED
      BY <2>1, <2>2, <2>3, <3>1, <3>2 DEF At
  <2>6. CASE a < b
    BY <2>5, <2>6, EntriesExchanged DEF es
  <2>7. CASE b < a
    <3>1. \A n \in Ring : At(es, write_head, n) =
            IF n = b THEN At(entries, write_head, a)
            ELSE IF n = a THEN At(entries, write_head, b)
            ELSE At(entries, write_head, n)
      BY <2>4, <2>5
    <3> QED
      BY <2>7, <3>1, EntriesExchanged DEF es
  <2> QED
    BY <2>4, <2>6, <2>7 DEF Ring
<1>3. ASSUME NEW k \in Present(entries, write_head), NEW a \in Present(entries, write_head), a < k,
             NEW b \in Present(entries, write_head), k < b
      PROVE  Rejected([entries EXCEPT ![(write_head + k) % CAPACITY] = NoEntry])
  <2> DEFINE s == (write_head + k) % CAPACITY
             es == [entries EXCEPT ![s] = NoEntry]
  <2>1. k \in First + 1 .. CAPACITY - 2 /\ k \in Ring
    BY <1>0, <1>3, Positions DEF Ring
  <2>2. s \in Ring
    BY <1>0, <2>1, SlotInRing
  <2>3. \A r \in Ring : es[r] = IF r = s THEN NoEntry ELSE entries[r]
    BY <1>0, <2>2
  <2>4. \A n \in Ring : At(es, write_head, n) = IF n = k THEN NoEntry ELSE At(entries, write_head, n)
    <3> TAKE n \in Ring
    <3>1. (write_head + n) % CAPACITY \in Ring
      BY <1>0, SlotInRing
    <3>2. (write_head + n) % CAPACITY = s <=> n = k
      BY <1>i, <2>1, Zenon
    <3> HIDE DEF s, es
    <3> QED
      BY <2>3, <3>1, <3>2 DEF At
  <2> HIDE DEF es
  <2> QED
    BY <2>1, <2>4, EntryRemoved DEF es
<1> QED
  BY <1>1, <1>2, <1>3 DEF ChangesDetected

(***************************************************************************)
(* The properties of the runs, for every CAPACITY, set of callers and      *)
(* payloads.                                                               *)
(***************************************************************************)

\* The write head stays in the ring and every slot holds a written entry or none.
THEOREM TypeCorrect == Spec => []TypeOK
BY MealInvariant, PTL DEF MealInv

\* MealLog::append keeps the newest CAPACITY entries, oldest first from write_head.
THEOREM RingIsLatest == Spec => []RingHoldsLatest
BY MealInvariant, PTL DEF MealInv

\* Sequence numbers have no gaps and timestamps never run back, whoever logged.
THEOREM SequenceOrdered == Spec => []LogOrdered
BY MealInvariant, PTL DEF MealInv

\* verify_chain accepts the ring after every append, before and after it wraps.
THEOREM ChainAlwaysVerifies == Spec => []ChainVerifies
BY MealInvariant, InvVerifies, PTL

\* verify_chain rejects the ring when the payload of any entry is changed, when
\* any two entries change places and when any entry between two others is missing,
\* for every capacity, wherever the write head stands.
THEOREM ChangesAlwaysDetected == Spec => []ChangesDetected
BY MealInvariant, InvDetects, PTL

\* verify_chain accepts nothing but consecutive entries of the history: no ring of
\* written entries with one repeated, moved or left out in between passes.
THEOREM AcceptedIsConsecutive == Spec => []AcceptedIsHistory
BY MealInvariant, InvAccepts, PTL
=============================================================================
