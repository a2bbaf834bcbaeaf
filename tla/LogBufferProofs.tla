-------------------------- MODULE LogBufferProofs --------------------------
(***************************************************************************)
(* The log ring for any capacity, number of writers and bounds.            *)
(*                                                                         *)
(* The properties speak of what was delivered; the invariant has to say    *)
(* what is in the ring.  While the ring is calm, the tickets between the   *)
(* heads fit in one lap, so that a slot stands for one ticket: its words   *)
(* are the ones of that ticket once they are stored, and Empty before, as  *)
(* long as the ticket is of the first lap.                                 *)
(***************************************************************************)
EXTENDS LogBuffer, Integers, TLAPS

\* Indices of a ring are taken again only a whole lap later.
LEMMA OneLap ==
    ASSUME NEW a \in Nat, NEW b \in Nat, a <= b, b < a + LOG_CAPACITY, Idx(a) = Idx(b)
    PROVE  a = b
<1> DEFINE qa == a \div LOG_CAPACITY
           qb == b \div LOG_CAPACITY
<1>1. /\ qa \in Int /\ qb \in Int
      /\ a = LOG_CAPACITY * qa + Idx(a)
      /\ b = LOG_CAPACITY * qb + Idx(b)
      /\ Idx(a) \in 0 .. LOG_CAPACITY - 1 /\ Idx(b) \in 0 .. LOG_CAPACITY - 1
  BY LogCapacityAssumption DEF Idx
<1> HIDE DEF qa, qb
<1>2. b - a = LOG_CAPACITY * (qb - qa)
  BY <1>1, LogCapacityAssumption
<1>3. qb - qa = 0
  BY <1>1, <1>2, LogCapacityAssumption
<1> QED BY <1>1, <1>2, <1>3, LogCapacityAssumption

\* Every ticket has a slot.
LEMMA IdxInRing == ASSUME NEW n \in Nat PROVE Idx(n) \in Slots
BY LogCapacityAssumption DEF Idx, Slots

\* In the first lap the slot is the ticket.
LEMMA FirstLap == ASSUME NEW n \in Nat, n < LOG_CAPACITY PROVE Idx(n) = n
BY LogCapacityAssumption DEF Idx

-----------------------------------------------------------------------------
TypeOK ==
    /\ ENTRIES \in [Slots -> [Words -> Nat]]
    /\ WRITE_HEAD \in Nat /\ READ_HEAD \in Nat
    /\ ticket \in [Writers -> Nat] /\ unstored \in [Writers -> SUBSET Words]
    /\ pc \in {"idle", "loop", "copy", "kind"} /\ budget \in Nat
    /\ entry \in [Words -> Nat] /\ uncopied \in SUBSET Words
    /\ delivered \in Seq([Words -> Nat])
    /\ lapped \in BOOLEAN /\ raced \in BOOLEAN

\* Where the heads, the tickets and the loop stand, lapped or not.
Heads ==
    /\ READ_HEAD <= WRITE_HEAD
    /\ Len(delivered) = READ_HEAD
    /\ pc \in {"copy", "kind"} => budget > 0 /\ READ_HEAD < WRITE_HEAD
    /\ \A p \in Writers : unstored[p] # {} => ticket[p] < WRITE_HEAD
    /\ \A p, q \in Writers : unstored[p] # {} /\ unstored[q] # {} /\ p # q =>
         ticket[p] # ticket[q]

\* No word is from a push that has not begun.
NoneFromFuture ==
    /\ \A i \in Slots, w \in Words : ENTRIES[i][w] <= WRITE_HEAD
    /\ \A w \in Words : entry[w] <= WRITE_HEAD
    /\ \A n \in 1 .. Len(delivered) : delivered[n]["lo"] \in 1 .. WRITE_HEAD

ToStore(t, w) == \E p \in Writers : w \in unstored[p] /\ ticket[p] = t

OneLapAhead ==
    /\ WRITE_HEAD <= READ_HEAD + LOG_CAPACITY
    /\ \A p \in Writers : unstored[p] # {} => READ_HEAD <= ticket[p]

Written ==
    \A t \in Nat, w \in Words :
      READ_HEAD <= t /\ t < WRITE_HEAD /\ ~ToStore(t, w) => ENTRIES[Idx(t)][w] = t + 1

Unwritten ==
    \A t \in Nat, w \in Words :
      READ_HEAD <= t /\ t < LOG_CAPACITY /\ (t >= WRITE_HEAD \/ ToStore(t, w)) =>
        ENTRIES[Idx(t)][w] = 0

Copied ==
    /\ pc = "copy" => \A w \in Words \ uncopied : entry[w] = ENTRIES[Idx(READ_HEAD)][w]
    /\ pc = "kind" =>
         \/ \A w \in Words : entry[w] = 0
         \/ /\ \A w \in Words : entry[w] = READ_HEAD + 1
            /\ \A p \in Writers : unstored[p] # {} => ticket[p] # READ_HEAD

InOrder == \A n \in 1 .. Len(delivered) : \A w \in Words : delivered[n][w] = n

CalmInv == Calm => OneLapAhead /\ Written /\ Unwritten /\ Copied /\ InOrder

LogInv == TypeOK /\ Heads /\ NoneFromFuture /\ CalmInv

-----------------------------------------------------------------------------
\* The empty ring.
LEMMA InitInv == Init => LogInv
<1> SUFFICES ASSUME Init PROVE LogInv
  OBVIOUS
<1>1. TypeOK
  <2>1. <<>> \in Seq([Words -> Nat])
    OBVIOUS
  <2>2. EMPTY \in [Words -> Nat]
    BY DEF EMPTY
  <2>3. ENTRIES \in [Slots -> [Words -> Nat]]
    BY <2>2 DEF Init
  <2> QED BY <2>1, <2>2, <2>3 DEF Init, TypeOK
<1>2. Heads
  BY DEF Init, Heads
<1>3. NoneFromFuture
  BY DEF Init, NoneFromFuture, EMPTY
<1>4. OneLapAhead /\ Written /\ Copied /\ InOrder
  BY LogCapacityAssumption DEF Init, OneLapAhead, Written, Copied, InOrder
<1>5. Unwritten
  BY IdxInRing DEF Init, Unwritten, EMPTY
<1> QED BY <1>1, <1>2, <1>3, <1>4, <1>5 DEF LogInv, CalmInv

\* A push that begins takes a ticket nobody has, for a slot that is still Empty
\* in the first lap.
LEMMA ClaimInv == ASSUME LogInv, NEW p \in Writers, PushClaim(p) PROVE LogInv'
<1> USE DEF LogInv
<1>1. TypeOK'
  BY DEF TypeOK, PushClaim
<1>2. Heads'
  <2>0. WRITE_HEAD \in Nat /\ READ_HEAD \in Nat /\ \A q \in Writers : ticket[q] \in Nat
    BY DEF TypeOK
  <2>1. ticket'[p] = WRITE_HEAD /\ \A q \in Writers \ {p} : ticket'[q] = ticket[q]
    BY DEF TypeOK, PushClaim
  <2>2. \A q \in Writers \ {p} : unstored'[q] = unstored[q]
    BY DEF TypeOK, PushClaim
  <2>3. ASSUME NEW q \in Writers, unstored'[q] # {} PROVE ticket'[q] < WRITE_HEAD + 1
    <3>1. CASE q = p
      BY <3>1, <2>0, <2>1
    <3>2. CASE q # p
      <4>1. ticket'[q] = ticket[q] /\ ticket[q] < WRITE_HEAD
        BY <3>2, <2>1, <2>2, <2>3 DEF Heads
      <4> QED BY <4>1, <2>0
    <3> QED BY <3>1, <3>2
  <2>4. ASSUME NEW q \in Writers, NEW u \in Writers,
               unstored'[q] # {}, unstored'[u] # {}, q # u
        PROVE  ticket'[q] # ticket'[u]
    <3>1. \A x \in Writers \ {p} : unstored'[x] # {} => ticket'[x] < WRITE_HEAD
      BY <2>1, <2>2 DEF Heads
    <3>2. CASE q = p \/ u = p
      BY <3>1, <3>2, <2>0, <2>1, <2>4
    <3>3. CASE q # p /\ u # p
      BY <3>3, <2>1, <2>2, <2>4 DEF Heads
    <3> QED BY <3>2, <3>3
  <2>5. READ_HEAD <= WRITE_HEAD + 1 /\ (READ_HEAD < WRITE_HEAD => READ_HEAD < WRITE_HEAD + 1)
    BY <2>0 DEF Heads
  <2>6. WRITE_HEAD' = WRITE_HEAD + 1 /\ UNCHANGED <<READ_HEAD, delivered, pc, budget>>
    BY DEF PushClaim
  <2> QED BY <2>3, <2>4, <2>5, <2>6 DEF Heads
<1>3. NoneFromFuture'
  BY DEF TypeOK, NoneFromFuture, PushClaim
<1>4. ASSUME Calm' PROVE OneLapAhead' /\ Written' /\ Unwritten' /\ Copied' /\ InOrder'
  <2>0. Calm /\ ~(WRITE_HEAD >= READ_HEAD + LOG_CAPACITY)
    BY <1>4, Zenon DEF Calm, PushClaim
  <2>1. Calm /\ WRITE_HEAD < READ_HEAD + LOG_CAPACITY
    BY <2>0, LogCapacityAssumption DEF TypeOK
  <2>2. OneLapAhead /\ Written /\ Unwritten /\ Copied /\ InOrder
    BY <2>1 DEF CalmInv
  <2>3. OneLapAhead'
    BY <2>1, <2>2, LogCapacityAssumption DEF OneLapAhead, Heads, PushClaim, TypeOK
  <2>4. \A t \in Nat, w \in Words : ToStore(t, w)' <=> ToStore(t, w) \/ t = WRITE_HEAD
    BY DEF ToStore, PushClaim, TypeOK
  <2>5. Written'
    BY <2>2, <2>4 DEF Written, PushClaim, TypeOK, Idx
  <2>6. Unwritten'
    <3> SUFFICES ASSUME NEW t \in Nat, NEW w \in Words, READ_HEAD <= t, t < LOG_CAPACITY,
                        t >= WRITE_HEAD + 1 \/ ToStore(t, w)'
                 PROVE  ENTRIES[Idx(t)][w] = 0
      BY DEF Unwritten, PushClaim, Idx
    <3>1. t >= WRITE_HEAD \/ ToStore(t, w)
      BY <2>4 DEF TypeOK
    <3> QED BY <3>1, <2>2 DEF Unwritten
  <2>7. Copied'
    BY <2>2 DEF Copied, PushClaim, TypeOK, Heads, Idx
  <2>8. InOrder'
    BY <2>2 DEF InOrder, PushClaim
  <2> QED BY <2>3, <2>5, <2>6, <2>7, <2>8
<1> QED BY <1>1, <1>2, <1>3, <1>4 DEF CalmInv

\* A word that is stored is the word of its ticket, and of no other between
\* the heads.
LEMMA StoreInv == ASSUME LogInv, NEW p \in Writers, NEW v \in Words, PushStore(p, v)
                  PROVE LogInv'
<1> USE DEF LogInv
<1> DEFINE t0 == ticket[p]
           i0 == Idx(t0)
<1>0. t0 \in Nat /\ i0 \in Slots /\ t0 < WRITE_HEAD /\ unstored[p] # {}
  BY IdxInRing DEF TypeOK, Heads, PushStore
<1>a. \A i \in Slots, w \in Words :
        ENTRIES'[i][w] = IF i = i0 /\ w = v THEN t0 + 1 ELSE ENTRIES[i][w]
  BY <1>0 DEF TypeOK, PushStore
<1>b. \A q \in Writers : unstored'[q] = IF q = p THEN unstored[p] \ {v} ELSE unstored[q]
  BY DEF TypeOK, PushStore
<1>c. /\ UNCHANGED <<WRITE_HEAD, READ_HEAD, ticket, pc, budget, entry, uncopied,
                     delivered, lapped>>
      /\ v \in unstored[p]
  BY DEF PushStore
<1>1. TypeOK'
  <2>1. ENTRIES' \in [Slots -> [Words -> Nat]]
    BY <1>0 DEF TypeOK, PushStore
  <2>2. unstored' \in [Writers -> SUBSET Words] /\ raced' \in BOOLEAN
    BY DEF TypeOK, PushStore
  <2> QED BY <2>1, <2>2, <1>c DEF TypeOK
<1>2. Heads'
  BY <1>b, <1>c DEF Heads
<1>3. NoneFromFuture'
  <2>1. \A i \in Slots, w \in Words : ENTRIES'[i][w] <= WRITE_HEAD
    <3>1. t0 + 1 <= WRITE_HEAD
      BY <1>0 DEF TypeOK
    <3> HIDE DEF t0, i0
    <3> QED BY <3>1, <1>a DEF NoneFromFuture
  <2> QED BY <2>1, <1>c DEF NoneFromFuture
<1>4. ASSUME Calm' PROVE OneLapAhead' /\ Written' /\ Unwritten' /\ Copied' /\ InOrder'
  <2>1. Calm /\ ~(pc = "copy" /\ uncopied # Words /\ Idx(READ_HEAD) = i0)
    BY <1>4 DEF Calm, PushStore
  <2>2. OneLapAhead /\ Written /\ Unwritten /\ Copied /\ InOrder
    BY <2>1 DEF CalmInv
  <2>3. OneLapAhead'
    BY <2>2, <1>b, <1>c DEF OneLapAhead
  <2>4. READ_HEAD <= t0 /\ t0 < READ_HEAD + LOG_CAPACITY
    BY <2>2, <1>0, LogCapacityAssumption DEF OneLapAhead, TypeOK
  <2>5. \A t \in Nat : READ_HEAD <= t /\ t < READ_HEAD + LOG_CAPACITY /\ Idx(t) = i0 => t = t0
    <3> SUFFICES ASSUME NEW t \in Nat, READ_HEAD <= t, t < READ_HEAD + LOG_CAPACITY, Idx(t) = i0
                 PROVE  t = t0
      OBVIOUS
    <3>1. CASE t <= t0
      BY <3>1, <2>4, <1>0, OneLap, LogCapacityAssumption DEF TypeOK
    <3>2. CASE t0 <= t
      <4>1. t < t0 + LOG_CAPACITY
        BY <2>4, <1>0, LogCapacityAssumption DEF TypeOK
      <4>2. Idx(t0) = Idx(t)
        OBVIOUS
      <4> HIDE DEF t0
      <4> QED BY <3>2, <4>1, <4>2, <1>0, OneLap
    <3> QED BY <3>1, <3>2, <1>0
  <2>6. \A t \in Nat, w \in Words :
          ToStore(t, w)' <=> ToStore(t, w) /\ ~(t = t0 /\ w = v)
    BY <1>0, <1>b, <1>c DEF ToStore, Heads
  <2>7. Written'
    <3> SUFFICES ASSUME NEW t \in Nat, NEW w \in Words,
                        READ_HEAD <= t, t < WRITE_HEAD, ~ToStore(t, w)'
                 PROVE  ENTRIES'[Idx(t)][w] = t + 1
      BY <1>c DEF Written, Idx
    <3>1. Idx(t) \in Slots
      BY IdxInRing
    <3>2. CASE t = t0 /\ w = v
      BY <3>1, <3>2, <1>a
    <3>3. CASE ~(t = t0 /\ w = v)
      <4>1. ENTRIES[Idx(t)][w] = t + 1
        BY <3>3, <2>2, <2>6 DEF Written
      <4>2. t < READ_HEAD + LOG_CAPACITY
        BY <2>2, LogCapacityAssumption DEF OneLapAhead, TypeOK
      <4>3. ~(Idx(t) = i0 /\ w = v)
        BY <3>3, <4>2, <2>5
      <4> QED BY <4>1, <4>3, <3>1, <1>a
    <3> QED BY <3>2, <3>3
  <2>8. Unwritten'
    <3> SUFFICES ASSUME NEW t \in Nat, NEW w \in Words, READ_HEAD <= t, t < LOG_CAPACITY,
                        t >= WRITE_HEAD \/ ToStore(t, w)'
                 PROVE  ENTRIES'[Idx(t)][w] = 0
      BY <1>c DEF Unwritten, Idx
    <3>1. Idx(t) \in Slots /\ t < READ_HEAD + LOG_CAPACITY
      BY IdxInRing, LogCapacityAssumption DEF TypeOK
    <3>2. ~(t = t0 /\ w = v)
      BY <1>0, <2>6 DEF TypeOK
    <3>3. ENTRIES[Idx(t)][w] = 0
      BY <2>2, <2>6 DEF Unwritten
    <3>4. ~(Idx(t) = i0 /\ w = v)
      BY <3>1, <3>2, <2>5
    <3> QED BY <3>1, <3>3, <3>4, <1>a
  <2>9. Copied'
    <3>1. ASSUME pc = "copy", NEW w \in Words \ uncopied
          PROVE  entry[w] = ENTRIES'[Idx(READ_HEAD)][w]
      <4>1. Idx(READ_HEAD) # i0
        BY <3>1, <2>1 DEF TypeOK
      <4>2. Idx(READ_HEAD) \in Slots
        BY IdxInRing DEF TypeOK
      <4> QED BY <3>1, <4>1, <4>2, <1>a, <2>2 DEF Copied
    <3> QED BY <3>1, <1>b, <1>c, <2>2 DEF Copied, Idx
  <2>10. InOrder'
    BY <2>2, <1>c DEF InOrder
  <2> QED BY <2>3, <2>7, <2>8, <2>9, <2>10
<1> QED BY <1>1, <1>2, <1>3, <1>4 DEF CalmInv

\* The call and the test at the head of the loop touch nothing the ring is about.
LEMMA LoopInv == ASSUME LogInv, (\E max \in 0 .. MaxDrain : DrainCall(max)) \/ DrainLoad
                 PROVE  LogInv'
<1> USE DEF LogInv
<1>0. UNCHANGED <<ENTRIES, WRITE_HEAD, READ_HEAD, ticket, unstored, entry, delivered,
                  lapped, raced>>
  BY DEF DrainCall, DrainLoad
<1>1. TypeOK'
  BY LogBoundsAssumption DEF TypeOK, DrainCall, DrainLoad
<1>2. pc' \in {"copy", "kind"} => budget' > 0 /\ READ_HEAD < WRITE_HEAD
  BY DEF DrainCall, DrainLoad, Behind
<1>3. Heads'
  BY <1>0, <1>2 DEF Heads
<1>4. NoneFromFuture'
  BY <1>0 DEF NoneFromFuture
<1>5. pc' # "kind" /\ (pc' = "copy" => uncopied' = Words)
  BY DEF DrainCall, DrainLoad
<1>6. ASSUME Calm' PROVE OneLapAhead' /\ Written' /\ Unwritten' /\ Copied' /\ InOrder'
  <2>1. OneLapAhead /\ Written /\ Unwritten /\ InOrder
    BY <1>0, <1>6 DEF CalmInv, Calm
  <2>2. Written' /\ Unwritten'
    BY <2>1, <1>0 DEF Written, Unwritten, ToStore, Idx
  <2>3. Copied'
    BY <1>5 DEF Copied
  <2> QED BY <2>1, <2>2, <2>3, <1>0 DEF OneLapAhead, InOrder
<1> QED BY <1>1, <1>3, <1>4, <1>6 DEF CalmInv

\* A copy that met no store is the entry of its ticket, or Empty.
LEMMA CopyInv == ASSUME LogInv, NEW v \in Words, DrainCopy(v) PROVE LogInv'
<1> USE DEF LogInv
<1> DEFINE slot == ENTRIES[Idx(READ_HEAD)]
<1>0. UNCHANGED <<ENTRIES, WRITE_HEAD, READ_HEAD, ticket, unstored, budget, delivered, lapped>>
  BY DEF DrainCopy
<1>a. slot \in [Words -> Nat] /\ Idx(READ_HEAD) \in Slots
  BY IdxInRing DEF TypeOK
<1>b. \A w \in Words : entry'[w] = IF w = v THEN slot[w] ELSE entry[w]
  BY DEF DrainCopy, TypeOK
<1>c. pc = "copy" /\ uncopied' = uncopied \ {v}
      /\ pc' = IF uncopied' = {} THEN "kind" ELSE "copy"
  BY DEF DrainCopy
<1>1. TypeOK'
  <2>1. entry' \in [Words -> Nat]
    BY <1>a DEF DrainCopy, TypeOK
  <2>2. raced' \in BOOLEAN
    BY DEF DrainCopy, TypeOK
  <2> QED BY <2>1, <2>2, <1>0, <1>c DEF TypeOK
<1>2. Heads'
  BY <1>0, <1>c DEF Heads
<1>3. NoneFromFuture'
  BY <1>0, <1>a, <1>b DEF NoneFromFuture
<1>4. ASSUME Calm' PROVE OneLapAhead' /\ Written' /\ Unwritten' /\ Copied' /\ InOrder'
  <2>0. Calm /\ \A p \in Writers : ~Unsettled(p)
    <3>1. ~lapped' /\ ~raced'
      BY <1>4 DEF Calm
    <3>2. raced' = (raced \/ \E p \in Writers : Unsettled(p))
      BY DEF DrainCopy
    <3> QED BY <3>1, <3>2, <1>0, Zenon DEF Calm
  <2>1. OneLapAhead /\ Written /\ Unwritten /\ Copied /\ InOrder
    BY <2>0 DEF CalmInv
  <2>2. OneLapAhead' /\ Written' /\ Unwritten' /\ InOrder'
    BY <2>1, <1>0 DEF OneLapAhead, Written, Unwritten, ToStore, Idx, InOrder
  <2>3. \A w \in Words \ uncopied' : entry'[w] = slot[w]
    BY <2>1, <1>b, <1>c DEF Copied
  <2>4. READ_HEAD \in Nat /\ READ_HEAD < WRITE_HEAD
    BY <1>c DEF TypeOK, Heads
  <2>5. CASE \E p \in Writers : unstored[p] # {} /\ ticket[p] = READ_HEAD
    <3>1. PICK p \in Writers : unstored[p] # {} /\ ticket[p] = READ_HEAD
      BY <2>5
    <3>2. unstored[p] = Words /\ ~(READ_HEAD >= LOG_CAPACITY)
      BY <2>0, <3>1 DEF Unsettled
    <3>3. \A w \in Words : ToStore(READ_HEAD, w)
      BY <3>1, <3>2 DEF ToStore
    <3>4. READ_HEAD < LOG_CAPACITY /\ READ_HEAD <= READ_HEAD
      BY <3>2, <2>4, LogCapacityAssumption
    <3>5. \A w \in Words : slot[w] = 0
      BY <3>3, <3>4, <2>1, <2>4 DEF Unwritten
    <3>6. Copied'
      BY <3>5, <2>3, <1>0, <1>c DEF Copied, Idx
    <3> QED BY <3>6, <2>2
  <2>6. CASE \A p \in Writers : unstored[p] # {} => ticket[p] # READ_HEAD
    <3>1. \A w \in Words : ~ToStore(READ_HEAD, w)
      BY <2>6 DEF ToStore
    <3>2. READ_HEAD <= READ_HEAD
      BY <2>4
    <3>3. \A w \in Words : slot[w] = READ_HEAD + 1
      BY <3>1, <3>2, <2>1, <2>4 DEF Written
    <3>4. Copied'
      BY <3>3, <2>3, <2>6, <1>0, <1>c DEF Copied, Idx
    <3> QED BY <3>4, <2>2
  <2> QED BY <2>2, <2>5, <2>6
<1> QED BY <1>1, <1>2, <1>3, <1>4 DEF CalmInv

\* What is handed out is the entry of the ticket READ_HEAD stands at.
LEMMA KindInv == ASSUME LogInv, DrainKind PROVE LogInv'
<1> USE DEF LogInv
<1>0. pc = "kind" /\ UNCHANGED <<ENTRIES, WRITE_HEAD, ticket, unstored, entry, uncopied,
                                 lapped, raced>>
  BY DEF DrainKind
<1>1. CASE IsEmpty
  <2>1. pc' = "idle" /\ UNCHANGED <<READ_HEAD, budget, delivered>>
    BY <1>1 DEF DrainKind
  <2>2. TypeOK' /\ Heads' /\ NoneFromFuture'
    BY <2>1, <1>0 DEF TypeOK, Heads, NoneFromFuture
  <2>3. Calm' => OneLapAhead' /\ Written' /\ Unwritten' /\ InOrder'
    BY <2>1, <1>0 DEF CalmInv, Calm, OneLapAhead, Written, Unwritten, ToStore, Idx, InOrder
  <2>4. Copied'
    BY <2>1 DEF Copied
  <2> QED BY <2>2, <2>3, <2>4 DEF CalmInv
<1>2. CASE ~IsEmpty
  <2>0. /\ delivered' = Append(delivered, entry) /\ READ_HEAD' = READ_HEAD + 1
        /\ budget' = budget - 1 /\ pc' = "loop"
    BY <1>2 DEF DrainKind
  <2>a. /\ READ_HEAD \in Nat /\ WRITE_HEAD \in Nat /\ READ_HEAD < WRITE_HEAD
        /\ budget \in Nat /\ budget > 0 /\ entry \in [Words -> Nat]
        /\ delivered \in Seq([Words -> Nat]) /\ Len(delivered) = READ_HEAD
    BY <1>0 DEF TypeOK, Heads
  <2>b. /\ delivered' \in Seq([Words -> Nat]) /\ Len(delivered') = READ_HEAD + 1
        /\ delivered'[READ_HEAD + 1] = entry
        /\ \A n \in 1 .. READ_HEAD : delivered'[n] = delivered[n]
    BY <2>0, <2>a
  <2>1. TypeOK'
    BY <2>0, <2>a, <2>b, <1>0 DEF TypeOK
  <2>2. Heads'
    <3>1. READ_HEAD + 1 <= WRITE_HEAD
      BY <2>a
    <3> QED BY <3>1, <2>0, <2>b, <1>0 DEF Heads
  <2>3. NoneFromFuture'
    <3>1. entry["lo"] \in 1 .. WRITE_HEAD
      BY <1>2, <2>a DEF IsEmpty, NoneFromFuture, Words
    <3>2. \A n \in 1 .. READ_HEAD + 1 : delivered'[n]["lo"] \in 1 .. WRITE_HEAD
      BY <3>1, <2>a, <2>b DEF NoneFromFuture
    <3> QED BY <3>2, <2>b, <1>0 DEF NoneFromFuture
  <2>4. ASSUME Calm' PROVE OneLapAhead' /\ Written' /\ Unwritten' /\ Copied' /\ InOrder'
    <3>1. OneLapAhead /\ Written /\ Unwritten /\ Copied /\ InOrder
      BY <2>4, <1>0 DEF CalmInv, Calm
    <3>2. /\ \A w \in Words : entry[w] = READ_HEAD + 1
          /\ \A p \in Writers : unstored[p] # {} => ticket[p] # READ_HEAD
      BY <3>1, <1>0, <1>2 DEF Copied, IsEmpty, Words
    <3>3. OneLapAhead'
      <4>1. WRITE_HEAD <= READ_HEAD + 1 + LOG_CAPACITY
        BY <3>1, <2>a, LogCapacityAssumption DEF OneLapAhead
      <4>2. \A p \in Writers : ticket[p] \in Nat
        BY DEF TypeOK
      <4>3. \A p \in Writers : unstored[p] # {} => READ_HEAD + 1 <= ticket[p]
        BY <4>2, <3>1, <3>2, <2>a DEF OneLapAhead
      <4> QED BY <4>1, <4>3, <2>0, <1>0 DEF OneLapAhead
    <3>4. Written'
      BY <3>1, <2>0, <2>a, <1>0 DEF Written, ToStore, Idx
    <3>5. Unwritten'
      BY <3>1, <2>0, <2>a, <1>0 DEF Unwritten, ToStore, Idx
    <3>6. Copied'
      BY <2>0 DEF Copied
    <3>7. InOrder'
      <4>1. \A n \in 1 .. READ_HEAD + 1 : n \in 1 .. READ_HEAD \/ n = READ_HEAD + 1
        BY <2>a
      <4>2. \A n \in 1 .. READ_HEAD, w \in Words : delivered'[n][w] = n
        BY <3>1, <2>a, <2>b DEF InOrder
      <4> QED BY <4>1, <4>2, <3>2, <2>b DEF InOrder
    <3> QED BY <3>3, <3>4, <3>5, <3>6, <3>7
  <2> QED BY <2>1, <2>2, <2>3, <2>4 DEF CalmInv
<1> QED BY <1>1, <1>2

-----------------------------------------------------------------------------
\* The invariant above holds in every state, for any capacity and writers.
THEOREM LogInvariant == Spec => []LogInv
<1>1. Init => LogInv
  BY InitInv
<1>2. LogInv /\ [Next]_vars => LogInv'
  <2> SUFFICES ASSUME LogInv, [Next]_vars PROVE LogInv'
    OBVIOUS
  <2>1. CASE \E p \in Writers : Push(p)
    BY <2>1, ClaimInv, StoreInv DEF Push
  <2>2. CASE Drain
    BY <2>2, LoopInv, CopyInv, KindInv DEF Drain
  <2>3. CASE UNCHANGED vars
    <3>1. UNCHANGED <<TypeOK, Heads, NoneFromFuture>>
      BY <2>3 DEF vars, TypeOK, Heads, NoneFromFuture
    <3>2. UNCHANGED <<Calm, OneLapAhead, Written, Unwritten, Copied, InOrder>>
      BY <2>3 DEF vars, Calm, OneLapAhead, Written, Unwritten, Copied, InOrder, ToStore, Idx
    <3> QED BY <3>1, <3>2 DEF LogInv, CalmInv
  <2> QED BY <2>1, <2>2, <2>3 DEF Next
<1> QED BY <1>1, <1>2, PTL DEF Spec

\* drain's callback gets the entries whole, once each and in order, under two
\* conditions: the ring is not lapped, and no copy meets a store to its slot or
\* comes before it in a lap after the first.
THEOREM DeliversInOrder == Spec => []OnceInOrder
<1>1. LogInv => OnceInOrder
  BY DEF LogInv, CalmInv, InOrder, OnceInOrder
<1> QED BY <1>1, LogInvariant, PTL

(***************************************************************************)
(* What is left of exclusive slots when copies may race with stores: in    *)
(* the first lap the kind of a slot is Empty until its push stores it, and *)
(* that keeps drain from passing.                                          *)
(***************************************************************************)
FirstKinds ==
    \A t \in Nat :
      t < LOG_CAPACITY /\ (t >= WRITE_HEAD \/ ToStore(t, "lo")) =>
        READ_HEAD <= t /\ ENTRIES[Idx(t)]["lo"] = 0

KindCopied ==
    (pc = "kind" \/ (pc = "copy" /\ "lo" \notin uncopied))
      /\ READ_HEAD < LOG_CAPACITY /\ ToStore(READ_HEAD, "lo") => entry["lo"] = 0

NotLapped ==
    ~lapped => WRITE_HEAD <= READ_HEAD + LOG_CAPACITY /\ FirstKinds /\ KindCopied

LEMMA InitNotLapped == Init => NotLapped
BY IdxInRing, LogCapacityAssumption DEF Init, NotLapped, FirstKinds, KindCopied, EMPTY, Words

LEMMA ClaimNotLapped ==
    ASSUME LogInv, NotLapped, NEW p \in Writers, PushClaim(p) PROVE NotLapped'
<1> SUFFICES ASSUME ~lapped'
             PROVE  WRITE_HEAD' <= READ_HEAD' + LOG_CAPACITY /\ FirstKinds' /\ KindCopied'
  BY DEF NotLapped
<1>0. ~lapped /\ ~(WRITE_HEAD >= READ_HEAD + LOG_CAPACITY)
  BY Zenon DEF PushClaim
<1>1. /\ WRITE_HEAD \in Nat /\ READ_HEAD \in Nat /\ FirstKinds /\ KindCopied
      /\ WRITE_HEAD' = WRITE_HEAD + 1
      /\ UNCHANGED <<ENTRIES, READ_HEAD, pc, entry, uncopied>>
  BY <1>0 DEF NotLapped, LogInv, TypeOK, PushClaim
<1>2. \A t \in Nat : ToStore(t, "lo")' <=> ToStore(t, "lo") \/ t = WRITE_HEAD
  BY DEF LogInv, ToStore, PushClaim, TypeOK, Words
<1>3. FirstKinds'
  BY <1>1, <1>2 DEF FirstKinds, Idx
<1>4. KindCopied'
  <2>1. pc \in {"copy", "kind"} => READ_HEAD # WRITE_HEAD
    BY <1>1 DEF LogInv, Heads
  <2> QED BY <1>1, <1>2, <2>1 DEF KindCopied
<1> QED BY <1>0, <1>1, <1>3, <1>4, LogCapacityAssumption

LEMMA StoreNotLapped ==
    ASSUME LogInv, NotLapped, NEW p \in Writers, NEW v \in Words, PushStore(p, v)
    PROVE  NotLapped'
<1> SUFFICES ASSUME ~lapped'
             PROVE  WRITE_HEAD' <= READ_HEAD' + LOG_CAPACITY /\ FirstKinds' /\ KindCopied'
  BY DEF NotLapped
<1> DEFINE t0 == ticket[p]
<1>1. /\ WRITE_HEAD \in Nat /\ READ_HEAD \in Nat /\ FirstKinds /\ KindCopied
      /\ WRITE_HEAD <= READ_HEAD + LOG_CAPACITY
      /\ t0 \in Nat /\ t0 < WRITE_HEAD /\ Idx(t0) \in Slots /\ v \in unstored[p]
      /\ UNCHANGED <<WRITE_HEAD, READ_HEAD, ticket, pc, entry, uncopied>>
  BY IdxInRing DEF NotLapped, LogInv, TypeOK, Heads, PushStore
<1>2. \A i \in Slots :
        ENTRIES'[i]["lo"] = IF i = Idx(t0) /\ v = "lo" THEN t0 + 1 ELSE ENTRIES[i]["lo"]
  BY <1>1 DEF LogInv, TypeOK, PushStore, Words
<1>3. \A t \in Nat : ToStore(t, "lo")' => ToStore(t, "lo") /\ ~(t = t0 /\ v = "lo")
  BY <1>1 DEF LogInv, ToStore, TypeOK, Heads, PushStore
<1> HIDE DEF t0
<1>4. FirstKinds'
  <2> SUFFICES ASSUME NEW t \in Nat, t < LOG_CAPACITY, t >= WRITE_HEAD \/ ToStore(t, "lo")'
               PROVE  READ_HEAD <= t /\ ENTRIES'[Idx(t)]["lo"] = 0
    BY <1>1 DEF FirstKinds, Idx
  <2>1. READ_HEAD <= t /\ ENTRIES[Idx(t)]["lo"] = 0 /\ Idx(t) \in Slots
    BY <1>1, <1>3, IdxInRing DEF FirstKinds
  <2>2. ASSUME v = "lo", Idx(t) = Idx(t0) PROVE FALSE
    <3>1. t # t0
      BY <1>1, <1>3, <2>2
    <3>2. t < t0 + LOG_CAPACITY /\ t0 < t + LOG_CAPACITY
      BY <1>1, <2>1, LogCapacityAssumption
    <3>3. CASE t <= t0
      BY <1>1, <2>2, <3>1, <3>2, <3>3, OneLap
    <3>4. CASE t0 <= t
      BY <1>1, <2>2, <3>1, <3>2, <3>4, OneLap
    <3> QED BY <1>1, <3>3, <3>4
  <2> QED BY <1>2, <2>1, <2>2
<1>5. KindCopied'
  BY <1>1, <1>3 DEF KindCopied
<1> QED BY <1>1, <1>4, <1>5

LEMMA DrainNotLapped == ASSUME LogInv, NotLapped, Drain PROVE NotLapped'
<1> SUFFICES ASSUME ~lapped'
             PROVE  WRITE_HEAD' <= READ_HEAD' + LOG_CAPACITY /\ FirstKinds' /\ KindCopied'
  BY DEF NotLapped
<1>0. UNCHANGED <<ENTRIES, WRITE_HEAD, ticket, unstored, lapped>>
  BY DEF Drain, DrainCall, DrainLoad, DrainCopy, DrainKind
<1>1. /\ WRITE_HEAD \in Nat /\ READ_HEAD \in Nat /\ FirstKinds /\ KindCopied
      /\ WRITE_HEAD <= READ_HEAD + LOG_CAPACITY
  BY <1>0 DEF NotLapped, LogInv, TypeOK
<1>2. \A t \in Nat : ToStore(t, "lo")' = ToStore(t, "lo")
  BY <1>0 DEF ToStore
<1>3. CASE (\E max \in 0 .. MaxDrain : DrainCall(max)) \/ DrainLoad
  <2>1. READ_HEAD' = READ_HEAD /\ pc' # "kind" /\ (pc' = "copy" => uncopied' = Words)
    BY <1>3 DEF DrainCall, DrainLoad
  <2>2. FirstKinds'
    BY <1>0, <1>1, <1>2, <2>1 DEF FirstKinds, Idx
  <2>3. KindCopied'
    BY <2>1 DEF KindCopied, Words
  <2> QED BY <1>0, <1>1, <2>1, <2>2, <2>3
<1>4. ASSUME NEW v \in Words, DrainCopy(v)
      PROVE  WRITE_HEAD' <= READ_HEAD' + LOG_CAPACITY /\ FirstKinds' /\ KindCopied'
  <2>1. /\ READ_HEAD' = READ_HEAD /\ pc = "copy" /\ uncopied' = uncopied \ {v}
        /\ pc' = IF uncopied' = {} THEN "kind" ELSE "copy"
        /\ entry'["lo"] = IF v = "lo" THEN ENTRIES[Idx(READ_HEAD)]["lo"] ELSE entry["lo"]
    BY <1>4 DEF DrainCopy, LogInv, TypeOK, Words
  <2>2. FirstKinds'
    BY <1>0, <1>1, <1>2, <2>1 DEF FirstKinds, Idx
  <2>3. KindCopied'
    <3> SUFFICES ASSUME pc' = "kind" \/ (pc' = "copy" /\ "lo" \notin uncopied'),
                        READ_HEAD < LOG_CAPACITY, ToStore(READ_HEAD, "lo")
                 PROVE  entry'["lo"] = 0
      BY <1>1, <1>2, <2>1 DEF KindCopied
    <3>1. CASE v = "lo"
      BY <1>1, <2>1, <3>1 DEF FirstKinds
    <3>2. CASE v # "lo"
      <4>1. "lo" \notin uncopied
        BY <2>1, <3>2
      <4> QED BY <1>1, <2>1, <3>2, <4>1 DEF KindCopied
    <3> QED BY <3>1, <3>2
  <2> QED BY <1>0, <1>1, <2>1, <2>2, <2>3
<1>5. CASE DrainKind /\ IsEmpty
  <2>1. READ_HEAD' = READ_HEAD /\ pc' = "idle"
    BY <1>5 DEF DrainKind
  <2>2. FirstKinds'
    BY <1>0, <1>1, <1>2, <2>1 DEF FirstKinds, Idx
  <2> QED BY <1>0, <1>1, <2>1, <2>2 DEF KindCopied
<1>6. CASE DrainKind /\ ~IsEmpty
  <2>1. READ_HEAD' = READ_HEAD + 1 /\ pc = "kind" /\ pc' = "loop" /\ READ_HEAD < WRITE_HEAD
    BY <1>6 DEF DrainKind, LogInv, Heads
  <2>2. ~(READ_HEAD < LOG_CAPACITY /\ ToStore(READ_HEAD, "lo"))
    BY <1>1, <1>6, <2>1 DEF KindCopied, IsEmpty
  <2>3. FirstKinds'
    <3> SUFFICES ASSUME NEW t \in Nat, t < LOG_CAPACITY, t >= WRITE_HEAD \/ ToStore(t, "lo")
                 PROVE  READ_HEAD + 1 <= t /\ ENTRIES[Idx(t)]["lo"] = 0
      BY <1>0, <1>2, <2>1 DEF FirstKinds, Idx
    <3>1. READ_HEAD <= t /\ ENTRIES[Idx(t)]["lo"] = 0
      BY <1>1 DEF FirstKinds
    <3>2. t # READ_HEAD
      BY <1>1, <2>1, <2>2
    <3> QED BY <1>1, <3>1, <3>2
  <2>4. WRITE_HEAD <= READ_HEAD + 1 + LOG_CAPACITY
    BY <1>1, LogCapacityAssumption
  <2> QED BY <1>0, <2>1, <2>3, <2>4 DEF KindCopied
<1> QED BY <1>3, <1>4, <1>5, <1>6 DEF Drain

\* A ring that was never lapped: two pushes in progress share a slot only if drain
\* has overtaken one of them, and in the first lap it overtakes none whose kind
\* is still to be stored, whatever races there are between copies and stores.
THEOREM OvertakenOnly == Spec => []SharedIfOvertaken
<1>1. LogInv /\ NotLapped /\ [Next]_vars => NotLapped'
  <2> SUFFICES ASSUME LogInv, NotLapped, [Next]_vars PROVE NotLapped'
    OBVIOUS
  <2>1. CASE UNCHANGED vars
    BY <2>1 DEF vars, NotLapped, FirstKinds, KindCopied, ToStore, Idx
  <2> QED BY <2>1, ClaimNotLapped, StoreNotLapped, DrainNotLapped DEF Next, Push
<1>2. LogInv /\ NotLapped => SharedIfOvertaken
  <2> SUFFICES ASSUME LogInv, NotLapped, ~lapped, NEW p \in Writers, unstored[p] # {}
               PROVE  /\ ticket[p] < LOG_CAPACITY /\ "lo" \in unstored[p] =>
                           READ_HEAD <= ticket[p]
                      /\ \A q \in Writers \ {p} :
                           unstored[q] # {} /\ Idx(ticket[p]) = Idx(ticket[q]) =>
                             ticket[p] < READ_HEAD \/ ticket[q] < READ_HEAD
    BY DEF SharedIfOvertaken
  <2>1. /\ WRITE_HEAD \in Nat /\ READ_HEAD \in Nat /\ FirstKinds
        /\ WRITE_HEAD <= READ_HEAD + LOG_CAPACITY
        /\ \A q \in Writers : ticket[q] \in Nat /\ (unstored[q] # {} => ticket[q] < WRITE_HEAD)
    BY DEF LogInv, TypeOK, Heads, NotLapped
  <2>2. ticket[p] < LOG_CAPACITY /\ "lo" \in unstored[p] => READ_HEAD <= ticket[p]
    BY <2>1 DEF FirstKinds, ToStore
  <2>3. ASSUME NEW q \in Writers \ {p}, unstored[q] # {}, Idx(ticket[p]) = Idx(ticket[q]),
               READ_HEAD <= ticket[p], READ_HEAD <= ticket[q]
        PROVE  FALSE
    <3>1. ticket[p] # ticket[q]
      BY <2>3 DEF LogInv, Heads
    <3>2. \/ ticket[p] <= ticket[q] /\ ticket[q] < ticket[p] + LOG_CAPACITY
          \/ ticket[q] <= ticket[p] /\ ticket[p] < ticket[q] + LOG_CAPACITY
      BY <2>1, <2>3, LogCapacityAssumption
    <3> QED BY <3>1, <3>2, <2>1, <2>3, OneLap
  <2> QED BY <2>1, <2>2, <2>3
<1> QED BY <1>1, <1>2, InitNotLapped, LogInvariant, PTL DEF Spec

\* READ_HEAD never passes WRITE_HEAD, lapped or not.
THEOREM ReadStaysBehind == Spec => []ReadNeverPasses
<1>1. LogInv => ReadNeverPasses
  BY DEF LogInv, Heads, NoneFromFuture, ReadNeverPasses
<1> QED BY <1>1, LogInvariant, PTL
=============================================================================
