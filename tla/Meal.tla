-------------------------------- MODULE Meal --------------------------------
(***************************************************************************)
(* The MEAL audit log, kernel/src/meal.rs: a ring of the last CAPACITY     *)
(* entries, each carrying the hash of its predecessor and a MAC over its   *)
(* fields, behind a spin lock that log() only tries.  The callers are the  *)
(* kernel's threads and exception handlers; any of them can be preempted   *)
(* while it holds the lock.  The boot report of main.rs takes the lock     *)
(* with lock() and runs verify_chain.                                      *)
(*                                                                         *)
(* SHA-256 and HMAC are symbolic: equal results mean equal inputs.  The    *)
(* event type, the actor and the two values of an entry are one payload.   *)
(***************************************************************************)
EXTENDS Integers, Sequences, FiniteSets, FiniteSetsExt

CONSTANTS CAPACITY,
          Callers,   \* threads and handlers that call log()
          Payloads,  \* (event_type, actor, value_a, value_b)
          MaxTotal,  \* bound on appended entries
          MaxLost,   \* bound on events that find the lock taken
          MaxTicks,  \* bound on timer ticks
          None

Ring == 0 .. CAPACITY - 1

ASSUME CapacityAssumption == CAPACITY \in Nat \ {0}
ASSUME BoundsAssumption   == MaxTotal \in Nat /\ MaxLost \in Nat /\ MaxTicks \in Nat
ASSUME CallersAssumption  == None \notin Callers

VARIABLES
    entries, write_head, total, chain_tip,  \* struct MealLog
    TICKS,
    lock,      \* who holds MEAL: a caller, or None
    pending,   \* the payload the holder is appending, or None when it verifies
    report,    \* the last answer of verify_chain printed by the boot report
    log,       \* history: every entry ever appended, in order
    lost       \* history: events dropped because the lock was taken

logvars == <<entries, write_head, total, chain_tip, log>>
vars == <<entries, write_head, total, chain_tip, TICKS, lock, pending, report, log, lost>>

Sha256(b)  == <<"sha256", b>>
Hmac(b)    == <<"hmac", b>>
Genesis    == Sha256(<<"AXIOM-MEAL-GENESIS-v4">>)

\* AuditEntry::auth_bytes: every field but the MAC.
AuthBytes(e) == <<e.sequence, e.timestamp, e.payload, e.prev_hash>>

SelfHash(e) == Sha256(AuthBytes(e))

\* An empty slot of the ring.
NoEntry == <<>>

\* The fields of a new entry; append computes the MAC over them.
Fields_GenesisLink(payload) ==
    [sequence |-> total, timestamp |-> TICKS, payload |-> payload, prev_hash |-> Genesis]

Fields_SlotAsSequence(payload) ==
    [sequence |-> write_head, timestamp |-> TICKS, payload |-> payload,
     prev_hash |-> chain_tip]

Fields(payload) ==
    [sequence |-> total, timestamp |-> TICKS, payload |-> payload, prev_hash |-> chain_tip]

Sealed(f) ==
    [sequence |-> f.sequence, timestamp |-> f.timestamp, payload |-> f.payload,
     prev_hash |-> f.prev_hash, mac |-> Hmac(AuthBytes(f))]

-----------------------------------------------------------------------------
(***************************************************************************)
(* verify_chain on the ring es read from slot head on: empty slots are     *)
(* skipped; an entry is good if its MAC is and, when an entry was seen     *)
(* before, if it names that one's hash.  The answer is the number of       *)
(* entries up to the first bad one and whether there is none.              *)
(***************************************************************************)
At(es, head, i) == es[(head + i) % CAPACITY]

Present(es, head) == {i \in Ring : At(es, head, i) # NoEntry}

VerifyEntry(e) == e.mac = Hmac(AuthBytes(e))

LinkOk_Always(es, head, i) == TRUE
LinkOk(es, head, i) ==
    LET before == {j \in Present(es, head) : j < i}
    IN before # {} => At(es, head, i).prev_hash = SelfHash(At(es, head, Max(before)))

Bad(es, head) ==
    {i \in Present(es, head) : ~(VerifyEntry(At(es, head, i)) /\ LinkOk(es, head, i))}

VerifyChain(es, head) ==
    IF Bad(es, head) = {}
    THEN <<Cardinality(Present(es, head)), TRUE>>
    ELSE <<Cardinality({i \in Present(es, head) : i < Min(Bad(es, head))}), FALSE>>

-----------------------------------------------------------------------------
Init ==
    /\ entries = [i \in Ring |-> NoEntry]
    /\ write_head = 0
    /\ total = 0
    /\ chain_tip = Genesis
    /\ TICKS = 0
    /\ lock = None
    /\ pending = None
    /\ report = None
    /\ log = <<>>
    /\ lost = 0

Timer ==
    /\ TICKS < MaxTicks
    /\ TICKS' = TICKS + 1
    /\ UNCHANGED <<logvars, lock, pending, report, lost>>

TryLock == lock = None

\* log(): try_lock succeeds ...
LogTakesLock(c, payload) ==
    /\ TryLock
    /\ total < MaxTotal
    /\ lock' = c
    /\ pending' = payload
    /\ UNCHANGED <<logvars, TICKS, report, lost>>

\* ... or finds the lock taken, by another caller, and the event is dropped.
LogDrops(c) ==
    /\ ~TryLock
    /\ lock # c
    /\ lost < MaxLost
    /\ lost' = lost + 1
    /\ UNCHANGED <<logvars, TICKS, lock, pending, report>>

NextHead_NoWrap(h) == IF h + 1 < CAPACITY THEN h + 1 ELSE h
NextHead(h) == (h + 1) % CAPACITY

\* MealLog::append, and the guard dropped at the end of log().
MealAppend(c) ==
    /\ lock = c
    /\ pending # None
    /\ LET e == Sealed(Fields(pending))
       IN /\ chain_tip' = SelfHash(e)
          /\ entries' = [entries EXCEPT ![write_head] = e]
          /\ log' = Append(log, e)
    /\ write_head' = NextHead(write_head)
    /\ total' = total + 1
    /\ lock' = None
    /\ pending' = None
    /\ UNCHANGED <<TICKS, report, lost>>

\* The boot report: MEAL.lock(), held while the chain is verified and printed ...
ReportTakesLock(c) ==
    /\ lock = None
    /\ lock' = c
    /\ UNCHANGED <<logvars, TICKS, pending, report, lost>>

\* ... and released.
Report(c) ==
    /\ lock = c
    /\ pending = None
    /\ report' = VerifyChain(entries, write_head)
    /\ lock' = None
    /\ UNCHANGED <<logvars, TICKS, pending, lost>>

Next ==
    \/ Timer
    \/ \E c \in Callers :
         \/ \E p \in Payloads : LogTakesLock(c, p)
         \/ LogDrops(c)
         \/ MealAppend(c)
         \/ ReportTakesLock(c)
         \/ Report(c)

Spec == Init /\ [][Next]_vars

-----------------------------------------------------------------------------
\* The log's fields keep their types; the ring holds nothing that was not appended.
TypeOK ==
    /\ entries \in [Ring -> {log[n] : n \in 1 .. Len(log)} \cup {NoEntry}]
    /\ write_head \in Ring
    /\ total = Len(log)
    /\ total \in 0 .. MaxTotal
    /\ TICKS \in 0 .. MaxTicks
    /\ lock \in Callers \cup {None}
    /\ pending \in Payloads \cup {None}
    /\ lost \in 0 .. MaxLost

(***************************************************************************)
(* Read from write_head on, the ring is the last CAPACITY entries appended *)
(* in the order of append, after empty slots if there were fewer: what     *)
(* print_all prints and verify_chain reads, also when append wrapped.      *)
(***************************************************************************)
RingHoldsLatest ==
    \A i \in Ring : At(entries, write_head, i) =
        IF total + i >= CAPACITY THEN log[total + i - CAPACITY + 1] ELSE NoEntry

(***************************************************************************)
(* verify_chain accepts the log the kernel wrote, after any number of      *)
(* appends by any callers, and counts every entry still in the ring.       *)
(***************************************************************************)
ChainVerifies ==
    VerifyChain(entries, write_head) = <<Min({total, CAPACITY}), TRUE>>

\* "seq_n > seq_{n-1}": sequence numbers count from 0 without gaps, time never runs back.
LogOrdered ==
    \A n \in 1 .. Len(log) :
        /\ log[n].sequence = n - 1
        /\ log[n].timestamp <= TICKS
        /\ \A m \in 1 .. n : log[m].timestamp <= log[n].timestamp

(***************************************************************************)
(* What verify_chain finds in a ring that differs from the one written:    *)
(* an entry whose payload changed, two entries exchanged, an entry missing *)
(* between two others.                                                     *)
(***************************************************************************)
Rejected(es) == VerifyChain(es, write_head)[2] = FALSE

ChangesDetected ==
    LET full == {i \in Ring : entries[i] # NoEntry}
        scan == Present(entries, write_head)
    IN /\ \A i \in full : \A p \in Payloads \ {entries[i].payload} :
              Rejected([entries EXCEPT ![i].payload = p])
       /\ \A i \in full : \A j \in full \ {i} :
              Rejected([entries EXCEPT ![i] = entries[j], ![j] = entries[i]])
       /\ \A k \in scan : (\E a \in scan : a < k) /\ (\E b \in scan : k < b)
              => Rejected([entries EXCEPT ![(write_head + k) % CAPACITY] = NoEntry])
=============================================================================
