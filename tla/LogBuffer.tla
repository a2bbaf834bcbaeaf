----------------------------- MODULE LogBuffer -----------------------------
(***************************************************************************)
(* The lock-free log ring (kernel/src/log_buffer.rs): push, "safe from     *)
(* interrupt context", in several contexts at once, and one drain.  They   *)
(* may preempt each other between any two accesses that both can see.      *)
(*                                                                         *)
(* An entry is two words, stored and copied in either order: "lo" has the  *)
(* kind in it, "hi" the rest.  A word names the push that wrote it, by its *)
(* ticket plus one; 0 is LogKind::Empty.  The 64-bit heads do not wrap.    *)
(***************************************************************************)
EXTENDS Naturals, Sequences

CONSTANTS LOG_CAPACITY,
          Writers,     \* contexts that push
          MaxPushes,   \* bound: calls of push
          MaxDrain     \* bound: drain's argument max

ASSUME LogCapacityAssumption == LOG_CAPACITY \in Nat \ {0}
ASSUME LogBoundsAssumption == MaxPushes \in Nat /\ MaxDrain \in Nat

VARIABLES
    ENTRIES, WRITE_HEAD, READ_HEAD,
    ticket,     \* per writer, what its fetch_add returned
    unstored,   \* per writer, the words it has still to store; none between pushes
    pc,         \* where drain is: "idle", "loop", "copy" or "kind"
    budget,     \* max - count
    entry,      \* drain's copy of an entry
    uncopied,   \* the words it has still to copy
    delivered,  \* history: the entries handed to the callback
    lapped,     \* history: a push claimed a slot that was not drained yet
    raced       \* history: a copy met a store to its slot, or came before it

vars == <<ENTRIES, WRITE_HEAD, READ_HEAD, ticket, unstored, pc, budget, entry, uncopied,
          delivered, lapped, raced>>

Words == {"lo", "hi"}
Slots == 0 .. LOG_CAPACITY - 1
EMPTY == [w \in Words |-> 0]

Idx_Clamped(n) == IF n < LOG_CAPACITY THEN n ELSE LOG_CAPACITY - 1
Idx(n) == n % LOG_CAPACITY

Init ==
    /\ ENTRIES = [i \in Slots |-> EMPTY]
    /\ WRITE_HEAD = 0 /\ READ_HEAD = 0
    /\ ticket = [p \in Writers |-> 0] /\ unstored = [p \in Writers |-> {}]
    /\ pc = "idle" /\ budget = 0 /\ entry = EMPTY /\ uncopied = {}
    /\ delivered = <<>> /\ lapped = FALSE /\ raced = FALSE

-----------------------------------------------------------------------------
\* push: WRITE_HEAD.fetch_add(1)
PushClaim(p) ==
    /\ unstored[p] = {} /\ WRITE_HEAD < MaxPushes
    /\ ticket' = [ticket EXCEPT ![p] = WRITE_HEAD]
    /\ unstored' = [unstored EXCEPT ![p] = Words]
    /\ WRITE_HEAD' = WRITE_HEAD + 1
    /\ lapped' = (lapped \/ WRITE_HEAD >= READ_HEAD + LOG_CAPACITY)
    /\ UNCHANGED <<ENTRIES, READ_HEAD, pc, budget, entry, uncopied, delivered, raced>>

\* push: *ENTRIES[idx] = entry, word by word
PushStore(p, w) ==
    /\ w \in unstored[p]
    /\ ENTRIES' = [ENTRIES EXCEPT ![Idx(ticket[p])] =
                     [ENTRIES[Idx(ticket[p])] EXCEPT ![w] = ticket[p] + 1]]
    /\ unstored' = [unstored EXCEPT ![p] = unstored[p] \ {w}]
    /\ raced' = (raced \/ /\ pc = "copy" /\ uncopied # Words
                          /\ Idx(READ_HEAD) = Idx(ticket[p]))
    /\ UNCHANGED <<WRITE_HEAD, READ_HEAD, ticket, pc, budget, entry, uncopied,
                   delivered, lapped>>

DrainCall(max) ==
    /\ pc = "idle"
    /\ pc' = "loop" /\ budget' = max
    /\ UNCHANGED <<ENTRIES, WRITE_HEAD, READ_HEAD, ticket, unstored, entry, uncopied,
                   delivered, lapped, raced>>

Behind_OffByOne == READ_HEAD <= WRITE_HEAD
Behind == READ_HEAD < WRITE_HEAD

\* drain: while count < max, the loads of both heads, r >= w.  READ_HEAD is
\* written by drain alone.
DrainLoad ==
    /\ pc = "loop"
    /\ IF budget > 0 /\ Behind THEN pc' = "copy" /\ uncopied' = Words
                               ELSE pc' = "idle" /\ UNCHANGED uncopied
    /\ UNCHANGED <<ENTRIES, WRITE_HEAD, READ_HEAD, ticket, unstored, budget, entry,
                   delivered, lapped, raced>>

\* The store a copy would race with, or miss: one to the slot that has begun,
\* or that is still to come over an entry of the lap before.
Unsettled(p) ==
    /\ unstored[p] # {} /\ Idx(ticket[p]) = Idx(READ_HEAD)
    /\ unstored[p] # Words \/ ticket[p] >= LOG_CAPACITY

\* drain: let entry = *ENTRIES[idx], word by word
DrainCopy(w) ==
    /\ pc = "copy" /\ w \in uncopied
    /\ entry' = [entry EXCEPT ![w] = ENTRIES[Idx(READ_HEAD)][w]]
    /\ uncopied' = uncopied \ {w}
    /\ pc' = IF uncopied' = {} THEN "kind" ELSE "copy"
    /\ raced' = (raced \/ \E p \in Writers : Unsettled(p))
    /\ UNCHANGED <<ENTRIES, WRITE_HEAD, READ_HEAD, ticket, unstored, budget,
                   delivered, lapped>>

IsEmpty_Never == FALSE
IsEmpty == entry["lo"] = 0

\* drain: an Empty entry ends the loop; otherwise f(entry), READ_HEAD.fetch_add(1)
DrainKind ==
    /\ pc = "kind"
    /\ IF IsEmpty
       THEN pc' = "idle" /\ UNCHANGED <<READ_HEAD, budget, delivered>>
       ELSE /\ delivered' = Append(delivered, entry)
            /\ READ_HEAD' = READ_HEAD + 1
            /\ budget' = budget - 1
            /\ pc' = "loop"
    /\ UNCHANGED <<ENTRIES, WRITE_HEAD, ticket, unstored, entry, uncopied, lapped, raced>>

Push(p) == PushClaim(p) \/ \E w \in Words : PushStore(p, w)
Drain   == (\E max \in 0 .. MaxDrain : DrainCall(max)) \/ DrainLoad
             \/ (\E w \in Words : DrainCopy(w)) \/ DrainKind

Next == (\E p \in Writers : Push(p)) \/ Drain

Spec == Init /\ [][Next]_vars

-----------------------------------------------------------------------------
Calm == ~lapped /\ ~raced

\* drain: as long as pushes stay less than a lap ahead and no copy meets or
\* overtakes the store of its slot, the callback gets the entries whole, once
\* each, in the order of the tickets.  In the first lap the kind Empty is enough
\* to hold drain back from a claimed slot; later an entry of the lap before looks
\* like a new one, hence the condition on copies.
OnceInOrder ==
    Calm => \A n \in 1 .. Len(delivered) : \A w \in Words : delivered[n][w] = n

\* What the ticket counter gives in place of exclusive slots: unless the ring is
\* lapped, of two pushes in progress that share a slot drain has overtaken one,
\* that is, handed out its slot before the push was finished; and in the first
\* lap it overtakes none that has its kind still to store.
SharedIfOvertaken ==
    ~lapped => \A p \in Writers : unstored[p] # {} =>
      /\ ticket[p] < LOG_CAPACITY /\ "lo" \in unstored[p] => READ_HEAD <= ticket[p]
      /\ \A q \in Writers \ {p} :
           unstored[q] # {} /\ Idx(ticket[p]) = Idx(ticket[q]) =>
             ticket[p] < READ_HEAD \/ ticket[q] < READ_HEAD

\* log_buffer.rs:22-23: "no two callers ever get the same slot index
\* simultaneously", here only of a ring that was never lapped.
SlotsExclusive ==
    ~lapped => \A p, q \in Writers :
      p # q /\ unstored[p] # {} /\ unstored[q] # {} => Idx(ticket[p]) # Idx(ticket[q])

\* drain stops at WRITE_HEAD: also when the ring is lapped and copies are torn,
\* READ_HEAD never passes WRITE_HEAD, so that no later push is skipped, and what
\* is handed out has the kind of some entry that was pushed.
ReadNeverPasses ==
    /\ READ_HEAD <= WRITE_HEAD
    /\ \A n \in 1 .. Len(delivered) : delivered[n]["lo"] \in 1 .. WRITE_HEAD
=============================================================================
