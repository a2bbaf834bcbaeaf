-------------------------------- MODULE Vmz --------------------------------
(***************************************************************************)
(* Verified memory zeroing (kernel/src/vmz.rs): a buffer on the heap is    *)
(* filled with a secret, zeroed, verified, reported and, when run_demo     *)
(* returns, given back to the heap whatever the verification said.         *)
(***************************************************************************)
EXTENDS Naturals

CONSTANTS SECRET_LEN,  \* bytes of the buffer
          HeapLen      \* bytes of heap around and under it

ASSUME VmzAssumption == SECRET_LEN \in Nat \ {0} /\ HeapLen \in Nat /\ SECRET_LEN <= HeapLen

VARIABLES
    heap,         \* the bytes of the heap
    buf,          \* offset of the buffer
    step,         \* how far run_demo got
    secret_hash,  \* hash of the buffer before
    report        \* clean, the MEAL entry and the checkpoint line

vmzVars == <<heap, buf, step, secret_hash, report>>

Neighbour == 1                            \* a byte of some other allocation
Secret(i) == (i * 165 + 60) % 256         \* wrapping_mul(0xA5).wrapping_add(0x3C)
Buffer(ptr, len) == ptr .. ptr + len - 1

\* SHA-256 of the buffer, taken as injective on buffers of one length.
Digest(h, ptr) == [i \in 0 .. SECRET_LEN - 1 |-> h[ptr + i]]

\* rep stosb.
ZeroRegion_OneShort(h, ptr, len) ==
    [a \in DOMAIN h |-> IF a \in Buffer(ptr, len - 1) THEN 0 ELSE h[a]]
ZeroRegion(h, ptr, len) == [a \in DOMAIN h |-> IF a \in Buffer(ptr, len) THEN 0 ELSE h[a]]

VerifyZeroed(h, ptr, len) == \A a \in Buffer(ptr, len) : h[a] = 0

-----------------------------------------------------------------------------
NoReport == [clean |-> FALSE, logged |-> FALSE, checkpoint |-> FALSE]

VmzInit ==
    /\ heap = [a \in 0 .. HeapLen - 1 |-> Neighbour]
    /\ buf = 0 /\ step = "start" /\ secret_hash = <<>> /\ report = NoReport

\* The heap places the buffer anywhere.
Fill ==
    /\ step = "start"
    /\ buf' \in 0 .. HeapLen - SECRET_LEN
    /\ heap' = [a \in DOMAIN heap |-> IF a \in Buffer(buf', SECRET_LEN)
                                      THEN Secret(a - buf') ELSE heap[a]]
    /\ secret_hash' = Digest(heap', buf')
    /\ step' = "filled"
    /\ UNCHANGED report

Zero ==
    /\ step = "filled"
    /\ heap' = ZeroRegion(heap, buf, SECRET_LEN)
    /\ step' = "zeroed"
    /\ UNCHANGED <<buf, secret_hash, report>>

\* The entry is written whatever the verification found.
VerifyAndReport ==
    /\ step = "zeroed"
    /\ LET clean == VerifyZeroed(heap, buf, SECRET_LEN)
       IN report' = [clean |-> clean, logged |-> TRUE,
                     checkpoint |-> clean /\ secret_hash # Digest(heap, buf)]
    /\ step' = "freed"
    /\ UNCHANGED <<heap, buf, secret_hash>>

\* run_demo has returned; the heap hands the bytes to other allocations.
VmzReturns ==
    /\ step = "freed"
    /\ heap' = [a \in DOMAIN heap |-> Neighbour]
    /\ buf' = 0 /\ step' = "start" /\ secret_hash' = <<>> /\ report' = NoReport

VmzNext == Fill \/ Zero \/ VerifyAndReport

-----------------------------------------------------------------------------
\* "before the memory returns to the free pool": when the buffer is given back
\* none of its bytes is left from the secret, the allocations on both sides of
\* it are untouched, and the checkpoint that says so was reached.
ZeroedBeforeFreed ==
    step = "freed" =>
      /\ \A a \in 0 .. HeapLen - 1 :
           heap[a] = IF a \in Buffer(buf, SECRET_LEN) THEN 0 ELSE Neighbour
      /\ report = [clean |-> TRUE, logged |-> TRUE, checkpoint |-> TRUE]
=============================================================================
