-------------------------------- MODULE Eipc --------------------------------
(***************************************************************************)
(* The EIPC channel (kernel/src/eipc.rs): a ring of CAP ciphertexts behind *)
(* one lock, the sending endpoint (the loop of run_demo that seals and     *)
(* enqueues) and the receiving endpoint (the loop that dequeues and opens, *)
(* then the tamper test).                                                  *)
(*                                                                         *)
(* CHANNEL.lock() guards a single enqueue or dequeue, so each of them is   *)
(* one step; sealing, logging and opening happen outside the lock.         *)
(* run_demo starts the receiving loop after the sending loop; with         *)
(* `concurrent` the two loops run on two tasks, which is what the lock is  *)
(* for.                                                                    *)
(***************************************************************************)
EXTENDS Naturals, Sequences, FiniteSets

CONSTANTS CAP,        \* slots of the channel (CAP = 4 in eipc.rs)
          MaxSeq,     \* messages the sender seals (3 in run_demo)
          TamperSeq,  \* sequence number of the tamper test (99 in run_demo)
          MaxFlips,   \* bound: corrupted ciphertexts
          None        \* Option::None

ASSUME CapAssumption == CAP \in Nat \ {0}
ASSUME SeqAssumption ==
    /\ MaxSeq \in Nat /\ TamperSeq \in Nat /\ MaxFlips \in Nat
    /\ MaxSeq < TamperSeq

VARIABLES
    slots, head, tail, count,     \* EipcChannel
    concurrent,                   \* the loops run on two tasks
    spc, seq,                     \* sender: where it is, the message at hand
    rpc, msg, received, all_ok,   \* receiver: where it is, and its locals
    flips,                        \* ciphertexts corrupted so far
    audit,                        \* the calls of meal::log: <<event, seq, fate>>
    accepted,                     \* history: sequence numbers enqueued
    delivered                     \* history: <<seq, plaintext>> opened

chan     == <<slots, head, tail, count>>
sender   == <<spc, seq>>
receiver == <<rpc, msg, received, all_ok>>
history  == <<accepted, delivered>>
vars     == <<chan, concurrent, sender, receiver, flips, audit, history>>

-----------------------------------------------------------------------------
(***************************************************************************)
(* Sealing.  ChaCha20-Poly1305 is ideal: a ciphertext determines its key,  *)
(* nonce and plaintext, a tag determines what it authenticates.            *)
(***************************************************************************)
SessionKey == "eipc_session_key"

MakeNonce(n) == <<0, n>>           \* four zero bytes, then the counter

Plaintext(n) == <<"pt", n>>

Encrypt(k, nonce, pt) == [key |-> k, nonce |-> nonce, pt |-> pt, flipped |-> FALSE]
Decrypt(ct) == IF ct.flipped THEN <<"garbled", ct.pt>> ELSE ct.pt
Poly1305(k, nonce, ct) == [key |-> k, nonce |-> nonce, ct |-> ct]

Flip(ct) == [ct EXCEPT !.flipped = TRUE]

Message(n, pt) ==
    LET ct == Encrypt(SessionKey, MakeNonce(n), pt)
    IN [seq |-> n, nonce |-> MakeNonce(n), ct |-> ct,
        tag |-> Poly1305(SessionKey, MakeNonce(n), ct)]

\* A bit of the ciphertext flips.
Corrupted(m) == [m EXCEPT !.ct = Flip(m.ct)]

Messages == {Message(n, Plaintext(n)) : n \in 1 .. MaxSeq}

ASSUME EipcNoneAssumption == None \notin Messages \cup {Corrupted(m) : m \in Messages}

\* chacha20_poly1305_open: the tag first, the plaintext only if it matches.
Opens_Unchecked(m) == TRUE
Opens(m) == m.tag = Poly1305(SessionKey, m.nonce, m.ct)

-----------------------------------------------------------------------------
Slots == 0 .. CAP - 1

Init ==
    /\ slots = [i \in Slots |-> None]
    /\ head = 0 /\ tail = 0 /\ count = 0
    /\ concurrent \in BOOLEAN
    /\ spc = "enqueue" /\ seq = 1
    /\ rpc = "dequeue" /\ msg = None /\ received = 0 /\ all_ok = TRUE
    /\ flips = 0 /\ audit = <<>>
    /\ accepted = <<>> /\ delivered = <<>>

(***************************************************************************)
(* EipcChannel::enqueue and ::dequeue.                                     *)
(***************************************************************************)
NextSlot(i) == (i + 1) % CAP

Full_OffByOne == count > CAP
Full == count >= CAP

Put(m) ==
    /\ slots' = [slots EXCEPT ![tail] = m]
    /\ tail' = NextSlot(tail)
    /\ count' = count + 1
    /\ UNCHANGED head

\* dequeue takes the message out of its slot.
Emptied_Copies == slots
Emptied == [slots EXCEPT ![head] = None]

Take ==
    /\ slots' = Emptied
    /\ head' = NextSlot(head)
    /\ count' = count - 1
    /\ UNCHANGED tail

-----------------------------------------------------------------------------
(***************************************************************************)
(* The sending loop of run_demo: seal, enqueue, log, next message.  The    *)
(* result of enqueue is not looked at: a refused message is logged and     *)
(* skipped like any other.                                                 *)
(***************************************************************************)
\* meal::log writes the entry if try_lock succeeds.  It always does while one task
\* runs; with two, the other may hold the lock and then the entry is lost.
LogEvent(event, n) ==
    \E fate \in {"written", "lost"} :
        /\ fate = "lost" => concurrent
        /\ audit' = Append(audit, <<event, n, fate>>)

Enqueue ==
    /\ spc = "enqueue" /\ seq <= MaxSeq /\ ~Full
    /\ Put(Message(seq, Plaintext(seq)))
    /\ accepted' = Append(accepted, seq)
    /\ spc' = "log"
    /\ UNCHANGED <<concurrent, seq, receiver, flips, audit, delivered>>

EnqueueRefused ==
    /\ spc = "enqueue" /\ seq <= MaxSeq /\ Full
    /\ spc' = "log"
    /\ UNCHANGED <<chan, concurrent, seq, receiver, flips, audit, accepted, delivered>>

LogSend ==
    /\ spc = "log"
    /\ LogEvent("EipcSend", seq)
    /\ spc' = "enqueue"
    /\ seq' = seq + 1
    /\ UNCHANGED <<chan, concurrent, receiver, flips, history>>

SenderDone == spc = "enqueue" /\ seq > MaxSeq

(***************************************************************************)
(* The receiving loop: dequeue until the channel is empty, opening each    *)
(* message outside the lock.                                               *)
(***************************************************************************)
MayReceive_AtOnce == TRUE
MayReceive_WhenFull == Full
MayReceive == concurrent \/ SenderDone

Dequeue ==
    /\ rpc = "dequeue" /\ MayReceive /\ count # 0
    /\ msg' = slots[head]
    /\ Take
    /\ rpc' = "open"
    /\ UNCHANGED <<concurrent, sender, received, all_ok, flips, audit, history>>

DequeueNone ==
    /\ rpc = "dequeue" /\ MayReceive /\ count = 0
    /\ rpc' = "tamper"
    /\ UNCHANGED <<chan, concurrent, sender, msg, received, all_ok, flips, audit, history>>

Open ==
    /\ rpc = "open"
    /\ IF Opens(msg)
       THEN /\ delivered' = Append(delivered, <<msg.seq, Decrypt(msg.ct)>>)
            /\ received' = received + 1
            /\ LogEvent("EipcReceive", msg.seq)
            /\ UNCHANGED all_ok
       ELSE /\ all_ok' = FALSE
            /\ UNCHANGED <<delivered, received, audit>>
    /\ msg' = None
    /\ rpc' = "dequeue"
    /\ UNCHANGED <<chan, concurrent, sender, flips, accepted>>

\* Section 4 of run_demo: a message sealed, corrupted and opened on the spot.
TamperTest ==
    /\ rpc = "tamper"
    /\ LET pt == <<"pt", "tamper_test">>
           m  == Message(TamperSeq, pt)
       IN all_ok' = (all_ok /\ ~Opens(Corrupted(m)))
    /\ rpc' = "end"
    /\ UNCHANGED <<chan, concurrent, sender, msg, received, flips, audit, history>>

\* A bit of a queued ciphertext flips while the kernel holds it.
CorruptSlot(i) ==
    /\ flips < MaxFlips
    /\ slots[i] # None
    /\ slots' = [slots EXCEPT ![i] = Corrupted(slots[i])]
    /\ flips' = flips + 1
    /\ UNCHANGED <<head, tail, count, concurrent, sender, receiver, audit, history>>

Sender   == Enqueue \/ EnqueueRefused \/ LogSend
Receiver == Dequeue \/ DequeueNone \/ Open \/ TamperTest

Next == Sender \/ Receiver \/ \E i \in Slots : CorruptSlot(i)

Spec == Init /\ [][Next]_vars

\* Both loops are straight-line code: each keeps taking the steps it can take.
FairSpec == Spec /\ WF_vars(Sender) /\ WF_vars(Receiver)

-----------------------------------------------------------------------------
(***************************************************************************)
(* Properties.                                                             *)
(***************************************************************************)

\* enqueue and dequeue together: exactly the `count` slots from head on are
\* occupied, and tail is where they end.  No ciphertext lingers in a slot that
\* was handed out, none is overwritten before it is.
RingWellFormed ==
    /\ tail = (head + count) % CAP
    /\ \A i \in Slots : slots[(head + i) % CAP] # None <=> i < count

\* The messages in the ring, oldest first.
InFlight == [i \in 1 .. count |-> slots[(head + i - 1) % CAP].seq]

\* The channel is a bounded FIFO of the messages it accepted.
Fifo == INSTANCE BoundedFifo WITH Ids <- 1 .. MaxSeq, queue <- InFlight
IsBoundedFifo == Fifo!Spec

\* What was delivered was accepted, in the order sent, once, with the plaintext
\* that was sent: no corrupted or reordered message comes out of open.
DeliveredInOrder ==
    /\ \A i \in DOMAIN delivered :
         /\ delivered[i][2] = Plaintext(delivered[i][1])
         /\ \E j \in DOMAIN accepted : accepted[j] = delivered[i][1]
    /\ \A i, j \in DOMAIN delivered : i < j => delivered[i][1] < delivered[j][1]

\* The audit log: an EipcReceive entry is of a message that open has accepted, and
\* its EipcSend entry is in the log before it.  When the loops run on two tasks
\* that entry may come later, may still be the sender's next step, or may be one
\* that meal::log lost.
SendAuditedFirst ==
    \A i \in DOMAIN audit : \A n \in 1 .. MaxSeq :
      audit[i] = <<"EipcReceive", n, "written">> =>
        /\ \E k \in DOMAIN delivered : delivered[k][1] = n
        /\ \/ \E j \in DOMAIN audit : audit[j] = <<"EipcSend", n, "written">> /\ (j < i \/ concurrent)
           \/ concurrent /\ \E j \in DOMAIN audit : audit[j] = <<"EipcSend", n, "lost">>
           \/ concurrent /\ spc = "log" /\ seq = n

\* The receiving loop, which only an empty channel ends, does end.  When it
\* follows the sending loop it leaves the channel empty, and if nothing was
\* corrupted it has opened every message the channel had room for (the
\* checkpoint of run_demo: all_ok && received == 3).
ReceiverFinishes ==
    <>(/\ rpc = "end"
       /\ ~concurrent => count = 0
       /\ ~concurrent /\ flips = 0 =>
            all_ok /\ received = IF MaxSeq <= CAP THEN MaxSeq ELSE CAP)
=============================================================================
