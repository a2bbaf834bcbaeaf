----------------------------- MODULE BoundedFifo -----------------------------
(***************************************************************************)
(* What an EIPC channel promises its endpoints: a first-in first-out queue *)
(* of at most CAP messages.  A send to a full queue is refused and changes *)
(* nothing; a message leaves the queue exactly once, oldest first.         *)
(***************************************************************************)
EXTENDS Naturals, Sequences

CONSTANTS CAP,      \* capacity of the channel
          Ids       \* what identifies a message

VARIABLE queue      \* the messages accepted and not yet handed out

Init == queue = <<>>

Send(id) ==
    /\ Len(queue) < CAP
    /\ queue' = Append(queue, id)

Receive ==
    /\ queue # <<>>
    /\ queue' = Tail(queue)

Next == Receive \/ \E id \in Ids : Send(id)

Spec == Init /\ [][Next]_queue
=============================================================================
