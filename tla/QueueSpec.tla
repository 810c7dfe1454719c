------------------------------ MODULE QueueSpec ------------------------------
(***************************************************************************)
(* What the packet queue promises its two users (spec 4.1): a FIFO of at  *)
(* most Capacity items.  An item enters at the tail only while there is   *)
(* room and leaves only from the head; nothing else ever changes it.      *)
(***************************************************************************)
EXTENDS Naturals, Sequences

CONSTANTS
  Capacity,  \* the most items the queue ever holds
  Items      \* what can be queued

VARIABLE q

Init == q = <<>>

Enqueue(m) ==
  /\ Len(q) < Capacity
  /\ q' = Append(q, m)

Dequeue ==
  /\ q # <<>>
  /\ q' = Tail(q)

Next == (\E m \in Items : Enqueue(m)) \/ Dequeue

Spec == Init /\ [][Next]_q
=============================================================================
