---------------------------- MODULE BoundedQueue ----------------------------
(***************************************************************************)
(* What a hardware FIFO promises: words leave in the order they entered,   *)
(* none is lost, repeated or overwritten, and at most Capacity are inside. *)
(* One clock edge may put a word, take a word, or do both; a word is never *)
(* put while the queue is full, not even when one is taken by that edge.   *)
(***************************************************************************)
EXTENDS Naturals, Sequences

CONSTANTS Words, Capacity

VARIABLE queue

Init == queue = <<>>

Put(w) == Len(queue) < Capacity /\ queue' = Append(queue, w)

Take == queue # <<>> /\ queue' = Tail(queue)

PutAndTake(w) ==
  /\ Len(queue) < Capacity
  /\ queue # <<>>
  /\ queue' = Append(Tail(queue), w)

Clear == queue' = <<>>

Next == Take \/ Clear \/ \E w \in Words : Put(w) \/ PutAndTake(w)

Spec == Init /\ [][Next]_queue
=============================================================================
