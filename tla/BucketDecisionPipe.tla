------------------------- MODULE BucketDecisionPipe -------------------------
(***************************************************************************)
(* bucket_decision_pipe.v: bucket entries enter a distance pipe of four    *)
(* stages (bucket_cd.v) that cannot be stalled; each leaves it with the    *)
(* decision to issue, defer or skip its bucket (bucket_ib.v), which waits  *)
(* in a FIFO for the consumer.  Since the pipe cannot stop, an entry is    *)
(* accepted only against a credit for a place in the FIFO, held from the   *)
(* edge that accepts the entry to the edge that delivers its decision.     *)
(* The pipe's producer and consumer are not part of the module: on every   *)
(* edge each may or may not be willing.                                    *)
(***************************************************************************)
EXTENDS Naturals, Sequences

CONSTANTS
  Items,         \* bucket entries, with the distances the pipe computes
  Bubble,        \* an empty stage
  FIFO_DEPTH     \* places of the decision FIFO

ASSUME ItemsAssumption ==
  /\ Items \subseteq [bid : Nat, first : BOOLEAN, fdist : Nat, dlb : Nat, d : Nat]
  /\ Bubble \notin Items

(* The module's elaboration checks.  The pointers of the FIFO wrap only at *)
(* a power of two.                                                         *)
ASSUME FifoAssumption ==
  /\ FIFO_DEPTH \in Nat
  /\ FIFO_DEPTH >= 4
  /\ \E k \in 2..FIFO_DEPTH : FIFO_DEPTH = 2^k

VARIABLES
  reserved,          \* credits held
  stage,             \* the four registers of the distance pipe
  mem, wptr, rptr    \* the decision FIFO

vars == <<reserved, stage, mem, wptr, rptr>>

Stages == 1..4

(* bucket_ib *)
Action(item) ==
  IF item.first \/ ~(item.fdist < item.d) THEN "issue"
  ELSE IF item.fdist < item.dlb THEN "skip" ELSE "defer"

Decision(item) == [item |-> item, action |-> Action(item)]
Decisions      == {Decision(item) : item \in Items}

Fifo == INSTANCE SyncFifo WITH Data <- Decisions, DEPTH <- FIFO_DEPTH

MutantInReadyOneMore == reserved <= FIFO_DEPTH

InReady == reserved < FIFO_DEPTH

OutValid == ~Fifo!IsEmpty

Init ==
  /\ reserved = 0
  /\ stage = [i \in Stages |-> Bubble]
  /\ Fifo!Init

MutantCreditsFreedLate(accept, deliver) ==
  IF accept THEN reserved + 1 ELSE IF deliver THEN reserved - 1 ELSE reserved

MutantCreditsNeverFreed(accept, deliver) ==
  IF accept /\ ~deliver THEN reserved + 1 ELSE reserved

(* An edge that both takes and frees a credit leaves their number alone. *)
Credits(accept, deliver) ==
  CASE accept /\ ~deliver -> reserved + 1
    [] deliver /\ ~accept -> reserved - 1
    [] OTHER              -> reserved

(* One clock edge.  offered is the entry at the input, Bubble for none.    *)
(* Every register looks at the others as they were before the edge: a      *)
(* credit freed by this edge is not there for the entry offered to it.     *)
Edge(offered, outReady) ==
  LET accept  == offered # Bubble /\ InReady
      deliver == OutValid /\ outReady
  IN  /\ reserved' = Credits(accept, deliver)
      /\ stage' = [i \in Stages |->
                     IF i > 1 THEN stage[i - 1]
                     ELSE IF accept THEN offered ELSE Bubble]
      /\ Fifo!Edge(stage[4] # Bubble, Decision(stage[4]), deliver)

Reset ==
  /\ reserved' = 0
  /\ stage' = [i \in Stages |-> Bubble]
  /\ Fifo!Reset

EdgeWhen(outReady) == \E offered \in Items \cup {Bubble} : Edge(offered, outReady)

Next == Reset \/ \E outReady \in BOOLEAN : EdgeWhen(outReady)

(* The clock never stops and the consumer is willing again and again. *)
Fairness == WF_vars(EdgeWhen(TRUE))

Spec == Init /\ [][Next]_vars /\ Fairness

(* The same pipe before a consumer that is always willing. *)
StreamNext == Reset \/ EdgeWhen(TRUE)
StreamSpec == Init /\ [][StreamNext]_vars

-----------------------------------------------------------------------------
(* Properties. *)

Valid(i) == IF stage[i] # Bubble THEN 1 ELSE 0

InPipe == Valid(1) + Valid(2) + Valid(3) + Valid(4)

(* Every register holds a value of its type. *)
TypeOK ==
  /\ reserved \in 0..FIFO_DEPTH
  /\ stage \in [Stages -> Items \cup {Bubble}]
  /\ Fifo!TypeOK

(* The credits held are exactly the entries inside, in the pipe or in the  *)
(* FIFO, and never more than the FIFO has places ("reserved credit         *)
(* overflow").                                                             *)
CreditExact ==
  /\ reserved = InPipe + Fifo!Count
  /\ reserved <= FIFO_DEPTH

(* A decision that leaves the pipe, which cannot wait, always finds a free *)
(* place in the FIFO ("credit invariant violated").                        *)
NeverDropped == stage[4] # Bubble => ~Fifo!IsFull

(* The decisions of the entries inside, oldest first. *)
Inside(i) == IF stage[i] = Bubble THEN <<>> ELSE <<Decision(stage[i])>>
InFlight  == Fifo!Contents \o Inside(4) \o Inside(3) \o Inside(2) \o Inside(1)

(* Seen from outside the pipe and its FIFO are one queue of FIFO_DEPTH     *)
(* places: an accepted entry gives one decision, its own, and decisions    *)
(* leave in the order their entries came.                                  *)
BQ == INSTANCE BoundedQueue
        WITH Words <- Decisions, Capacity <- FIFO_DEPTH, queue <- InFlight
ImplementsQueue == BQ!Spec

(* No credit leaks: a producer held back is let in again. *)
Unblocked == ~InReady ~> InReady

(* With a consumer that is always willing the pipe takes an entry on every *)
(* edge (initiation interval one) and no decision waits in the FIFO for    *)
(* more than the edge that shows it: FIFO_DEPTH covers the credits of the  *)
(* four stages, the FIFO's first word and the edge a freed credit is late. *)
FullRate == InReady /\ Fifo!Count <= 1
=============================================================================
