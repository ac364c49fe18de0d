------------------------------ MODULE SyncFifo ------------------------------
(***************************************************************************)
(* sync_fifo.v: a first-word-fall-through FIFO over a memory of DEPTH      *)
(* words, a power of two.  The pointers are one bit wider than an address, *)
(* so they count modulo 2 * DEPTH and their top bit tells full from empty. *)
(* The module is used by itself and, through its operators, as the FIFO of *)
(* other modules.                                                          *)
(***************************************************************************)
EXTENDS Naturals, Sequences

CONSTANTS Data, DEPTH

ASSUME DepthAssumption == DEPTH \in Nat \ {0}

VARIABLES
  mem,           \* the words, uninitialised at power-up
  wptr, rptr     \* the next place to write and to read

vars == <<mem, wptr, rptr>>

Addresses == 0 .. DEPTH - 1
Pointers  == 0 .. 2 * DEPTH - 1

(* A pointer without its top bit, the top bit, and the next pointer. *)
Low(ptr)  == IF ptr < DEPTH THEN ptr ELSE ptr - DEPTH
High(ptr) == ptr >= DEPTH

Incr(ptr) == IF ptr = 2 * DEPTH - 1 THEN 0 ELSE ptr + 1

IsEmpty == wptr = rptr

IsFull == Low(wptr) = Low(rptr) /\ High(wptr) # High(rptr)

ReadData == mem[Low(rptr)]

Init == mem \in [Addresses -> Data] /\ wptr = 0 /\ rptr = 0

(* A clock edge.  A write to a full FIFO and a read of an empty one are    *)
(* ignored; both are decided on the pointers before the edge.              *)
MutantEdgeReadBeforeFull(wen, wdata, ren) ==
  LET doWrite == wen /\ (~IsFull \/ ren)
      doRead  == ren /\ ~IsEmpty
  IN  /\ mem'  = IF doWrite THEN [mem EXCEPT ![Low(wptr)] = wdata] ELSE mem
      /\ wptr' = IF doWrite THEN Incr(wptr) ELSE wptr
      /\ rptr' = IF doRead THEN Incr(rptr) ELSE rptr

Edge(wen, wdata, ren) ==
  LET doWrite == wen /\ ~IsFull
      doRead  == ren /\ ~IsEmpty
  IN  /\ mem'  = IF doWrite THEN [mem EXCEPT ![Low(wptr)] = wdata] ELSE mem
      /\ wptr' = IF doWrite THEN Incr(wptr) ELSE wptr
      /\ rptr' = IF doRead THEN Incr(rptr) ELSE rptr

(* Reset does not touch the words. *)
Reset == wptr' = 0 /\ rptr' = 0 /\ UNCHANGED mem

Next == Reset \/ \E wen, ren \in BOOLEAN, d \in Data : Edge(wen, d, ren)

Spec == Init /\ [][Next]_vars

-----------------------------------------------------------------------------
(* Properties. *)

TypeOK == mem \in [Addresses -> Data] /\ wptr \in Pointers /\ rptr \in Pointers

(* The words between the pointers, oldest first. *)
Count == IF rptr <= wptr THEN wptr - rptr ELSE wptr + 2 * DEPTH - rptr

Place(i) ==
  IF rptr + i < 2 * DEPTH THEN Low(rptr + i) ELSE Low(rptr + i - 2 * DEPTH)

Contents == [i \in 1..Count |-> mem[Place(i - 1)]]

(* The pointers never pass each other: the FIFO holds at most DEPTH words, *)
(* and its full flag is up exactly when it holds that many, so neither is  *)
(* a word overwritten nor a place wasted.                                  *)
FullExactly == Count <= DEPTH /\ (IsFull <=> Count = DEPTH)

(* The memory, the two pointers and the top-bit comparison implement a     *)
(* queue of DEPTH words through any number of wrap-arounds and resets.     *)
BQ == INSTANCE BoundedQueue WITH Words <- Data, Capacity <- DEPTH, queue <- Contents
ImplementsQueue == BQ!Spec
=============================================================================
