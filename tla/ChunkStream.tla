----------------------------- MODULE ChunkStream -----------------------------
(***************************************************************************)
(* What streaming a bucket through two on-chip slots promises.  The bucket *)
(* is cut into chunks.  Each is loaded, then computed, then written back,  *)
(* in order and exactly once; the stages of different chunks overlap, but  *)
(* no more than two chunks are on chip.  The bucket is reported done with  *)
(* the write-back of its last chunk, and only then is another taken.       *)
(***************************************************************************)
EXTENDS Naturals

CONSTANT Totals      \* numbers of chunks a bucket may have

VARIABLES
  total,                       \* chunks of the current bucket
  loaded, computed, written,   \* how many of them passed each stage
  done                         \* the current bucket has just been finished

vars == <<total, loaded, computed, written, done>>

Slots == 2

Init == total = 0 /\ loaded = 0 /\ computed = 0 /\ written = 0 /\ done = FALSE

(* A bucket without points is done at once. *)
Accept ==
  /\ written = total
  /\ total' \in Totals
  /\ loaded' = 0 /\ computed' = 0 /\ written' = 0
  /\ done' = (total' = 0)

(* One step may advance every stage by a chunk, each on what the stage     *)
(* before it had finished.  A slot is free again when it was written back. *)
Advance ==
  /\ loaded' \in {loaded, loaded + 1} /\ loaded' <= total
  /\ computed' \in {computed, computed + 1} /\ computed' <= loaded
  /\ written' \in {written, written + 1} /\ written' <= computed
  /\ loaded' <= written + Slots
  /\ done' = (written # total /\ written' = total)
  /\ UNCHANGED total

Abort ==
  /\ total' = 0 /\ loaded' = 0 /\ computed' = 0 /\ written' = 0
  /\ done' = FALSE

Next == Accept \/ Advance \/ Abort

Spec == Init /\ [][Next]_vars
=============================================================================
