------------------------- MODULE ChunkedPointEngine -------------------------
(***************************************************************************)
(* The point engine of the cycle models.  It takes one issued bucket at a  *)
(* time, cuts it into chunks, and runs each through load, compute and      *)
(* write-back with two slots, one for the even and one for the odd chunks. *)
(* How long a load, a computation or a write takes is left to the caller,  *)
(* who says at each step which of them have ended (moved): the memory is   *)
(* one of several back ends, and answers in any order.                     *)
(*                                                                         *)
(* _slot_owner[s] is the chunk of s that is neither waiting nor done.  The *)
(* DMA queue, the tags and the memory's own requests are non-empty only    *)
(* while such a chunk loads or is written back.                            *)
(***************************************************************************)
EXTENDS BucketedCloud

CONSTANTS
  CHUNK_POINTS,    \* chunk_points
  BUCKET_DEPTH,    \* bucket_fifo_depth
  FAR_DEPTH        \* far_fifo_depth

ASSUME EngineAssumption == {CHUNK_POINTS, BUCKET_DEPTH, FAR_DEPTH} \subseteq Nat \ {0}

VARIABLES
  bucketFifo,      \* issued buckets
  farFifo,         \* their far points
  task,            \* at most one: the decision, its chunks' phases, its best point
  mdt              \* the distance of each point to the samples it was compared with

engine == <<bucketFifo, farFifo, task>>

Phases == {"waiting", "loading", "loaded", "computing", "writing", "done"}

Chunk(b, k) ==
  {p \in Members(b) : /\ PointPtr(b) + k * CHUNK_POINTS <= p
                      /\ p < PointPtr(b) + (k + 1) * CHUNK_POINTS}

MakeChunks(b) ==
  [k \in 0..((Cardinality(Members(b)) + CHUNK_POINTS - 1) \div CHUNK_POINTS - 1) |-> "waiting"]

(* The chunks something is under way for. *)
Pending ==
  IF task = <<>> THEN {}
  ELSE {k \in DOMAIN task[1].phase : task[1].phase[k] \in {"loading", "computing", "writing"}}

-----------------------------------------------------------------------------
(* The parts of a step, on the chunks' phases. *)

HandleCompletions(ph, moved) ==
  [k \in DOMAIN ph |->
     IF k \in moved /\ ph[k] = "loading" THEN "loaded"
     ELSE IF k \in moved /\ ph[k] = "writing" THEN "done"
     ELSE ph[k]]

SlotOwned(ph, slot) ==
  \E k \in DOMAIN ph : k % 2 = slot /\ ph[k] \notin {"waiting", "done"}

(* A free slot loads its next chunk. *)
FillPingpong(ph) ==
  [k \in DOMAIN ph |->
     IF /\ ph[k] = "waiting"
        /\ ~SlotOwned(ph, k % 2)
        /\ \A j \in DOMAIN ph : j < k /\ j % 2 = k % 2 => ph[j] # "waiting"
     THEN "loading" ELSE ph[k]]

(* The computation ends and the first loaded chunk enters the array. *)
AdvanceCompute(ph, moved) ==
  LET written == [k \in DOMAIN ph |->
                    IF k \in moved /\ ph[k] = "computing" THEN "writing" ELSE ph[k]]
      loaded  == {k \in DOMAIN ph : written[k] = "loaded"}
  IN  IF loaded = {} \/ \E k \in DOMAIN ph : written[k] = "computing"
      THEN written
      ELSE [written EXCEPT ![CHOOSE k \in loaded : \A j \in loaded : k <= j] = "computing"]

(* The chunk whose computation ends: its points' distances take in the     *)
(* task's references, and the task's best point is carried on.             *)
Nearest(p, refs) ==
  CHOOSE d \in {mdt[p]} \cup {Dist(cloud, p, refs[i]) : i \in DOMAIN refs} :
    /\ d <= mdt[p]
    /\ \A i \in DOMAIN refs : d <= Dist(cloud, p, refs[i])

BestOf(best, rows) ==
  CHOOSE r \in rows \cup {best} :
    \A s \in rows \cup {best} : r = s \/ Better(r.dist, r.idx, s.dist, s.idx)

Computed(moved) ==
  IF task = <<>> THEN {}
  ELSE UNION {Chunk(task[1].decision.bid, k) :
                k \in {j \in moved : task[1].phase[j] = "computing"}}

Accepts == task = <<>> /\ bucketFifo # <<>>

(* The task after accept, load, compute: as it is when the step looks for  *)
(* its end.                                                                *)
Advanced(moved) ==
  IF Accepts
  THEN LET d == Head(bucketFifo)
       IN  [decision |-> d,
            phase    |-> FillPingpong(MakeChunks(d.bid)),
            best     |-> [dist |-> -1, idx |-> PointPtr(d.bid)]]
  ELSE LET t == task[1]
       IN  [decision |-> t.decision,
            phase    |-> AdvanceCompute(FillPingpong(HandleCompletions(t.phase, moved)), moved),
            best     |-> BestOf(t.best,
                           {[dist |-> Nearest(p, t.decision.refs), idx |-> p] : p \in Computed(moved)})]

MutantFarRoomOneLess == Len(farFifo) + 1 < FAR_DEPTH

FarRoom == Len(farFifo) < FAR_DEPTH

(* A bucket's far point is delivered when its last write-back has ended. *)
Finishes(moved) ==
  /\ task # <<>> \/ Accepts
  /\ \A k \in DOMAIN Advanced(moved).phase : Advanced(moved).phase[k] = "done"
  /\ FarRoom

FarPoint(t) == [bid |-> t.decision.bid, idx |-> t.best.idx, dist |-> t.best.dist]

CanEnqueueBucket == Len(bucketFifo) < BUCKET_DEPTH

(* The queue of issued buckets once the step has taken its own. *)
Unaccepted == IF Accepts THEN Tail(bucketFifo) ELSE bucketFifo

(* One step, in which a far point may be taken and a bucket handed in. *)
PointStep(moved, pops, issued) ==
  /\ mdt' = [p \in Points |-> IF p \in Computed(moved)
                              THEN Nearest(p, task[1].decision.refs) ELSE mdt[p]]
  /\ task' = IF task = <<>> /\ ~Accepts THEN <<>>
             ELSE IF Finishes(moved) THEN <<>> ELSE <<Advanced(moved)>>
  /\ farFifo' = (IF pops THEN Tail(farFifo) ELSE farFifo)
                  \o (IF Finishes(moved) THEN <<FarPoint(Advanced(moved))>> ELSE <<>>)
  /\ bucketFifo' = Unaccepted \o issued

Idle == task' = <<>> /\ Unaccepted = <<>> /\ farFifo' = <<>>
=============================================================================
