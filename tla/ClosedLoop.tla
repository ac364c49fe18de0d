----------------------------- MODULE ClosedLoop -----------------------------
(***************************************************************************)
(* The closed-loop cycle model: a driver that, once per cycle, steps the   *)
(* point engine and then the bucket scheduler, and carries issued buckets  *)
(* and far points between them.  What the scheduler is told about the      *)
(* queues is what they held before the point engine's step; whether the    *)
(* engine is idle is asked after it.                                       *)
(***************************************************************************)
EXTENDS NativeScheduler, ChunkedPointEngine

CONSTANTS
  Reload(_),       \* the clouds a later model may be built from (a bound)
  SampleCounts,    \* the sample counts asked for (a bound)
  FirstSamples     \* the first samples given (a bound)

ASSUME ReloadAssumption == \A c \in Clouds : Reload(c) \subseteq Clouds

(* What the constructor of the model accepts. *)
ASSUME CountsAssumption ==
  /\ SampleCounts \subseteq 1..Cardinality(Points)
  /\ FirstSamples \subseteq Points

VARIABLES
  status,          \* what has been done with the model
  samples          \* sampled_indices

vars == <<cloud, goal, scheduler, engine, mdt, status, samples>>

Statuses == {"none", "built", "running", "ended", "returned"}

(* What a run leaves of the model's own state: nothing. *)
Discarded ==
  /\ status' = "none" /\ samples' = <<>>
  /\ table' = <<>> /\ current' = 0 /\ sampledCount' = 0 /\ done' = FALSE
  /\ pos' = 0 /\ outstanding' = 0 /\ cooldown' = 0
  /\ fetching' = <<>> /\ fetched' = <<>> /\ cd' = <<>> /\ decided' = <<>>
  /\ writebacks' = <<>>
  /\ bucketFifo' = <<>> /\ farFifo' = <<>> /\ task' = <<>>
  /\ UNCHANGED <<cloud, goal, mdt>>

Init ==
  /\ cloud \in Clouds /\ goal \in SampleCounts
  /\ mdt = [p \in Points |-> Inf]
  /\ status = "none" /\ samples = <<>>
  /\ table = <<>> /\ current = 0 /\ sampledCount = 0 /\ done = FALSE
  /\ pos = 0 /\ outstanding = 0 /\ cooldown = 0
  /\ fetching = <<>> /\ fetched = <<>> /\ cd = <<>> /\ decided = <<>>
  /\ writebacks = <<>>
  /\ bucketFifo = <<>> /\ farFifo = <<>> /\ task = <<>>

(* A model is built on a copy of an image as the preprocessor left it. *)
Build ==
  /\ status = "none"
  /\ status' = "built"
  /\ cloud' \in Reload(cloud) /\ goal' \in SampleCounts
  /\ mdt' = [p \in Points |-> Inf]
  /\ UNCHANGED <<scheduler, engine, samples>>

(* A run of one sample needs no scheduler and makes none. *)
Run ==
  /\ status = "built"
  /\ \E first \in FirstSamples :
       /\ samples' = <<first>>
       /\ IF goal = 1
          THEN status' = "ended" /\ UNCHANGED scheduler
          ELSE status' = "running" /\ Create(first)
  /\ UNCHANGED <<cloud, goal, engine, mdt>>

(* One cycle, in which the loads, computations and writes moved end. *)
CycleWith(moved) ==
  LET ready == CanEnqueueBucket
      far   == IF farFifo = <<>> THEN <<>> ELSE <<Head(farFifo)>>
  IN  /\ status = "running"
      /\ PointStep(moved, far # <<>>, Issued(ready))
      /\ Step(ready, far, Idle)
      /\ samples' = IF sampledCount' = sampledCount THEN samples
                    ELSE Append(samples, current')
      /\ status' = IF done' THEN "ended" ELSE "running"
      /\ UNCHANGED <<cloud, goal>>

Cycle == \E moved \in SUBSET Pending : CycleWith(moved)

(* The run gives up when max_cycles have passed: at any point of it here. *)
TimeOut == status = "running" /\ Discarded

(* The samples are returned, if there are as many as were asked for. *)
Return ==
  /\ status = "ended" /\ Len(samples) = goal
  /\ status' = "returned"
  /\ UNCHANGED <<cloud, goal, scheduler, engine, mdt, samples>>

Discard == status = "returned" /\ Discarded

Next == Build \/ Run \/ Cycle \/ TimeOut \/ Return \/ Discard

(* The driver's loop goes on, and whatever the point engine has under way  *)
(* ends some time: the memory answers.                                     *)
ChunkIds == 0..Cardinality(Points) - 1

Moves(k) == \E moved \in SUBSET Pending : k \in moved /\ CycleWith(moved)

Fairness ==
  /\ WF_vars(Cycle)
  /\ \A k \in ChunkIds : WF_vars(Moves(k))

Spec == Init /\ [][Next]_vars /\ Fairness

-----------------------------------------------------------------------------
(* Properties. *)

Items(q) == {q[i].item : i \in DOMAIN q}
Elements(q) == {q[i] : i \in DOMAIN q}

(* The buckets issued and not yet written back, in the order of their way. *)
InService ==
  [i \in DOMAIN writebacks |-> writebacks[i].item.bid]
    \o [i \in DOMAIN farFifo |-> farFifo[i].bid]
    \o (IF task = <<>> THEN <<>> ELSE <<task[1].decision.bid>>)
    \o [i \in DOMAIN bucketFifo |-> bucketFifo[i].bid]

Undecided == Items(fetching) \cup Elements(fetched)
Waiting   == Items(cd) \cup Elements(decided)

(* outstanding_ counts the buckets on their way through the point engine,  *)
(* each of them is there once, and none of them is still to be decided in  *)
(* this iteration (quickfps_bucket_scheduler.cpp, "native writeback        *)
(* committed without an outstanding bucket").  None is handed to a FIFO    *)
(* that is full.                                                           *)
OutstandingExact ==
  /\ Len(bucketFifo) <= BUCKET_DEPTH /\ Len(farFifo) <= FAR_DEPTH
  /\ outstanding = Len(InService)
  /\ Cardinality(Elements(InService)) = Len(InService)
  /\ Elements(InService) \cap (Undecided \cup {d.bid : d \in Waiting}) = {}

(* What a decision was made from still holds when it is carried out: it is *)
(* about the current sample, the bucket's deferred samples are those it    *)
(* counted and refers to, a deferral still finds room ("defer exceeded     *)
(* native merge-buffer capacity"), and the decision FIFO has room for all  *)
(* that is in the distance unit ("credit invariant failed").               *)
DecisionsStand ==
  /\ \A d \in Waiting :
       LET merges == table[d.bid].merges
       IN  /\ d.sample = current
           /\ d.mcnt = Len(merges)
           /\ d.kind = "issue" => d.refs = Append(merges, current)
           /\ d.kind = "defer" => Len(merges) < MERGE_CAP
  /\ Len(cd) + Len(decided) <= DECISION_DEPTH
  /\ Len(fetching) + Len(fetched) <= DECISION_DEPTH

(* m is the distance of p to the nearest of the samples. *)
IsNearest(p, m) ==
  /\ \A i \in DOMAIN samples : m <= Dist(cloud, p, samples[i])
  /\ \E i \in DOMAIN samples : m = Dist(cloud, p, samples[i])

(* A far point on its way back is exact: every point of its bucket has its *)
(* distance to the samples so far, deferred and skipped ones included, and *)
(* the far point is the farthest of them, the smallest index among equals, *)
(* whatever order the chunks came in.                                      *)
FarPointsExact ==
  \A r \in Items(writebacks) \cup Elements(farFifo) :
    /\ r.idx \in Members(r.bid) /\ r.dist = mdt[r.idx]
    /\ \A p \in Members(r.bid) :
         /\ IsNearest(p, mdt[p])
         /\ p # r.idx => mdt[p] < r.dist \/ (mdt[p] = r.dist /\ r.idx < p)

(* A run ends: no queue waits for ever on another (the driver's loop would *)
(* only end at max_cycles).                                                *)
RunEnds == status = "running" ~> status # "running"

(* The cycle model delivers the samples of the definition, however long    *)
(* the memory takes (CLOSED_LOOP_SIMULATOR.md, "the CLI compares the       *)
(* dynamically generated sequence").                                       *)
FPS == INSTANCE FarthestPoint WITH sampled <- samples, finished <- status = "returned"
ExactSampling == FPS!Spec
=============================================================================
