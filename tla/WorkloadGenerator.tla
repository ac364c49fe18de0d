------------------------- MODULE WorkloadGenerator -------------------------
(***************************************************************************)
(* Where the workloads of the trace-driven models come from: the sampling  *)
(* algorithm is run bucket by bucket with no timing, and what is decided   *)
(* on each bucket is written down, one list of actions for each iteration. *)
(* A bucket's references are no part of the trace.                         *)
(***************************************************************************)
EXTENDS BucketedCloud, SequencesExt

CONSTANT GENERATOR_CAP     \* merge_buffer_capacity

ASSUME GeneratorAssumption == GENERATOR_CAP \in Nat \ {0}

(* g is the generator in the course of its work. *)
FreshGenerator ==
  [buckets    |-> [b \in BucketIds |-> [far |-> PointPtr(b), dist |-> Inf, merges |-> <<>>]],
   mdt        |-> [p \in Points |-> Inf],
   current    |-> 0,
   actions    |-> <<>>,
   iterations |-> <<>>]

KindOf(g, b) ==
  LET e     == g.buckets[b]
      first == g.iterations = <<>>
  IN  CASE first \/ ~(e.dist < Dist(cloud, e.far, g.current)) -> "issue"
        [] OTHER -> IF e.dist < Gap(cloud, g.current, b) THEN "skip"
                    ELSE IF Len(e.merges) >= GENERATOR_CAP THEN "issue" ELSE "defer"

(* A point's distance to the references and to those it was compared with. *)
Lowered(g, p, refs) == Min({g.mdt[p]} \cup {Dist(cloud, p, refs[i]) : i \in DOMAIN refs})

(* An issued bucket is recomputed with its deferred samples and this one. *)
Refs(g, b) == Append(g.buckets[b].merges, g.current)

Recompute(g, b) ==
  LET refs == Refs(g, b)
      mdt  == [p \in Points |-> IF p \in Members(b) THEN Lowered(g, p, refs) ELSE g.mdt[p]]
      far  == CHOOSE p \in Members(b) : \A q \in Members(b) \ {p} : Better(mdt[p], p, mdt[q], q)
  IN  [g EXCEPT !.mdt = mdt,
                !.buckets[b] = [far |-> far, dist |-> mdt[far], merges |-> <<>>]]

GenerateAction(g, b) ==
  LET kind == KindOf(g, b)
      e    == [g EXCEPT !.actions = Append(@, [bid |-> b, kind |-> kind,
                                               mcnt |-> Len(g.buckets[b].merges),
                                               refs |-> <<>>])]
  IN  CASE kind = "skip"  -> e
        [] kind = "defer" -> [e EXCEPT !.buckets[b].merges = Append(@, g.current)]
        [] kind = "issue" -> Recompute(e, b)

BestBucket(g) ==
  CHOOSE b \in BucketIds : \A o \in BucketIds \ {b} :
    Better(g.buckets[b].dist, g.buckets[b].far, g.buckets[o].dist, g.buckets[o].far)

(* The buckets in the order of their numbers, then the farthest point. *)
GenerateIteration(g) ==
  LET scanned == FoldLeft(GenerateAction, g, [i \in 1..Cardinality(BucketIds) |-> i - 1])
  IN  [scanned EXCEPT
         !.iterations = Append(@, [sampled |-> g.current, actions |-> scanned.actions]),
         !.actions = <<>>,
         !.current = scanned.buckets[BestBucket(scanned)].far]

(* The workload of count samples; the last sample has no iteration. *)
Generate(count) ==
  LET after[n \in 0..count - 1] ==
        IF n = 0 THEN FreshGenerator ELSE GenerateIteration(after[n - 1])
  IN  after[count - 1].iterations

(* What a model accepts for a workload. *)
ValidWorkload(work) ==
  \A n \in DOMAIN work :
    LET actions == work[n].actions
    IN  /\ \A i \in DOMAIN actions : actions[i].bid \in BucketIds /\ actions[i].mcnt >= 0
        /\ IsInjective([i \in DOMAIN actions |-> actions[i].bid])
=============================================================================
