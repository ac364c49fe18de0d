-------------------------- MODULE MCEventWorkload ---------------------------
(* EventWorkload on clouds in space and the images made of them. *)
EXTENDS EventWorkload

CONSTANT NP

MCPoints  == 0..NP - 1
MCBuckets == 0..NP - 1
MCInf     == 10000

Flat(xs, ys, zs) == [i \in 1..NP |-> <<xs[i], ys[i], zs[i]>>]

(* Equal coordinates, equal sides and a duplicate point among them. *)
MCInputs ==
  {Flat(<<0, 12, 10, 3, 9, 1, 7, 5, 14>>, <<1, 1, 1, 1, 1, 1, 1, 1, 1>>,  <<2, 2, 2, 2, 2, 2, 2, 2, 2>>),
   Flat(<<4, 4, 9, 9, 4, 9, 1, 7, 4>>,     <<0, 5, 0, 5, 3, 3, 8, 8, 0>>,  <<1, 1, 6, 6, 4, 1, 0, 2, 1>>),
   Flat(<<3, 3, 8, 2, 12, 5, 11, 3, 6>>,   <<7, 1, 9, 4, 4, 0, 13, 7, 10>>, <<2, 9, 5, 5, 0, 14, 3, 2, 7>>)}

MCTargets == {1, 3, 4}

MCClouds == {Preprocess(i, t, n) : i \in MCInputs, t \in MCTargets, n \in BOOLEAN}

MCDist(c, p, q) == Distance2(c.points[p], c.points[q])

MCBucketOf(c, p) ==
  CHOOSE b \in DOMAIN c.buckets : p \in c.buckets[b].ptr..c.buckets[b].ptr + c.buckets[b].count - 1

MCLastBucket(c) == Cardinality(DOMAIN c.buckets) - 1

(* The distance of a point to the bounding box of a bucket. *)
MCGap(c, q, b) ==
  LET box == c.buckets[b].box
      at(a) == LET v == c.points[q][a]
               IN  IF v < box.low[a] THEN box.low[a] - v
                   ELSE IF v > box.high[a] THEN v - box.high[a] ELSE 0
  IN  at(1) * at(1) + at(2) * at(2) + at(3) * at(3)

(* The working set is 36 bytes. *)
MCBuffering == {[mode |-> m, bytes |-> n] : m \in {"auto", "resident"}, n \in {35, 36}}
                 \cup {[mode |-> "streaming", bytes |-> 36]}

MCReadScale  == <<3, 2>>
MCWriteScale == <<1, 1>>
=============================================================================
