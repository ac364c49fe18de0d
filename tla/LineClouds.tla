----------------------------- MODULE LineClouds -----------------------------
(***************************************************************************)
(* Small point clouds for TLC.  A cloud places its points on a line and    *)
(* cuts their indices into consecutive buckets.                            *)
(***************************************************************************)
EXTENDS Naturals

CONSTANTS
  NP,            \* number of points
  NB,            \* number of buckets
  Coordinates    \* places a point may have on the line

MCPoints  == 0..NP - 1
MCBuckets == 0..NB - 1
MCOrigin  == NP
MCInf     == 10000

Place(c, q) == IF q = MCOrigin THEN 0 ELSE c.x[q]

MCDist(c, p, q) ==
  LET a == Place(c, p)
      b == Place(c, q)
  IN  IF a < b THEN (b - a) * (b - a) ELSE (a - b) * (a - b)

MCBucketOf(c, p) == c.bucket[p]
MCLastBucket(c)  == c.bucket[NP - 1]

(* The bounding box of a bucket on the line. *)
MCGap(c, q, b) ==
  LET xs == {c.x[p] : p \in {r \in MCPoints : c.bucket[r] = b}}
      v  == c.x[q]
      g  == IF xs = {} THEN 0
            ELSE LET lo == CHOOSE x \in xs : \A y \in xs : x <= y
                     hi == CHOOSE x \in xs : \A y \in xs : y <= x
                 IN  IF v < lo THEN lo - v ELSE IF v > hi THEN v - hi ELSE 0
  IN  g * g

Cuts(last) ==
  {f \in [MCPoints -> 0..last] :
     /\ f[0] = 0 /\ f[NP - 1] = last
     /\ \A p \in 0..NP - 2 : f[p + 1] \in {f[p], f[p] + 1}}

(* Every cloud of NP points, cut in every way into NB buckets. *)
AllClouds ==
  {[x |-> x, bucket |-> f] : x \in [MCPoints -> Coordinates], f \in Cuts(NB - 1)}

(* Clouds of seven points in three buckets whose jobs of six samples skip, *)
(* defer, skip a bucket with pending merges, issue one with pending merges *)
(* and issue one because its two merge slots are used up; a lost merge     *)
(* would change the samples.                                               *)
Line(xs, bs) == [x |-> [p \in 0..6 |-> xs[p + 1]], bucket |-> [p \in 0..6 |-> bs[p + 1]]]

BusyClouds ==
  {Line(<<0, 12, 10, 3, 9, 1, 7>>,    <<0, 0, 1, 1, 1, 2, 2>>),
   Line(<<0, 9, 1, 13, 3, 10, 11>>,   <<0, 0, 1, 1, 2, 2, 2>>),
   Line(<<15, 0, 10, 4, 13, 14, 12>>, <<0, 0, 1, 2, 2, 2, 2>>),
   Line(<<14, 15, 4, 7, 9, 11, 6>>,   <<0, 0, 0, 1, 2, 2, 2>>)}

(* Clouds of one, two and three buckets. *)
MixedClouds ==
  {Line(<<11, 1, 12, 5, 2, 9, 3>>, <<0, 0, 1, 1, 2, 2, 2>>),
   Line(<<11, 1, 12, 5, 2, 9, 3>>, <<0, 0, 1, 1, 1, 1, 1>>),
   Line(<<4, 0, 2, 9, 1, 5, 3>>,   <<0, 0, 0, 0, 0, 0, 0>>)}
=============================================================================
