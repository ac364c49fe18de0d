---------------------------- MODULE KdPreprocess ----------------------------
(***************************************************************************)
(* The host preprocessor and the files it leaves for the models.  The      *)
(* input is a finite sequence of points in space; the image has them       *)
(* reordered so that each bucket, a leaf of a tree of median splits, is a  *)
(* contiguous range.                                                       *)
(*                                                                         *)
(* Coordinates are integers.  Normalisation moves the cloud to the origin  *)
(* and divides it by its longest side: the division is a change of unit    *)
(* and is left out, with the rounding it brings.  The order of the points  *)
(* inside a leaf is unspecified until the leaf is sorted, and nothing      *)
(* reads it before: a leaf is a set.                                       *)
(***************************************************************************)
EXTENDS Integers, FiniteSets, SequencesExt

CONSTANTS
  NUMP_W,          \* width of the point count in a bucket's entry
  PIDX_W           \* width of the far point's index in it

ASSUME WidthsAssumption == {NUMP_W, PIDX_W} \subseteq Nat \ {0}

Axes == 1..3

Least(S)    == CHOOSE x \in S : \A y \in S : x <= y
Greatest(S) == CHOOSE x \in S : \A y \in S : y <= x

(* compute_bounds *)
Bounds(points, ids) ==
  LET on(a) == {points[i][a] : i \in ids}
  IN  [low  |-> <<Least(on(1)), Least(on(2)), Least(on(3))>>,
       high |-> <<Greatest(on(1)), Greatest(on(2)), Greatest(on(3))>>]

Side(bounds, a) == bounds.high[a] - bounds.low[a]

(* The longest side, the first of equal ones. *)
SplitDimension(bounds) ==
  CHOOSE a \in Axes : \A o \in Axes : \/ Side(bounds, o) < Side(bounds, a)
                                      \/ Side(bounds, o) = Side(bounds, a) /\ a <= o

Normalized(points) ==
  LET corner == Bounds(points, DOMAIN points).low
      moved(p) == <<p[1] - corner[1], p[2] - corner[2], p[3] - corner[3]>>
  IN  [i \in DOMAIN points |-> moved(points[i])]

-----------------------------------------------------------------------------
(* The largest leaf is split first, of equal ones that with the longest    *)
(* side, of those the first.                                               *)
Extent(points, ids) ==
  LET bounds == Bounds(points, ids) IN Side(bounds, SplitDimension(bounds))

SplitBefore(points, leaves, i, j) ==
  LET m == Cardinality(leaves[i])
      n == Cardinality(leaves[j])
      s == Extent(points, leaves[i])
      t == Extent(points, leaves[j])
  IN  m > n \/ (m = n /\ (s > t \/ (s = t /\ i <= j)))

BestLeaf(points, leaves) ==
  CHOOSE i \in DOMAIN leaves : \A j \in DOMAIN leaves : SplitBefore(points, leaves, i, j)

(* nth_element: the lower half of a leaf along its longest side. *)
LowerHalf(points, ids) ==
  LET a == SplitDimension(Bounds(points, ids))
      less(i, j) == \/ points[i][a] < points[j][a]
                    \/ points[i][a] = points[j][a] /\ i < j
  IN  {i \in ids : Cardinality({j \in ids : less(j, i)}) < Cardinality(ids) \div 2}

(* Both halves take the place of the leaf. *)
SplitBest(points, leaves) ==
  LET best == BestLeaf(points, leaves)
      low  == LowerHalf(points, leaves[best])
  IN  SubSeq(leaves, 1, best - 1) \o <<low, leaves[best] \ low>>
        \o SubSeq(leaves, best + 1, Len(leaves))

BuildLeaves(points, target) ==
  FoldLeft(LAMBDA leaves, n : SplitBest(points, leaves), <<DOMAIN points>>,
           [n \in 1..target - 1 |-> n])

-----------------------------------------------------------------------------
Ascending(ids) == SelectSeq([i \in 1..Greatest(ids) |-> i], LAMBDA i : i \in ids)

(* The leaves one after the other, each in the order of the input. *)
Reordered(leaves) ==
  FoldLeft(LAMBDA order, ids : order \o Ascending(ids), <<>>, leaves)

MutantReorderMap(order) == [p \in 0..Len(order) - 1 |-> p + 1]

(* Which point of the input each point of the image is. *)
ReorderMap(order) == [p \in 0..Len(order) - 1 |-> order[p + 1]]

(* Where bucket b begins: after the leaves before it. *)
SizeBefore(leaves, b) ==
  FoldLeft(LAMBDA n, ids : n + Cardinality(ids), 0, SubSeq(leaves, 1, b))

(* preprocess_once.  Indices in the image count from 0. *)
Preprocess(input, target, normalize) ==
  LET points == IF normalize THEN Normalized(input) ELSE input
      leaves == BuildLeaves(points, target)
      order  == Reordered(leaves)
  IN  [points   |-> [p \in 0..Len(order) - 1 |-> points[order[p + 1]]],
       original |-> ReorderMap(order),
       buckets  |-> [b \in 0..Len(leaves) - 1 |->
                       [box   |-> Bounds(points, leaves[b + 1]),
                        ptr   |-> SizeBefore(leaves, b),
                        count |-> Cardinality(leaves[b + 1]),
                        far   |-> SizeBefore(leaves, b)]]]

(* buckets.hex keeps so many bits of the count and of the far index. *)
Packed(image) ==
  [image EXCEPT
     !.buckets = [b \in DOMAIN @ |-> [@[b] EXCEPT !.count = @ % (2 ^ NUMP_W),
                                                  !.far = @ % (2 ^ PIDX_W)]]]

MutantValid(image) ==
  LET n == Cardinality(DOMAIN image.points)
      B == DOMAIN image.buckets
      stop(b) == image.buckets[b].ptr + image.buckets[b].count
  IN  /\ image.buckets[0].ptr = 0
      /\ \A b \in B : /\ image.buckets[b].count > 0
                      /\ stop(b) <= n
                      /\ image.buckets[b].far \in image.buckets[b].ptr..stop(b) - 1
                      /\ b + 1 \in B => image.buckets[b + 1].ptr = stop(b)

(* PreprocessedImage.validate *)
Valid(image) ==
  LET n == Cardinality(DOMAIN image.points)
      B == DOMAIN image.buckets
      stop(b) == image.buckets[b].ptr + image.buckets[b].count
  IN  /\ image.buckets[0].ptr = 0
      /\ \A b \in B : /\ image.buckets[b].count > 0
                      /\ stop(b) <= n
                      /\ image.buckets[b].far \in image.buckets[b].ptr..stop(b) - 1
                      /\ (IF b + 1 \in B THEN image.buckets[b + 1].ptr ELSE n) = stop(b)
=============================================================================
