--------------------------- MODULE BucketedCloud ----------------------------
(***************************************************************************)
(* A preprocessed cloud as the cycle models hold it (PreprocessedImage):   *)
(* reordered points, cut into buckets that are nonempty, contiguous ranges *)
(* of indices.  Distances are values given by the cloud.                   *)
(***************************************************************************)
EXTENDS Integers, Sequences, FiniteSets

CONSTANTS
  Clouds,          \* the preprocessed clouds
  Points,          \* point indices
  Buckets,         \* bucket indices
  BucketOf(_,_),   \* BucketOf(c, p): the bucket of p in cloud c
  LastBucket(_),   \* LastBucket(c): the last bucket of c
  Dist(_,_,_),     \* Dist(c, p, q): squared distance of p and q
  Gap(_,_,_),      \* Gap(c, q, b): squared distance of q to b's bounding box
  Inf              \* +INF, the initial minimum distance

(* The indices are those of an array. *)
ASSUME PointsAssumption ==
  IsFiniteSet(Points) /\ 0 \in Points /\ Points = 0..Cardinality(Points) - 1

ASSUME RangesAssumption ==
  \A c \in Clouds :
    /\ LastBucket(c) \in Nat
    /\ 0..LastBucket(c) \subseteq Buckets
    /\ \A p \in Points : BucketOf(c, p) \in 0..LastBucket(c)
    /\ \A b \in 0..LastBucket(c) : \E p \in Points : BucketOf(c, p) = b
    /\ \A p, q \in Points : p < q => BucketOf(c, p) <= BucketOf(c, q)

ASSUME DistAssumption ==
  /\ Inf \in Nat
  /\ \A c \in Clouds : \A p, q \in Points :
       /\ Dist(c, p, q) \in Nat /\ Dist(c, p, q) < Inf
       /\ Dist(c, p, q) = Dist(c, q, p)
       /\ Gap(c, q, BucketOf(c, p)) \in Nat
       /\ Gap(c, q, BucketOf(c, p)) <= Dist(c, p, q)

VARIABLE cloud     \* the cloud of this model

BucketIds  == 0..LastBucket(cloud)
Members(b) == {p \in Points : BucketOf(cloud, p) = b}

(* The first point of a bucket. *)
PointPtr(b) == CHOOSE p \in Members(b) : \A q \in Members(b) : p <= q

(* The order in which far points are preferred. *)
MutantBetterLargerIndex(dist, idx, d, i) == dist > d \/ (dist = d /\ idx > i)

Better(dist, idx, d, i) == dist > d \/ (dist = d /\ idx < i)
=============================================================================
