------------------------------ MODULE BoxBound ------------------------------
(***************************************************************************)
(* The two distance pipes of the core at work on one point of a bucket and *)
(* one sample: bucket_cd.v computes the distance of the sample to the      *)
(* bucket's box, and to the point when it is the bucket's far point;       *)
(* pe.v computes the point's distance to the sample when the bucket is     *)
(* recomputed.  Then bucket_ib.v decides on the bucket.  Pruning is exact  *)
(* only if the truncated numbers of one pipe agree with the truncated      *)
(* numbers of the other; QuickFpsCore and the cycle models assume that     *)
(* they do (DistAssumption).                                               *)
(*                                                                         *)
(* One action per axis: the squares enter the pipes together and are added *)
(* in the order x, y, z.                                                   *)
(***************************************************************************)
EXTENDS FloatUnits, Sequences

CONSTANTS
  Coordinates,   \* coordinates of points, as the host writes them
  Queries        \* coordinates of samples

(* Both are finite, and the host normalizes coordinates of points.         *)
ASSUME CoordinatesAssumption ==
  /\ Coordinates \subseteq [neg : {FALSE}, mag : 0..Infinity - 1]
  /\ Queries \subseteq [neg : BOOLEAN, mag : 0..Infinity - 1]

VARIABLES
  axes,          \* axes added so far
  dlb,           \* distance of the sample to the box
  cdDist,        \* distance of the sample to the point, as bucket_cd has it
  peDist,        \* distance of the point to the sample, as pe has it
  verdict        \* <<>> or the decision and what it is made from

vars == <<axes, dlb, cdDist, peDist, verdict>>

LessEq(a, b) == a.mag <= b.mag
Less(a, b)   == a.mag < b.mag

(* What one axis contributes for a point between lo and hi. *)
Axis(q, lo, hi, x) ==
  [dlb |-> Square(BoxGap(q, lo, hi)), cd |-> Square(Sub(q, x)), pe |-> Square(Sub(x, q))]

AxisResults ==
  UNION {{Axis(q, lo, hi, x) :
            q \in Queries, x \in {c \in Coordinates : LessEq(lo, c) /\ LessEq(c, hi)}} :
         lo \in Coordinates, hi \in Coordinates}

Init ==
  /\ axes = 0
  /\ dlb = Zero /\ cdDist = Zero /\ peDist = Zero
  /\ verdict = <<>>

(* The first axis is not added to anything. *)
Plus(sum, square) == IF axes = 0 THEN square ELSE Add(sum, square)

NextAxis ==
  /\ axes < 3
  /\ axes' = axes + 1
  /\ \E r \in AxisResults :
       dlb' = Plus(dlb, r.dlb) /\ cdDist' = Plus(cdDist, r.cd) /\ peDist' = Plus(peDist, r.pe)
  /\ UNCHANGED verdict

(* bucket_ib, not in a first iteration *)
Action(fdist, d) ==
  IF ~Less(fdist, d) THEN "issue" ELSE IF Less(fdist, dlb) THEN "skip" ELSE "defer"

Distances == {Number(FALSE, m) : m \in 0..Infinity}

(* The minimum a pe keeps. *)
Kept(stored) == IF Less(peDist, stored) THEN peDist ELSE stored

(* fdist is the bucket's far distance and d that of its far point to the   *)
(* sample.  The point is the far point, or another one of the bucket, at   *)
(* most as far; then d is near or far.                                     *)
Decide ==
  /\ axes = 3 /\ verdict = <<>>
  /\ \E isFar \in BOOLEAN, fdist, stored \in Distances :
       /\ IF isFar THEN stored = fdist ELSE LessEq(stored, fdist)
       /\ \E d \in IF isFar THEN {cdDist} ELSE {Zero, Number(FALSE, Infinity)} :
            verdict' = <<[action |-> Action(fdist, d), isFar |-> isFar,
                          stored |-> stored, kept |-> Kept(stored)]>>
  /\ UNCHANGED <<axes, dlb, cdDist, peDist>>

Next == NextAxis \/ Decide

Spec == Init /\ [][Next]_vars

-----------------------------------------------------------------------------
(* Properties. *)

(* A decision not to recompute is exact: a skipped bucket keeps all its    *)
(* distances, a deferred one that of its far point, as if pe had computed  *)
(* them.  For the first the truncated bound to a box may not be above the  *)
(* truncated distance of any point in it; for the second the two pipes     *)
(* have to agree on a distance although one subtracts the point and the    *)
(* other the sample.                                                       *)
PruningExact ==
  \A i \in DOMAIN verdict :
    LET v == verdict[i]
    IN  v.action = "skip" \/ (v.action = "defer" /\ v.isFar) => v.kept.mag = v.stored.mag
=============================================================================
