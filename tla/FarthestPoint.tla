--------------------------- MODULE FarthestPoint ---------------------------
(***************************************************************************)
(* What the accelerator promises: farthest-point sampling of the loaded    *)
(* cloud by its definition, with no buckets, no pruning and no deferred    *)
(* work.  A job samples a given first point and then, again and again, the *)
(* point whose distance to the points sampled so far is largest; among     *)
(* equals the smaller point index (FUNCTIONAL_CORE.md, "Implemented data   *)
(* path").  The job is reported done only when every sample was delivered. *)
(*                                                                         *)
(* Distances are compared and never computed with, so they are naturals.   *)
(***************************************************************************)
EXTENDS Naturals, Sequences

CONSTANTS
  Clouds,        \* the point clouds the host may load
  Points,        \* point indices, the naturals below some bound
  Dist(_,_,_)    \* Dist(c, p, q): squared distance of p and q in cloud c

VARIABLES
  cloud,         \* the cloud the next or current job samples
  goal,          \* how many samples that job asks for
  sampled,       \* the samples delivered by the current job, in order
  finished       \* the job was reported done

vars == <<cloud, goal, sampled, finished>>

(* p beats r as the next sample when some sampled point is nearer to r     *)
(* than every sampled point is to p; on a tie the smaller index wins.      *)
(* "Some ... than every" is the comparison of the two minima.              *)
Beats(c, S, p, r) ==
  \E q \in S : \A s \in S :
    \/ Dist(c, r, q) < Dist(c, p, s)
    \/ Dist(c, r, q) = Dist(c, p, s) /\ p < r

Farthest(c, S, p) == \A r \in Points \ {p} : Beats(c, S, p, r)

SampleSet == {sampled[i] : i \in DOMAIN sampled}

(* The first sample is delivered even when the job asks for none. *)
Complete == sampled # <<>> /\ Len(sampled) >= goal

Init ==
  /\ cloud \in Clouds
  /\ goal \in Nat
  /\ sampled = <<>>
  /\ finished = FALSE

(* Between jobs the host may load another cloud. *)
Load ==
  /\ sampled = <<>>
  /\ cloud' \in Clouds
  /\ goal' \in Nat
  /\ UNCHANGED <<sampled, finished>>

(* A job begins: its first sample is given, not computed. *)
Begin ==
  /\ sampled = <<>>
  /\ \E p \in Points : sampled' = <<p>>
  /\ UNCHANGED <<cloud, goal, finished>>

(* The next sample is the farthest point. *)
Pick ==
  /\ sampled # <<>>
  /\ ~Complete
  /\ \E p \in Points :
       /\ Farthest(cloud, SampleSet, p)
       /\ sampled' = Append(sampled, p)
  /\ UNCHANGED <<cloud, goal, finished>>

Report ==
  /\ Complete
  /\ finished' = TRUE
  /\ UNCHANGED <<cloud, goal, sampled>>

(* The host has taken the samples. *)
Retire ==
  /\ finished
  /\ sampled' = <<>>
  /\ finished' = FALSE
  /\ UNCHANGED <<cloud, goal>>

(* A reset abandons the job. *)
Abort ==
  /\ sampled' = <<>>
  /\ finished' = FALSE
  /\ UNCHANGED <<cloud, goal>>

Next == Load \/ Begin \/ Pick \/ Report \/ Retire \/ Abort

Spec == Init /\ [][Next]_vars
=============================================================================
