-------------------------- MODULE MCStreamSubsystem --------------------------
(* Buckets at two distances from the end of a page. *)
EXTENDS StreamSubsystem

CONSTANTS PointCounts, Bases

MCRequests ==
  {[coord |-> 2 * b, dist |-> b, points |-> n, merge |-> 1] :
     b \in Bases, n \in PointCounts}
=============================================================================
