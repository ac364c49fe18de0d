------------------------ MODULE MCBucketDecisionPipe ------------------------
(* A small instance of BucketDecisionPipe. *)
EXTENDS BucketDecisionPipe

(* An entry that is deferred, its far distance larger than that to the box *)
(* by nothing, one that is skipped, and one that is issued because the     *)
(* first iteration issues what would be skipped.                           *)
MCItems ==
  {[bid |-> 1, first |-> FALSE, fdist |-> 1, dlb |-> 1, d |-> 2],
   [bid |-> 2, first |-> FALSE, fdist |-> 0, dlb |-> 1, d |-> 1],
   [bid |-> 2, first |-> TRUE, fdist |-> 0, dlb |-> 1, d |-> 1]}
=============================================================================
