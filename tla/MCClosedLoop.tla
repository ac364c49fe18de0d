---------------------------- MODULE MCClosedLoop ----------------------------
(* ClosedLoop on clouds of points on a line. *)
EXTENDS ClosedLoop, LineClouds

AllLines      == BusyClouds \cup MixedClouds
ReloadSame(c) == {c}
=============================================================================
