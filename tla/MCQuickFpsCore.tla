--------------------------- MODULE MCQuickFpsCore ---------------------------
(* QuickFpsCore on clouds of points on a line. *)
EXTENDS QuickFpsCore, LineClouds

JobClouds == BusyClouds \cup MixedClouds

ReloadSame(c)  == {c}
ReloadMixed(c) == IF c \in MixedClouds THEN MixedClouds ELSE {c}
=============================================================================
