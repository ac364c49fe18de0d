----------------------------- MODULE MCBoxBound -----------------------------
(***************************************************************************)
(* Every finite number of a small format.  The host normalizes coordinates *)
(* to non-negative numbers; a sample may be negative, as in the tests of   *)
(* bucket_cd.                                                              *)
(***************************************************************************)
EXTENDS BoxBound

MCCoordinates == {Number(FALSE, m) : m \in 0..Infinity - 1}
MCQueries     == MCCoordinates \cup {Number(TRUE, m) : m \in 0..Infinity - 1}
=============================================================================
