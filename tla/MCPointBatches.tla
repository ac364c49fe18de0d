--------------------------- MODULE MCPointBatches ---------------------------
(***************************************************************************)
(* The array in its default size over a memory of 17 points on a line.     *)
(***************************************************************************)
EXTENDS PointBatches

CONSTANT Counts    \* numbers of points of the buckets

MCOrigin == DEPTH
MCNoRef  == DEPTH + 1
MCInf    == 1000

(* Coincident and symmetric points, so that far points tie. *)
Place(a) == <<3, 0, 6, 3, 8, 1, 3, 6, 0, 9, 2, 7, 5, 8, 4, 1, 12>>[a + 1]

Coordinate(q) == IF q = MCOrigin THEN 0 ELSE Place(q)

MCDist(p, q) ==
  IF q = MCNoRef THEN MCInf
  ELSE (Coordinate(p) - Coordinate(q)) * (Coordinate(p) - Coordinate(q))

Task(bid, base, points, merges, sample) ==
  [bid |-> bid, base |-> base, points |-> points, merges |-> merges, sample |-> sample]

(* No merges, one pass that is just full, one reference too many for it,   *)
(* and three passes. *)
MergeLists == {<<>>, <<4, 9, 2>>, <<9, 5, 8, 3>>, <<6, 1, 9, 0, 2, 7, 3, 5>>}

Fits(base, points) == base + points <= DEPTH

(* A bucket alone, and one after it that shares its last memory word.      *)
MCWorkloads ==
  {<<Task(1, base, n, ms, s)>> :
     base \in {0, 1}, n \in {k \in Counts : Fits(1, k)}, ms \in MergeLists, s \in {0, 4}}
  \cup
  {<<Task(1, 0, n, <<4, 9, 2, 1>>, 0), Task(2, n, m, <<>>, s)>> :
     n \in {k \in Counts : k < 6}, m \in {k \in Counts : k < 5}, s \in {1, 9}}

MCReloads == {<<Task(2, 3, 5, <<9, 5, 8, 3>>, 0), Task(1, 0, 3, <<>>, 4)>>}
=============================================================================
