-------------------------- MODULE MCPingPongChunks --------------------------
(***************************************************************************)
(* Buckets of no, one, two, three and four chunks, the last one full or    *)
(* short.                                                                  *)
(***************************************************************************)
EXTENDS PingPongChunks

CONSTANT PointCounts

MCRequests ==
  [coord : {100}, dist : {200}, points : PointCounts, merge : {1}]
=============================================================================
