-------------------------- MODULE NativeScheduler ---------------------------
(***************************************************************************)
(* The bucket scheduler of the cycle models: a synchronous machine whose   *)
(* every step looks at its queues as they were before the step and then    *)
(* moves all of them.  Bucket ids are read from the bucket SRAM (fetching, *)
(* fetched), decided with the latency of the distance unit (cd) against a  *)
(* credit for a place in the decision FIFO (decided), and issued, deferred *)
(* or skipped; far points come back through a write pipeline (writebacks). *)
(*                                                                         *)
(* An entry of a timed pipeline carries how many steps remain until its    *)
(* ready_cycle.  iteration_ is sampled_count_ - 1 throughout and not kept  *)
(* apart.  Statistics are left out.                                        *)
(***************************************************************************)
EXTENDS BucketedCloud

CONSTANTS
  CD_LATENCY,      \* bucket_cd_latency
  ISSUE_II,        \* bucket_issue_ii
  DECISION_DEPTH,  \* bucket_decision_fifo_depth
  MERGE_CAP,       \* merge_buffer_capacity
  READ_LATENCY,    \* sram_read_latency
  WRITE_LATENCY    \* sram_write_latency

(* What validate_config accepts. *)
ASSUME ConfigAssumption ==
  /\ {CD_LATENCY, ISSUE_II, DECISION_DEPTH, MERGE_CAP, READ_LATENCY,
      WRITE_LATENCY} \subseteq Nat \ {0}
  /\ DECISION_DEPTH >= CD_LATENCY

VARIABLES
  goal,            \* sample_count
  table,           \* buckets_: far point, its distance, deferred samples
  current,         \* current_sample_
  sampledCount,    \* sampled_count_
  done,            \* done_
  pos,             \* traversal_index_
  fetching, fetched, cd, decided, writebacks,
  outstanding,     \* issued buckets whose far point is not yet written
  cooldown         \* inject_cooldown_

scheduler == <<table, current, sampledCount, done, pos, fetching, fetched, cd,
               decided, writebacks, outstanding, cooldown>>

BucketCount == LastBucket(cloud) + 1

(* The winner's bucket is visited first, then the others in order. *)
MutantTraversalRevisits(k) ==
  LET winner == BucketOf(cloud, current)
  IN  IF k = 0 THEN winner ELSE IF k - 1 <= winner THEN k - 1 ELSE k

Traversal(k) ==
  LET winner == BucketOf(cloud, current)
  IN  IF k = 0 THEN winner ELSE IF k - 1 < winner THEN k - 1 ELSE k

Create(first) ==
  /\ table' = [b \in BucketIds |-> [far |-> PointPtr(b), dist |-> Inf, merges |-> <<>>]]
  /\ current' = first /\ sampledCount' = 1 /\ done' = FALSE
  /\ pos' = 0 /\ outstanding' = 0 /\ cooldown' = 0
  /\ fetching' = <<>> /\ fetched' = <<>> /\ cd' = <<>>
  /\ decided' = <<>> /\ writebacks' = <<>>

-----------------------------------------------------------------------------
(* Timed pipelines. *)

Timed(x, latency) == <<[item |-> x, wait |-> latency]>>
Due(q)            == q # <<>> /\ q[1].wait = 0
Rest(q, taken)    == IF taken THEN Tail(q) ELSE q

(* A step passes: what was added in it waits one step less, too. *)
Elapse(q) == [i \in DOMAIN q |-> [q[i] EXCEPT !.wait = IF @ > 0 THEN @ - 1 ELSE 0]]

-----------------------------------------------------------------------------
(* The parts of a step. *)

(* A far point reaches the bucket SRAM. *)
CommitWriteback ==
  LET r == writebacks[1].item
  IN  IF Due(writebacks)
      THEN [table EXCEPT ![r.bid] = [far |-> r.idx, dist |-> r.dist, merges |-> <<>>]]
      ELSE table

(* The decision at the head leaves, unless it issues to a full bucket FIFO.*)
HeadLeaves(ready) == decided # <<>> /\ (decided[1].kind = "issue" => ready)
HeadIssues(ready) == HeadLeaves(ready) /\ decided[1].kind = "issue"

Issued(ready) == IF HeadIssues(ready) THEN <<decided[1]>> ELSE <<>>

(* Issuing empties the bucket's merge buffer, deferring adds to it. *)
AfterDecision(t, d) ==
  [t EXCEPT ![d.bid].merges =
     CASE d.kind = "issue" -> <<>>
       [] d.kind = "defer" -> Append(@, d.sample)
       [] d.kind = "skip"  -> @]

MutantImplicitOkNoBox(e, b) == e.dist < Dist(cloud, e.far, current)

ImplicitOk(e, b) == e.dist < Gap(cloud, current, b)

Decide(t, b) ==
  LET e       == t[b]
      mergeOk == e.dist < Dist(cloud, e.far, current)
      kind    == IF sampledCount = 1 \/ ~mergeOk THEN "issue"
                 ELSE IF ImplicitOk(e, b) THEN "skip"
                 ELSE IF Len(e.merges) >= MERGE_CAP THEN "issue"
                 ELSE "defer"
  IN  [bid |-> b, kind |-> kind, sample |-> current, mcnt |-> Len(e.merges),
       refs |-> IF kind = "issue" THEN Append(e.merges, current) ELSE <<>>]

(* A place in the decision FIFO is reserved before the distance unit is    *)
(* fed: the unit cannot stop.                                              *)
Credit == Len(cd) + Len(decided) < DECISION_DEPTH

Injects  == fetched # <<>> /\ cooldown <= 1 /\ Credit
Responds == Due(fetching) /\ Len(fetched) < DECISION_DEPTH

Cooled == IF Injects THEN ISSUE_II - 1 ELSE IF cooldown > 0 THEN cooldown - 1 ELSE 0

(* Room for a read request once this step's responses have moved. *)
Requests ==
  /\ pos < BucketCount
  /\ Len(Rest(fetching, Responds)) + Len(fetched') < DECISION_DEPTH

Walked == IF Requests THEN pos + 1 ELSE pos

(* All queues move. *)
Pipelines(ready, far) ==
  /\ table' = IF HeadLeaves(ready) THEN AfterDecision(CommitWriteback, decided[1])
              ELSE CommitWriteback
  /\ writebacks' = Elapse(Rest(writebacks, Due(writebacks))
                            \o (IF far = <<>> THEN <<>> ELSE Timed(far[1], WRITE_LATENCY)))
  /\ decided' = Rest(decided, HeadLeaves(ready))
                  \o (IF Due(cd) THEN <<cd[1].item>> ELSE <<>>)
  /\ cd' = Elapse(Rest(cd, Due(cd))
                    \o (IF Injects THEN Timed(Decide(table', fetched[1]), CD_LATENCY)
                        ELSE <<>>))
  /\ fetched' = Rest(fetched, Injects)
                  \o (IF Responds THEN <<fetching[1].item>> ELSE <<>>)
  /\ fetching' = Elapse(Rest(fetching, Responds)
                          \o (IF Requests THEN Timed(Traversal(pos), READ_LATENCY)
                              ELSE <<>>))
  /\ outstanding' = outstanding - (IF Due(writebacks) THEN 1 ELSE 0)
                                + (IF HeadIssues(ready) THEN 1 ELSE 0)

MutantScanDoneEarly ==
  Walked = BucketCount /\ fetching' = <<>> /\ fetched' = <<>> /\ cd' = <<>>

ScanDone ==
  /\ Walked = BucketCount
  /\ fetching' = <<>> /\ fetched' = <<>> /\ cd' = <<>> /\ decided' = <<>>

(* The bucket whose far point is the farthest of all. *)
GlobalFar(t) ==
  CHOOSE b \in DOMAIN t :
    \A o \in DOMAIN t \ {b} : Better(t[b].dist, t[b].far, t[o].dist, t[o].far)

LastSample(n) == n = goal

CompleteIteration ==
  /\ current' = table'[GlobalFar(table')].far
  /\ sampledCount' = sampledCount + 1
  /\ done' = LastSample(sampledCount')
  /\ IF done' THEN pos' = Walked /\ cooldown' = Cooled
     ELSE pos' = 0 /\ cooldown' = 0

ContinueIteration ==
  /\ pos' = Walked /\ cooldown' = Cooled
  /\ UNCHANGED <<current, sampledCount, done>>

(* One step, given what the point engine showed: room in the bucket FIFO,  *)
(* a far point if it had one, and whether it is idle.                      *)
Step(ready, far, idle) ==
  /\ ~done
  /\ Pipelines(ready, far)
  /\ IF ScanDone /\ outstanding' = 0 /\ writebacks' = <<>> /\ idle
     THEN CompleteIteration ELSE ContinueIteration
=============================================================================
