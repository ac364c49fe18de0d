--------------------------- MODULE StrictScheduler ---------------------------
(***************************************************************************)
(* The bucket schedulers of the Python closed-loop models, each a loop     *)
(* whose body updates the queues one after the other: strict, with the     *)
(* read and write stages of the bucket SRAM, and direct, without them.     *)
(* What the body asks of a queue it asks of the state before the cycle     *)
(* (b below); what it changes, it changes in the state so far (s).         *)
(*                                                                         *)
(* A timed entry carries how many cycles remain until its ready_cycle.     *)
(* Statistics and the event list are left out.                             *)
(***************************************************************************)
EXTENDS BucketedCloud, SequencesExt

CONSTANTS
  CD_LATENCY, ISSUE_II, DECISION_DEPTH, MERGE_CAP, READ_LATENCY, WRITE_LATENCY

VARIABLES
  goal,            \* sample_count
  sched            \* the local variables of run

Blank ==
  [buckets |-> <<>>, current |-> 0, sampled |-> 0, over |-> FALSE,
   traversal |-> <<>>, index |-> 0,
   fetchPipeline |-> <<>>, fetchFifo |-> <<>>, cdPipeline |-> <<>>,
   decisionFifo |-> <<>>, writebackPipeline |-> <<>>,
   outstanding |-> 0, cooldown |-> 0, work |-> <<>>]

TraversalOrder(sample) ==
  LET winner == BucketOf(cloud, sample)
  IN  <<winner>> \o SelectSeq([i \in 1..Cardinality(BucketIds) |-> i - 1], LAMBDA b : b # winner)

(* run starts: the buckets are as the image holds them. *)
Started(first) ==
  [Blank EXCEPT
     !.buckets   = [b \in BucketIds |-> [far |-> PointPtr(b), dist |-> Inf, merges |-> <<>>]],
     !.current   = first,
     !.sampled   = 1,
     !.traversal = TraversalOrder(first)]

-----------------------------------------------------------------------------
After(x, latency) == [item |-> x, wait |-> latency]
IsDue(q)          == q # <<>> /\ Head(q).wait = 0
Aged(q)           == [i \in DOMAIN q |-> [q[i] EXCEPT !.wait = IF @ > 0 THEN @ - 1 ELSE 0]]

ApplyFarResult(s, r) ==
  [s EXCEPT !.buckets[r.bid] = [far |-> r.idx, dist |-> r.dist, merges |-> <<>>],
            !.outstanding = @ - 1]

Writeback(s, b) ==
  IF IsDue(b.writebackPipeline)
  THEN [ApplyFarResult(s, Head(s.writebackPipeline).item) EXCEPT !.writebackPipeline = Tail(@)]
  ELSE s

(* A far point the FIFO held before the cycle is collected. *)
CollectFar(s, far) ==
  IF far = <<>> THEN s
  ELSE [s EXCEPT !.writebackPipeline = Append(@, After(far[1], WRITE_LATENCY))]

(* What becomes of the decision that headed the FIFO before the cycle: an  *)
(* issue needs room the bucket FIFO had then, a deferral or a skip needs   *)
(* none.                                                                   *)
Issues(b, ready) ==
  b.decisionFifo # <<>> /\ Head(b.decisionFifo).kind = "issue" /\ ready

IssueOrApply(s, b, ready) ==
  IF b.decisionFifo = <<>> THEN s
  ELSE LET d == Head(b.decisionFifo)
       IN  CASE Issues(b, ready) ->
                  [s EXCEPT !.decisionFifo = Tail(@), !.buckets[d.bid].merges = <<>>,
                            !.outstanding = @ + 1]
             [] d.kind = "issue" /\ ~ready -> s
             [] d.kind = "defer" ->
                  [s EXCEPT !.decisionFifo = Tail(@),
                            !.buckets[d.bid].merges = Append(@, d.sample)]
             [] d.kind = "skip" -> [s EXCEPT !.decisionFifo = Tail(@)]

(* The distance unit's oldest decision enters the decision FIFO. *)
LeaveCd(s, b) ==
  IF IsDue(b.cdPipeline)
  THEN [s EXCEPT !.decisionFifo = Append(@, Head(s.cdPipeline).item), !.cdPipeline = Tail(@)]
  ELSE s

(* The distances are taken now, the decision is acted on later. *)
DecideOn(s, bid) ==
  LET e    == s.buckets[bid]
      far  == Dist(cloud, e.far, s.current)
      kind == CASE s.sampled = 1 \/ ~(e.dist < far) -> "issue"
                [] OTHER -> IF e.dist < Gap(cloud, s.current, bid) THEN "skip"
                            ELSE IF Len(e.merges) >= MERGE_CAP THEN "issue" ELSE "defer"
  IN  [bid |-> bid, kind |-> kind, sample |-> s.current, mcnt |-> Len(e.merges),
       refs |-> IF kind = "issue" THEN Append(e.merges, s.current) ELSE <<>>]

MutantHasCredit(s) == Len(s.decisionFifo) < DECISION_DEPTH

HasCredit(s) == Len(s.cdPipeline) + Len(s.decisionFifo) < DECISION_DEPTH

Cool(s) == [s EXCEPT !.cooldown = IF @ > 0 THEN @ - 1 ELSE 0]

Inject(s, bid) ==
  [s EXCEPT !.cdPipeline = Append(@, After(DecideOn(s, bid), CD_LATENCY)),
            !.cooldown   = ISSUE_II - 1]

(* strict: the distance unit is fed from the fetched descriptors, ... *)
InjectFetched(s, b) ==
  IF b.fetchFifo # <<>> /\ s.cooldown = 0 /\ HasCredit(b)
  THEN Inject([s EXCEPT !.fetchFifo = Tail(@)], Head(s.fetchFifo))
  ELSE s

FetchResponse(s, b) ==
  IF IsDue(b.fetchPipeline) /\ Len(b.fetchFifo) < DECISION_DEPTH
  THEN [s EXCEPT !.fetchFifo = Append(@, Head(s.fetchPipeline).item), !.fetchPipeline = Tail(@)]
  ELSE s

FetchRequest(s) ==
  IF s.index < Len(s.traversal) /\ Len(s.fetchPipeline) + Len(s.fetchFifo) < DECISION_DEPTH
  THEN [s EXCEPT !.fetchPipeline = Append(@, After(s.traversal[s.index + 1], READ_LATENCY)),
                 !.index = @ + 1]
  ELSE s

(* ... direct: from the traversal itself. *)
InjectTraversed(s, b) ==
  IF s.index < Len(s.traversal) /\ s.cooldown = 0 /\ HasCredit(b)
  THEN Inject([s EXCEPT !.index = @ + 1], s.traversal[s.index + 1])
  ELSE s

-----------------------------------------------------------------------------
GlobalFarOf(buckets) ==
  LET beats(o, b) == Better(buckets[o].dist, buckets[o].far, buckets[b].dist, buckets[b].far)
  IN  CHOOSE b \in DOMAIN buckets : \A o \in DOMAIN buckets \ {b} : ~beats(o, b)

MutantIterationOverOutstanding(s, idle) ==
  /\ s.index = Len(s.traversal)
  /\ s.fetchPipeline = <<>> /\ s.fetchFifo = <<>>
  /\ s.cdPipeline = <<>> /\ s.decisionFifo = <<>>
  /\ idle

IterationOver(s, idle) ==
  /\ s.index = Len(s.traversal)
  /\ s.fetchPipeline = <<>> /\ s.fetchFifo = <<>>
  /\ s.cdPipeline = <<>> /\ s.decisionFifo = <<>>
  /\ s.outstanding = 0 /\ s.writebackPipeline = <<>>
  /\ idle

(* The next iteration, or the end of the run. *)
NextIteration(s) ==
  LET chosen == s.buckets[GlobalFarOf(s.buckets)].far
      picked == [s EXCEPT !.current = chosen, !.sampled = @ + 1]
  IN  IF picked.sampled = goal
      THEN [picked EXCEPT !.over = TRUE]
      ELSE [picked EXCEPT !.traversal = TraversalOrder(chosen), !.index = 0, !.cooldown = 0]

EndOfCycle(s) ==
  [s EXCEPT !.fetchPipeline = Aged(@), !.cdPipeline = Aged(@), !.writebackPipeline = Aged(@)]

Complete(s, idle) ==
  EndOfCycle(IF IterationOver(s, idle) THEN NextIteration(s) ELSE s)

(* The body of the loop after the point engine's step; the summary model,  *)
(* which keeps no event list, repeats it word for word.                    *)
StrictCycle(ready, far, idle) ==
  LET b  == sched
      s1 == CollectFar(Writeback(b, b), far)
      s2 == LeaveCd(IssueOrApply(s1, b, ready), b)
      s3 == InjectFetched(Cool(s2), b)
  IN  Complete(FetchRequest(FetchResponse(s3, b)), idle)

DirectCycle(ready, far, idle) ==
  LET b  == sched
      s1 == IF far = <<>> THEN b ELSE ApplyFarResult(b, far[1])
      s2 == LeaveCd(IssueOrApply(s1, b, ready), b)
  IN  Complete(InjectTraversed(Cool(s2), b), idle)
=============================================================================
