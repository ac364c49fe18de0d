-------------------------- MODULE TracedScheduler --------------------------
(***************************************************************************)
(* The bucket schedulers of the trace-driven models.  They carry out the   *)
(* actions of a workload, iteration by iteration, and only the time that   *)
(* takes is simulated.  Three models differ in what holds the actions on   *)
(* their way and in when an action is let in:                              *)
(*   trace          a pipeline that stops when an issue finds no room;     *)
(*   trace_fifo     distance unit and decision FIFO, with the credits that *)
(*                  are free once the cycle's decision has left the FIFO;  *)
(*   trace_pre_edge the same, with the credits free before the cycle.      *)
(* All of them take a far point, and ask for room in the bucket FIFO,      *)
(* after the point engine's step.                                          *)
(***************************************************************************)
EXTENDS StrictScheduler, WorkloadGenerator, ModelSetup

(* run begins with the first iteration of the workload, if it has one. *)
StartedTrace(work) ==
  [Blank EXCEPT !.work      = work,
                !.current   = work[1].sampled,
                !.sampled   = 1,
                !.traversal = work[1].actions]

ReturnBucket(s, far) == IF far = <<>> THEN s ELSE [s EXCEPT !.outstanding = @ - 1]

(* The action at the head: of the pipeline when it is due, of the FIFO.    *)
HeadAction(s) ==
  IF IsPipeline THEN (IF IsDue(s.cdPipeline) THEN <<Head(s.cdPipeline).item>> ELSE <<>>)
  ELSE (IF s.decisionFifo = <<>> THEN <<>> ELSE <<Head(s.decisionFifo)>>)

DropHead(s) ==
  IF IsPipeline THEN [s EXCEPT !.cdPipeline = Tail(@)] ELSE [s EXCEPT !.decisionFifo = Tail(@)]

(* The bucket handed in, when there is room for it. *)
TracedIssue(s, room) ==
  SelectSeq(HeadAction(s), LAMBDA action : action.kind = "issue" /\ room)

Stalled(s, room) ==
  HeadAction(s) # <<>> /\ HeadAction(s)[1].kind = "issue" /\ ~room

TakeAction(s, room) ==
  IF HeadAction(s) = <<>> \/ Stalled(s, room) THEN s
  ELSE [DropHead(s) EXCEPT !.outstanding = @ + Len(TracedIssue(s, room))]

(* s is the state so far, b the one before the cycle. *)
MayEnter(s, b) ==
  CASE setup.scheduler = "trace"          -> Len(s.cdPipeline) < CD_LATENCY
    [] setup.scheduler = "trace_fifo"     -> HasCredit(s)
    [] setup.scheduler = "trace_pre_edge" -> HasCredit(b)

InjectAction(s, b) ==
  IF s.index < Len(s.traversal) /\ s.cooldown = 0 /\ MayEnter(s, b)
  THEN [s EXCEPT !.cdPipeline = Append(@, After(s.traversal[s.index + 1], CD_LATENCY)),
                 !.index      = @ + 1,
                 !.cooldown   = ISSUE_II - 1]
  ELSE s

TracedIterationOver(s, idle) ==
  /\ s.index = Len(s.traversal)
  /\ s.cdPipeline = <<>> /\ s.decisionFifo = <<>>
  /\ s.outstanding = 0
  /\ idle

NextWork(s) ==
  IF s.sampled = Len(s.work)
  THEN [s EXCEPT !.over = TRUE]
  ELSE LET next == s.work[s.sampled + 1]
       IN  [s EXCEPT !.current = next.sampled, !.sampled = @ + 1,
                     !.traversal = next.actions, !.index = 0, !.cooldown = 0]

(* The body of the loop after the point engine's step. *)
TracedCycle(room, far, idle) ==
  LET b  == sched
      s1 == TakeAction(ReturnBucket(b, far), room)
      s2 == IF IsPipeline THEN s1 ELSE LeaveCd(s1, b)
      s3 == IF IsPipeline /\ Stalled(b, room) THEN s2 ELSE InjectAction(Cool(s2), b)
  IN  EndOfCycle(IF TracedIterationOver(s3, idle) THEN NextWork(s3) ELSE s3)
=============================================================================
