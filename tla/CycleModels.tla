----------------------------- MODULE CycleModels -----------------------------
(***************************************************************************)
(* The cycle models as they are put together: a scheduler (strict, direct  *)
(* or one that replays a workload), a point engine (fifo, streams or       *)
(* batched) and a memory (banked or dramsim3).  setup says which; direct   *)
(* and the trace-driven schedulers go with fifo only.  Each cycle steps    *)
(* the point engine with what the memory completed in the cycle before,    *)
(* then the scheduler, then the memory.                                    *)
(*                                                                         *)
(* The strict models implement ClosedLoop, in which the native scheduler   *)
(* drives a point engine whose memory may do anything.                     *)
(***************************************************************************)
EXTENDS TracedScheduler, DmaPointEngine

CONSTANTS
  Setups(_),       \* Setups(c): the models that are put together for cloud c
  Reload(_), SampleCounts, FirstSamples

VARIABLES
  arrived,         \* pending_completions
  credit,          \* _time_credit_ns
  turn,            \* whether the number of the loop's turns, cycle, is odd
  status, samples

vars == <<cloud, goal, setup, sched, pe, memory, arrived, credit, turn, bucketFifo, farFifo,
          mdt, status, samples>>

Loop ==
  INSTANCE ClosedLoop WITH
    table <- sched.buckets, current <- sched.current, sampledCount <- sched.sampled,
    done <- sched.over, pos <- sched.index, fetching <- sched.fetchPipeline,
    fetched <- sched.fetchFifo, cd <- sched.cdPipeline, decided <- sched.decisionFifo,
    writebacks <- sched.writebackPipeline, outstanding <- sched.outstanding,
    cooldown <- sched.cooldown, task <- Task

Fresh ==
  /\ sched = Blank /\ pe = FreshEngine /\ memory = EmptyMemory
  /\ arrived = {} /\ credit = 0 /\ turn = 0
  /\ bucketFifo = <<>> /\ farFifo = <<>> /\ status = "none" /\ samples = <<>>

Init ==
  /\ cloud \in Clouds /\ goal \in SampleCounts /\ setup \in Setups(cloud)
  /\ mdt = [p \in Points |-> Inf]
  /\ Fresh

Build ==
  /\ status = "none"
  /\ status' = "built"
  /\ cloud' \in Reload(cloud) /\ goal' \in SampleCounts
  /\ mdt' = [p \in Points |-> Inf]
  /\ UNCHANGED <<setup, sched, pe, memory, arrived, credit, turn, bucketFifo, farFifo, samples>>

Run ==
  /\ status = "built" /\ ~IsTraced
  /\ \E first \in FirstSamples :
       /\ samples' = <<first>>
       /\ IF goal = 1
          THEN status' = "ended" /\ UNCHANGED sched
          ELSE status' = "running" /\ sched' = Started(first)
  /\ UNCHANGED <<cloud, goal, setup, pe, memory, arrived, credit, turn, bucketFifo, farFifo,
                 mdt>>

(* A trace-driven model runs the workload that was generated for goal      *)
(* samples; without an iteration there is nothing to run.                  *)
RunTrace ==
  /\ status = "built" /\ IsTraced
  /\ LET work == Generate(goal)
     IN  /\ ValidWorkload(work)
         /\ IF work = <<>>
            THEN status' = "ended" /\ UNCHANGED <<sched, samples>>
            ELSE /\ status' = "running"
                 /\ sched' = StartedTrace(work)
                 /\ samples' = <<work[1].sampled>>
  /\ UNCHANGED <<cloud, goal, setup, pe, memory, arrived, credit, turn, bucketFifo, farFifo,
                 mdt>>

(* The memory's cycle, in which DRAMsim3 calls back n times for each       *)
(* address and direction: it comes back at the next step.                  *)
Completes(m, n) ==
  IF setup.memory = "banked" THEN BankedCompletes(m) ELSE BridgeCompletes(m, n)

Tick(m, n) ==
  /\ arrived' = Completes(m, n)
  /\ IF setup.memory = "banked"
     THEN memory' = BankedTick(m) /\ UNCHANGED credit
     ELSE memory' = BridgeTick(m, n) /\ credit' = CreditLeft(credit)

NoCallbacks(m) == [k \in DOMAIN m.tags |-> 0]

MayCallBack(m) ==
  IF setup.memory = "banked" THEN {<<>>}
  ELSE IF DramTicks(credit) = 0 THEN {NoCallbacks(m)} ELSE Callbacks(m)

(* One cycle of the loop; the last one has no tick.  If answers is TRUE, a *)
(* transaction comes back in it.                                           *)
CycleWith(answers) ==
  LET e      == BeforeFinish(arrived)
      queue  == IF IsTraced THEN FarFifoAfter(e) ELSE farFifo
      far    == IF queue = <<>> THEN <<>> ELSE <<Head(queue)>>
      ready  == IF IsTraced THEN Len(BucketFifoAfter) < BUCKET_DEPTH
                ELSE Engine!CanEnqueueBucket
      issued == IF IsTraced THEN TracedIssue(sched, ready)
                ELSE IF Issues(sched, ready) THEN <<Head(sched.decisionFifo)>> ELSE <<>>
      sent   == SubmitDma(FinishTask(e), memory)
      idle   == EngineIdle /\ MemoryIdle(sent.memory)
  IN  /\ status = "running"
      /\ DmaStep(arrived, e, sent.pe, far # <<>>, issued)
      /\ sched' = CASE IsTraced                   -> TracedCycle(ready, far, idle)
                    [] setup.scheduler = "direct" -> DirectCycle(ready, far, idle)
                    [] setup.scheduler = "strict" -> StrictCycle(ready, far, idle)
      /\ samples' = IF sched'.sampled = sched.sampled THEN samples
                    ELSE Append(samples, sched'.current)
      /\ status' = IF sched'.over THEN "ended" ELSE "running"
      /\ IF sched'.over
         THEN memory' = sent.memory /\ arrived' = {} /\ UNCHANGED credit
         ELSE \E n \in MayCallBack(sent.memory) :
                /\ answers => Completes(sent.memory, n) # {}
                /\ Tick(sent.memory, n)
      /\ turn' = 1 - turn
      /\ UNCHANGED <<cloud, goal, setup>>

Cycle == CycleWith(FALSE)

Leave ==
  /\ status' = "none" /\ samples' = <<>> /\ sched' = Blank
  /\ pe' = FreshEngine /\ memory' = EmptyMemory /\ arrived' = {} /\ credit' = 0 /\ turn' = 0
  /\ bucketFifo' = <<>> /\ farFifo' = <<>>
  /\ UNCHANGED <<cloud, goal, setup, mdt>>

(* max_cycles have passed. *)
TimeOut == status = "running" /\ Leave

Return ==
  /\ status = "ended"
  /\ status' = "returned"
  /\ UNCHANGED <<cloud, goal, setup, sched, pe, memory, arrived, credit, turn, bucketFifo,
                 farFifo, mdt, samples>>

Discard == status = "returned" /\ Leave

Next == Build \/ Run \/ RunTrace \/ Cycle \/ TimeOut \/ Return \/ Discard

(* The loop takes its turns while the model runs, whether or not a turn    *)
(* gets anywhere: turn changes with each, so this is WF_vars(Cycle).       *)
(* DRAMsim3 does not for ever hold back all it has taken.  It can answer   *)
(* only in cycles in which its clock ticks, so this follows from strong    *)
(* fairness of Answer, which is possible again and again while the bridge  *)
(* holds requests of a running model.  The banked memory answers by its    *)
(* own clock and is promised nothing.                                      *)
Answer == setup.memory = "dramsim3" /\ CycleWith(TRUE)

Awaited == status = "running" /\ setup.memory = "dramsim3" /\ memory.requests # {}

Fairness ==
  /\ []<>(status # "running") \/ []<><<Cycle>>_vars
  /\ []<>~Awaited \/ []<><<Answer>>_vars

Spec == Init /\ [][Next]_vars /\ Fairness

-----------------------------------------------------------------------------
(* Properties. *)

InMemory == IF setup.memory = "banked" THEN {x.tag : x \in memory.pending} ELSE memory.requests

QueuedOn(l) == [i \in DOMAIN pe.queues[l] |-> pe.queues[l][i].tag]
Queued == UNION {ToSeqSet(QueuedOn(l)) : l \in DOMAIN pe.queues}

(* The buckets issued and not yet returned, in the order of their way. *)
InService ==
  [i \in DOMAIN sched.writebackPipeline |-> sched.writebackPipeline[i].item.bid]
    \o [i \in DOMAIN farFifo |-> farFifo[i].bid]
    \o [i \in DOMAIN pe.work |-> pe.work[i].decision.bid]
    \o [i \in DOMAIN bucketFifo |-> bucketFifo[i].bid]

Deciding ==
  {sched.cdPipeline[i].item.bid : i \in DOMAIN sched.cdPipeline}
    \cup {sched.decisionFifo[i].bid : i \in DOMAIN sched.decisionFifo}

(* outstanding counts the buckets on their way through the point engine,   *)
(* each of them once and none that is still to be acted on; what is in the *)
(* distance unit has room in the decision FIFO, or in the pipeline.        *)
BucketsAccounted ==
  /\ sched.outstanding = Len(InService)
  /\ IsInjective(InService)
  /\ ToSeqSet(InService) \cap Deciding = {}
  /\ Len(sched.cdPipeline) + Len(sched.decisionFifo) <=
       (IF IsPipeline THEN CD_LATENCY ELSE DECISION_DEPTH)

(* Every transaction a chunk waits for is in one place, a DMA queue, the   *)
(* memory or on its way back, and there is no other: none is lost, made    *)
(* twice, or left over for a later bucket ("unknown DMA completion tag",   *)
(* "memory completion without an active point task").  The windows count   *)
(* exactly what each stream has with the memory and stay within their      *)
(* size, and the bridge holds the tags the Python side waits for.          *)
TagsAccounted ==
  /\ pe.owner = Queued \cup InMemory \cup arrived
  /\ Queued \cap (InMemory \cup arrived) = {} /\ InMemory \cap arrived = {}
  /\ \A l \in DOMAIN pe.queues : IsInjective(QueuedOn(l))
  /\ pe.work = <<>> => pe.owner = {}
  /\ pe.work # <<>> =>
       pe.owner = UNION {pe.work[1].chunks[k].loadTags \cup pe.work[1].chunks[k].writeTags :
                           k \in DOMAIN pe.work[1].chunks}
  /\ setup.engine # "fifo" =>
       \A s \in ToSeqSet(Streams) :
         /\ pe.window[s] = Cardinality({t \in InMemory \cup arrived : t.stream = s})
         /\ pe.window[s] <= OUTSTANDING
  /\ setup.memory = "dramsim3" =>
       /\ UNION {ToSeqSet(memory.tags[k]) : k \in DOMAIN memory.tags} = memory.requests
       /\ \A k \in DOMAIN memory.tags : memory.tags[k] # <<>>

(* The actions of a workload's iteration that are still to be carried out. *)
Remaining ==
  sched.decisionFifo
    \o [i \in DOMAIN sched.cdPipeline |-> sched.cdPipeline[i].item]
    \o SubSeq(sched.traversal, sched.index + 1, Len(sched.traversal))

IterationEnds == sched'.over \/ sched'.sampled # sched.sampled

(* A cycle carries out the next action or none; an issue hands its bucket  *)
(* to the point engine; and when the iteration ends all are carried out    *)
(* and every bucket is back.                                               *)
ActionReplayed ==
  IF IterationEnds
  THEN /\ \A i \in DOMAIN Remaining : i = 1 /\ Remaining[i].kind # "issue"
       /\ InService' = <<>>
  ELSE \/ Remaining' = Remaining
       \/ /\ Remaining # <<>> /\ Remaining' = Tail(Remaining)
          /\ Head(Remaining).kind = "issue" => Head(Remaining).bid \in ToSeqSet(InService')

(* Nothing is lost, doubled or left behind on the way, neither a bucket    *)
(* between the scheduler and the point engine ("more bucket completions    *)
(* than issues", "bucket FIFO overflow", "decision FIFO credit invariant   *)
(* failed"), nor a transaction between the engine and the memory, nor an   *)
(* action of a workload that is replayed.                                  *)
NothingLost ==
  /\ [](BucketsAccounted /\ TagsAccounted /\ Len(bucketFifo) <= BUCKET_DEPTH)
  /\ [][IsTraced /\ status = "running" /\ status' # "none" => ActionReplayed]_vars

(* The strict models implement ClosedLoop step by step: the Python         *)
(* scheduler decides in every cycle what the native one would, and the     *)
(* chunks' tags, slots and flags amount to the phases of its point engine, *)
(* whichever the DMA arbiter and the memory.                               *)
ImplementsClosedLoop ==
  /\ Loop!Init
  /\ [][setup.scheduler = "strict" => Loop!Next]_vars

(* A run ends: neither arbiter, window nor memory holds a transaction back *)
(* for ever.                                                               *)
RunEnds == status = "running" ~> status # "running"

(* Every model delivers the samples of the definition.  A trace-driven one *)
(* reports one fewer than its workload was generated for, none for one.    *)
Asked == IF IsTraced THEN goal - 1 ELSE goal

FPS ==
  INSTANCE FarthestPoint WITH
    goal <- Asked, sampled <- samples, finished <- status = "returned" /\ samples # <<>>

ExactSampling == FPS!Spec
=============================================================================
