--------------------------- MODULE DmaPointEngine ---------------------------
(***************************************************************************)
(* The point engine of the closed-loop models with the requests it makes   *)
(* of its memory.  A chunk's load and its write-back are cut into          *)
(* transactions of one line each, which wait in DMA queues, are handed to  *)
(* the memory as far as it takes them, and are credited to their chunk     *)
(* when they come back.  Three engines share all but the way of the        *)
(* transactions: fifo has one queue for all; streams has a queue and a     *)
(* window of outstanding transactions for each stream, arbitrated one      *)
(* transaction at a time; batched picks a cycle's transactions first and   *)
(* hands them over together.  streams and batched may also keep all points *)
(* in the Point Buffer (resident) and then make no transactions.           *)
(*                                                                         *)
(* fifo is also the engine of the trace-driven models, which has the same  *)
(* control and computes no distances: the references are empty, and a far  *)
(* point stands for its bucket.                                            *)
(*                                                                         *)
(* Times are what remains of them.  A tag is the number drawn for a        *)
(* transaction; here it is the stream, chunk and line it was drawn for.    *)
(* Statistics and the event list are left out.                             *)
(***************************************************************************)
EXTENDS BucketedCloud, ModelSetup, MemoryBackends, SequencesExt, TLC

CONSTANTS
  CHUNK_POINTS, BUCKET_DEPTH, FAR_DEPTH,
  COORD_BASE, DIST_BASE, COORD_BYTES, DIST_BYTES,
  DMA_CHANNELS,    \* dma_channels
  DMA_COMMAND,     \* dma_command_cycles
  OUTSTANDING,     \* dma_stream_outstanding
  BUFFER_READ,     \* sram_read_latency
  BUFFER_WRITE,    \* sram_write_latency
  PE_ROWS, PE_COLS, MERGE_LOAD, ROW_LATENCY, OVERHEAD

ASSUME DmaAssumption ==
  /\ {COORD_BYTES, DIST_BYTES, DMA_CHANNELS, DMA_COMMAND, OUTSTANDING, BUFFER_READ,
      BUFFER_WRITE, PE_ROWS, PE_COLS, MERGE_LOAD, ROW_LATENCY, OVERHEAD} \subseteq Nat \ {0}
  /\ {COORD_BASE, DIST_BASE} \subseteq Nat

VARIABLES
  pe,              \* the point engine's own fields
  memory,          \* the memory behind it
  bucketFifo, farFifo, mdt

None == -1

Streams == <<"coord_read", "dist_read", "dist_write">>
Lanes   == IF setup.engine = "fifo" THEN <<"all">> ELSE Streams

LaneOf(stream) == IF setup.engine = "fifo" THEN "all" ELSE stream

ToSeqSet(q) == {q[i] : i \in DOMAIN q}

FreshEngine ==
  [work |-> <<>>, slotOwner |-> [s \in {0, 1} |-> None],
   queues |-> [l \in ToSeqSet(Lanes) |-> <<>>],
   window |-> [s \in ToSeqSet(Streams) |-> 0],
   owner |-> {}, cursor |-> 0, localLoad |-> {}, localWrite |-> {}]

EmptyMemory == IF setup.memory = "banked" THEN EmptyBanked ELSE EmptyBridge

-----------------------------------------------------------------------------
(* The abstract engine: a chunk's phase is what its fields say. *)

Phase(c) ==
  CASE c.done -> "done"
    [] ~c.done /\ c.writeScheduled -> "writing"
    [] c.computing -> "computing"
    [] c.loaded /\ ~c.computing /\ ~c.writeScheduled -> "loaded"
    [] c.loadScheduled /\ ~c.loaded -> "loading"
    [] ~c.loadScheduled -> "waiting"

Task ==
  IF pe.work = <<>> THEN <<>>
  ELSE LET w == pe.work[1]
       IN  <<[decision |-> w.decision, best |-> w.best,
              phase |-> [k \in DOMAIN w.chunks |-> Phase(w.chunks[k])]]>>

Engine == INSTANCE ChunkedPointEngine WITH task <- Task

-----------------------------------------------------------------------------
(* Making requests. *)

ChunkPoints(e, k) == Engine!Chunk(e.work[1].decision.bid, k)

(* The lines that size bytes at address touch, one transaction each. *)
Transactions(stream, k, address, size) ==
  LET first == address \div TRANSACTION
      last  == (address + size - 1) \div TRANSACTION
  IN  [i \in 1..last - first + 1 |-> [stream |-> stream, chunk |-> k, line |-> first + i - 1]]

MemoryRequests(e, stream, k, base, bytes) ==
  LET points == ChunkPoints(e, k)
      start  == CHOOSE p \in points : \A q \in points : p <= q
      tags   == Transactions(stream, k, base + start * bytes, Cardinality(points) * bytes)
  IN  [e EXCEPT
         !.queues[LaneOf(stream)] =
            @ \o [i \in DOMAIN tags |-> [tag |-> tags[i], wait |-> DMA_COMMAND]],
         !.owner = @ \cup ToSeqSet(tags)]

TagsOf(e, k, streams) == {t \in e.owner : t.chunk = k /\ t.stream \in streams}

ScheduleLoad(e, k) ==
  LET asked == IF setup.resident
               THEN [e EXCEPT !.localLoad = @ \cup {[chunk |-> k, wait |-> BUFFER_READ]}]
               ELSE MemoryRequests(
                      MemoryRequests(e, "coord_read", k, COORD_BASE, COORD_BYTES),
                      "dist_read", k, DIST_BASE, DIST_BYTES)
  IN  [asked EXCEPT
         !.work[1].chunks[k].loadTags = TagsOf(asked, k, {"coord_read", "dist_read"}),
         !.work[1].chunks[k].loadScheduled = TRUE,
         !.slotOwner[k % 2] = k]

ScheduleWrite(e, k) ==
  LET asked == IF setup.resident
               THEN [e EXCEPT !.localWrite = @ \cup {[chunk |-> k, wait |-> BUFFER_WRITE]}]
               ELSE MemoryRequests(e, "dist_write", k, DIST_BASE, DIST_BYTES)
  IN  [asked EXCEPT
         !.work[1].chunks[k].writeTags = TagsOf(asked, k, {"dist_write"}),
         !.work[1].chunks[k].writeScheduled = TRUE]

-----------------------------------------------------------------------------
(* The parts of a step, in their order. *)

EndLoad(e, k) == [e EXCEPT !.work[1].chunks[k].loaded = TRUE]

(* The slot of a chunk that is written back is free. *)
EndWrite(e, k) ==
  [e EXCEPT !.work[1].chunks[k].done = TRUE,
            !.work[1].completed = @ + 1,
            !.slotOwner[k % 2] = None]

(* A transaction that came back is taken off its window and off its        *)
(* chunk's tags, the last of which ends the load or the write-back.        *)
CompleteOne(t, e) ==
  LET counted == [e EXCEPT
                    !.owner = @ \ {t},
                    !.window[t.stream] = IF setup.engine = "fifo" THEN @ ELSE @ - 1]
      chunk   == counted.work[1].chunks[t.chunk]
      read    == [counted EXCEPT !.work[1].chunks[t.chunk].loadTags = @ \ {t}]
      written == [counted EXCEPT !.work[1].chunks[t.chunk].writeTags = @ \ {t}]
  IN  IF IsWrite(t)
      THEN IF chunk.writeTags = {t} THEN EndWrite(written, t.chunk) ELSE written
      ELSE IF chunk.loadTags = {t} THEN EndLoad(read, t.chunk) ELSE read

HandleCompletions(e, arrived) == FoldSet(CompleteOne, e, arrived)

Due(entries) == {x \in entries : x.wait = 0}

(* Resident points come from the Point Buffer itself. *)
ServiceLocalPointBuffer(e) ==
  LET loads  == FoldSet(LAMBDA x, f : [EndLoad(f, x.chunk) EXCEPT !.localLoad = @ \ {x}],
                        e, Due(e.localLoad))
  IN  FoldSet(LAMBDA x, f : [EndWrite(f, x.chunk) EXCEPT !.localWrite = @ \ {x}],
              loads, Due(e.localWrite))

FreshChunk ==
  [loadTags |-> {}, writeTags |-> {}, loadScheduled |-> FALSE, loaded |-> FALSE,
   computing |-> FALSE, wait |-> 0, writeScheduled |-> FALSE, done |-> FALSE]

AcceptTask(e) ==
  IF e.work # <<>> \/ bucketFifo = <<>> THEN e
  ELSE LET d == Head(bucketFifo)
       IN  [e EXCEPT !.work =
              <<[decision  |-> d,
                 chunks    |-> [k \in DOMAIN Engine!MakeChunks(d.bid) |-> FreshChunk],
                 active    |-> None,
                 completed |-> 0,
                 best      |-> [dist |-> -1, idx |-> PointPtr(d.bid)]]>>]

FirstChunk(found) ==
  IF found = {} THEN None ELSE CHOOSE k \in found : \A j \in found : k <= j

FillSlot(e, slot) ==
  LET c    == e.work[1].chunks
      next == FirstChunk({k \in DOMAIN c : k % 2 = slot /\ ~c[k].loadScheduled})
  IN  IF e.slotOwner[slot] # None \/ next = None THEN e ELSE ScheduleLoad(e, next)

FillPingpong(e) == IF e.work = <<>> THEN e ELSE FillSlot(FillSlot(e, 0), 1)

PointEngineLatency(points, merges) ==
  LET batches == (points + PE_ROWS - 1) \div PE_ROWS
      passes  == (merges + 1 + PE_COLS - 1) \div PE_COLS
  IN  passes * (MERGE_LOAD + batches + ROW_LATENCY) + OVERHEAD

(* The computation that ends in this step. *)
Computed(e) ==
  IF e.work = <<>> THEN {}
  ELSE LET k == e.work[1].active
       IN  IF k # None /\ e.work[1].chunks[k].wait = 0 THEN {k} ELSE {}

(* The best of a task when one of its chunks has been recomputed. *)
ComputeChunk(e, k) ==
  LET w    == e.work[1]
      rows == {[dist |-> Engine!Nearest(p, w.decision.refs), idx |-> p] : p \in ChunkPoints(e, k)}
  IN  Engine!BestOf(w.best, rows)

EndCompute(e) ==
  IF Computed(e) = {} THEN e
  ELSE LET k == e.work[1].active
       IN  ScheduleWrite(
             [e EXCEPT !.work[1].chunks[k].computing = FALSE,
                       !.work[1].active = None,
                       !.work[1].best = ComputeChunk(e, k)], k)

StartCompute(e) ==
  LET w    == e.work[1]
      next == FirstChunk({k \in DOMAIN w.chunks : /\ w.chunks[k].loaded
                                                 /\ ~w.chunks[k].computing
                                                 /\ ~w.chunks[k].writeScheduled})
  IN  IF w.active # None \/ next = None THEN e
      ELSE [e EXCEPT
              !.work[1].active = next,
              !.work[1].chunks[next].computing = TRUE,
              !.work[1].chunks[next].wait =
                 PointEngineLatency(Cardinality(ChunkPoints(e, next)), w.decision.mcnt)]

AdvanceCompute(e) == IF e.work = <<>> THEN e ELSE StartCompute(EndCompute(e))

Finishes(e) ==
  /\ e.work # <<>>
  /\ e.work[1].completed = Cardinality(DOMAIN e.work[1].chunks)
  /\ Len(farFifo) < FAR_DEPTH

FinishTask(e) ==
  IF Finishes(e)
  THEN [e EXCEPT !.work = <<>>, !.slotOwner = [s \in {0, 1} |-> None]]
  ELSE e

-----------------------------------------------------------------------------
(* Handing transactions to the memory.  a is the engine and its memory in  *)
(* the course of a cycle's arbitration.                                    *)

CanAccept(m, t) == IF setup.memory = "banked" THEN BankedAccepts(m) ELSE WillAccept(m, t)
Submit(m, t)    == IF setup.memory = "banked" THEN BankedSubmit(m, t) ELSE BridgeAdd(m, t)

WindowOpen(lane, count) == setup.engine = "fifo" \/ count < OUTSTANDING

WindowOf(e, lane) == IF lane = "all" THEN 0 ELSE e.window[lane]

SubmitOne(a, lane) ==
  LET t == Head(a.pe.queues[lane]).tag
  IN  [pe |-> [a.pe EXCEPT
                 !.queues[lane] = Tail(@),
                 !.window = IF lane = "all" THEN @ ELSE [@ EXCEPT ![lane] = @ + 1]],
       memory |-> Submit(a.memory, t), submitted |-> a.submitted + 1, idle |-> 0]

CanSubmit(a, lane) ==
  LET q == a.pe.queues[lane]
  IN  /\ q # <<>> /\ Head(q).wait = 0
      /\ WindowOpen(lane, WindowOf(a.pe, lane))
      /\ CanAccept(a.memory, Head(q).tag)

(* The lane visited next: from the first under priority, else the cursor.  *)
Visited(cursor, idle) == IF setup.arbiter = "priority" THEN idle ELSE cursor
Moved(cursor) ==
  IF setup.arbiter = "priority" THEN cursor ELSE (cursor + 1) % Len(Lanes)

Visit(a) ==
  LET lane == Lanes[Visited(a.pe.cursor, a.idle) + 1]
      next == [a EXCEPT !.pe.cursor = Moved(@)]
  IN  IF CanSubmit(a, lane) THEN SubmitOne(next, lane) ELSE [next EXCEPT !.idle = @ + 1]

(* Visits go on until all channels are used or every lane was idle. *)
Visits == [i \in 1..Len(Lanes) * (DMA_CHANNELS + 1) |-> i]

SubmitEach(e, m) ==
  FoldLeft(LAMBDA a, i : IF a.submitted < DMA_CHANNELS /\ a.idle < Len(Lanes) THEN Visit(a) ELSE a,
           [pe |-> e, memory |-> m, submitted |-> 0, idle |-> 0], Visits)

(* A batch is picked as if the memory took all of it: sel holds the lanes  *)
(* picked so far.                                                          *)
Picked(sel, lane) == Cardinality({i \in DOMAIN sel.lanes : sel.lanes[i] = lane})

CanPick(e, sel, lane) ==
  LET n == Picked(sel, lane)
  IN  /\ n < Len(e.queues[lane]) /\ e.queues[lane][n + 1].wait = 0
      /\ WindowOpen(lane, e.window[lane] + n)

Pick(e, sel) ==
  LET lane == Lanes[Visited(sel.cursor, sel.idle) + 1]
  IN  [lanes  |-> IF CanPick(e, sel, lane) THEN Append(sel.lanes, lane) ELSE sel.lanes,
       cursor |-> Moved(sel.cursor),
       idle   |-> IF CanPick(e, sel, lane) THEN 0 ELSE sel.idle + 1]

SelectBatch(e) ==
  FoldLeft(LAMBDA sel, i : IF Len(sel.lanes) < DMA_CHANNELS /\ sel.idle < Len(Lanes)
                           THEN Pick(e, sel) ELSE sel,
           [lanes |-> <<>>, cursor |-> e.cursor, idle |-> 0], Visits)

(* The memory takes the batch up to the first transaction it has no room   *)
(* for.                                                                    *)
CommitBatch(e, m, lanes) ==
  FoldLeft(LAMBDA a, lane :
             IF a.idle = 0 /\ CanAccept(a.memory, Head(a.pe.queues[lane]).tag)
             THEN SubmitOne(a, lane) ELSE [a EXCEPT !.idle = 1],
           [pe |-> e, memory |-> m, submitted |-> 0, idle |-> 0], lanes)

SubmitBatch(e, m) ==
  LET sel == SelectBatch(e)
  IN  CommitBatch([e EXCEPT !.cursor = sel.cursor], m, sel.lanes)

(* BankedDramModel has no submit_many. *)
SubmitDma(e, m) ==
  IF setup.resident THEN [pe |-> e, memory |-> m]
  ELSE IF setup.engine = "batched" /\ setup.memory = "dramsim3" THEN SubmitBatch(e, m)
  ELSE SubmitEach(e, m)

-----------------------------------------------------------------------------
BeforeFinish(arrived) ==
  AdvanceCompute(FillPingpong(AcceptTask(
    ServiceLocalPointBuffer(HandleCompletions(pe, arrived)))))

(* The chunk whose computation ends in the step. *)
StepComputes(arrived) ==
  Computed(FillPingpong(AcceptTask(ServiceLocalPointBuffer(HandleCompletions(pe, arrived)))))

(* A cycle passes for all that waits. *)
Elapsed(e) ==
  LET pass(x) == [x EXCEPT !.wait = Countdown(@)]
  IN  [e EXCEPT
         !.queues = [l \in DOMAIN @ |-> [i \in DOMAIN @[l] |-> pass(@[l][i])]],
         !.localLoad = {pass(x) : x \in @}, !.localWrite = {pass(x) : x \in @},
         !.work = [i \in DOMAIN @ |->
            [@[i] EXCEPT !.chunks = [k \in DOMAIN @ |-> pass(@[k])]]]]

(* The FIFOs as the step leaves them; e is the engine up to the end of the *)
(* task.                                                                   *)
FarFifoAfter(e) ==
  farFifo \o (IF Finishes(e) THEN <<[bid |-> e.work[1].decision.bid] @@ e.work[1].best>>
              ELSE <<>>)

BucketFifoAfter ==
  IF pe.work = <<>> /\ bucketFifo # <<>> THEN Tail(bucketFifo) ELSE bucketFifo

(* A step and what the scheduler does to its FIFOs: it may take a far      *)
(* point and hand a bucket in.  last is the engine the step leaves.        *)
DmaStep(arrived, e, last, pops, issued) ==
  /\ pe' = Elapsed(last)
  /\ mdt' = [p \in Points |->
               IF \E k \in StepComputes(arrived) : p \in ChunkPoints(e, k)
               THEN Engine!Nearest(p, e.work[1].decision.refs) ELSE mdt[p]]
  /\ farFifo' = IF pops THEN Tail(FarFifoAfter(e)) ELSE FarFifoAfter(e)
  /\ bucketFifo' = BucketFifoAfter \o issued

EngineIdle ==
  /\ pe'.work = <<>> /\ bucketFifo' = <<>> /\ farFifo' = <<>>
  /\ \A l \in DOMAIN pe'.queues : pe'.queues[l] = <<>>
  /\ pe'.owner = {} /\ pe'.localLoad = {} /\ pe'.localWrite = {}

MemoryIdle(m) == IF setup.memory = "banked" THEN m.pending = {} ELSE m.requests = {}
=============================================================================
