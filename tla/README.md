# QuickFPS accelerator: TLA+ verification project

QuickFPS computes farthest-point sampling (FPS) of a point cloud. A host program
cuts the cloud into *buckets* (leaves of a KD-tree); the accelerator then keeps one
summary per bucket (its far point and that point's distance to the samples so far)
and, for each new sample, decides per bucket whether to recompute it, to note the
sample for later, or to leave it alone. The result must nevertheless be exactly the
sequence of samples the textbook algorithm gives.

This directory models that design, the RTL under `src/RTL` first, checks the models
with TLC on small instances and proves the central facts with TLAPS for every size.

## Inventory

| Part | Where | State it keeps | Operations | Interacts with |
|---|---|---|---|---|
| Bucket engine | `RTL/bucket_engine/bucket_engine.v`, `bucket_ib.v`, `bucket_cd.v` | a ten-state FSM, the current sample and winner, walk position, issued and collected counts, the running best, registered write ports | start, walk the buckets (issue, defer, skip), collect recomputed far points, choose the winner | memories through ports of one edge's latency, point engine through two FIFOs |
| Point engine | `RTL/bucket_engine/point_engine_top.v`, `RTL/point_engine/*` | an FSM, the descriptor, pass and batch counters, reference registers, the rows inside the array, comparator tree | load references, stream the bucket's points through the array, push the far point | merge buffer, distance and coordinate memories, FIFOs |
| Arithmetic | `RTL/point_engine/fp32_*.v`, `RTL/bucket_engine/fp32_box_gap.v` | none | truncating add, subtract and multiply, gap to an interval | `bucket_cd.v`, `pe.v` |
| Core memories | `RTL/memory/{bucket,merge,dist,result}_buffer.v` | entries, merge slots and counts, distances, results | read, write, clear | both engines, host |
| FIFOs | `RTL/bucket_engine/sync_fifo.v` | words, two pointers with a wrap bit | write, read, reset | used three times |
| Core top | `RTL/top/quickfps_core_top.v` | none of its own | host loads, start, done | host |
| Bucket decision pipe | `RTL/bucket_engine/bucket_decision_pipe.v` | four stages that cannot stall, a credit counter, a FIFO | accept against a credit, decide, deliver | any producer and consumer |
| Ping-pong chunk controller | `RTL/dma/pingpong_chunk_ctrl.v` | two slots, load, compute and write reservations | load, compute and write back a bucket chunk by chunk | DMA engines, compute |
| AXI reader, writer | `RTL/dma/axi_burst_{reader,writer}.v` | address, remaining bytes, beat counter | split at 4 KiB, transfer, complete | an AXI slave |
| Streaming subsystem | `RTL/system/quickfps_stream_subsystem.v` | none of its own | wiring | the three above |
| Native scheduler | `native_scheduler/quickfps_bucket_scheduler.cpp` | fetch, distance, decision and write-back queues, bucket states | one `step` per cycle | Python driver, point engine model |
| Closed-loop models | `cmodel/quickfps_cycle/*closed_loop*.py` | scheduler queues, chunks in DMA, compute and write-back, DMA queues and windows | one turn of the loop per cycle | native scheduler, memory models |
| Trace-driven models | `cmodel/quickfps_cycle/{model,cycle_model,strict_cycle_model,workload}.py`, `cmodel/generate_workload.py` | the workload, a pipeline or credits and decision FIFO | generate a workload, replay it cycle by cycle | point engine of `model.py`, memory models |
| Memory models | `cmodel/quickfps_cycle/{memory,dramsim3_clock,batched_dramsim3}.py`, `dramsim3_bridge/` | queue, banks and rows; tags under way for each address; time carried between two clocks | submit, tick, complete | point engines, DRAMsim3 |
| Event simulator | `event_sim/quickfps_event_sim.cpp`, `cmodel/quickfps_cycle/event_model.py` | bucket summaries, accept cycles of the iteration, the events of one bucket, when each DMA lane, bank and bus is free | create, run, destroy; one event after the other | images of the preprocessor |
| Host preprocessor | `HOST/quickfps_preprocess.cpp`, loaded by `cmodel/quickfps_cycle/preprocessed.py` | none after it ran | split into leaves, reorder, write and load files, reference sampling | the core's memories, all models |
| Power, reports, synthesis, test benches | `cmodel/quickfps_cycle/power.py`, `scripts/`, `reports/`, `tb/` | none | arithmetic and file I/O | none |

What makes each of the first parts correct:

- *bucket and point engine*: the samples are those of the definition, whatever was
  pruned, deferred or reordered; each issued bucket returns once; merge slots are
  neither lost nor read while they change; a job always ends and leaves nothing behind;
- *point engine inside*: a pass is drained before what follows reads its distances, the far
  point is that of the final distances, no distance of a neighbouring bucket is touched;
- *arithmetic*: the truncated bound to a box is never above a truncated distance in it;
- *FIFO and decision pipe*: nothing is lost, repeated or reordered at any limit, and
  a pipe that cannot stop never meets a full FIFO;
- *chunk controller and DMA*: every chunk is loaded, computed and written back once, a
  slot is reused only after its write-back, both reads of a chunk belong to it, bursts
  cover the range and never cross 4 KiB;
- *native scheduler and closed loop*: same samples as the definition, credits bounded, a
  decision still true when it is carried out, every bucket's far point written back before
  the iteration ends, no wait without end;
- *the Python cycle models*: no bucket, transaction or recorded action is lost between
  scheduler, engine and memory, whatever arbitrates and answers; the strict ones decide in
  every cycle what the native scheduler does;
- *event simulator*: it walks no cycles, so what it works out ahead (issue and accept cycles,
  the memory's answers) must be what a FIFO and a memory living in time would do;
- *preprocessor*: every point in one bucket, boxes around their points, files that the loader
  takes, samples that lead back to the points of the input.

The hard behaviours are listed one by one, with their lines, under `hazards` in
`PROJECT.json`: state read at one time and used at another (the merge count in a
descriptor), engines at different speeds around two bounded FIFOs, counters compared
before they are updated, leftovers of an earlier job, resets in the middle of
everything, ties.

## Modules

| Module | What it is |
|---|---|
| `FarthestPoint` | abstract specification: sampling by its definition |
| `QuickFpsCore` | the functional core: both engines, memories, FIFOs, host, reset |
| `LineClouds`, `MCQuickFpsCore` | clouds of points on a line for TLC, shared with `MCClosedLoop`; the core on them |
| `QuickFpsCore_proofs` | the core's types; its counts, merge slots and host; its distances, far points and samples: it implements `FarthestPoint` |
| `PointBatches`, `MCPointBatches`, `PointBatches_proofs` | the point engine and its array edge by edge; it does what `QuickFpsCore` has it do in a pass, in the cycles the models charge |
| `FloatUnits` | the truncating floating-point units, their widths as parameters |
| `BoxBound`, `MCBoxBound`, `BoxBound_proofs` | the two distance pipes made of them, and the decision between the two; it is exact for every width |
| `BoundedQueue` | abstract specification: a queue of a given capacity |
| `SyncFifo` | the pointer-level FIFO; it implements `BoundedQueue` |
| `BucketDecisionPipe`, `MCBucketDecisionPipe`, `BucketDecisionPipe_proofs` | stages, credits and FIFO of the decision pipe; with its FIFO (an instance of `SyncFifo`, proved a queue here) it is again a `BoundedQueue` |
| `ChunkStream` | abstract specification: chunks loaded, computed and written back in order, once, two on chip |
| `PingPongChunks`, `MCPingPongChunks`, `PingPongChunks_proofs` | the chunk controller by itself, engines of any timing; it implements `ChunkStream` |
| `AxiBurst`, `AxiBurst_proofs` | a DMA engine, reader or writer: one command as a sequence of AXI bursts; lemmas about its steps |
| `StreamSubsystem`, `MCStreamSubsystem`, `StreamSubsystem_proofs` | the controller, three `AxiBurst` engines and, external to them, memory, slot buffers, computation and result stream |
| `BucketedCloud` | what the cycle models share: a preprocessed image and its assumptions |
| `NativeScheduler` | the C++ bucket scheduler: one step per cycle |
| `ChunkedPointEngine` | the cycle model's point engine: tasks cut into chunks over a memory of any timing |
| `ClosedLoop`, `MCClosedLoop`, `ClosedLoop_proofs` | the driver around both; it implements `FarthestPoint` |
| `ModelSetup` | which scheduler, point engine, arbiter and memory a cycle model is made of |
| `StrictScheduler` | the loops of the strict (and summary) and of the direct Python model |
| `WorkloadGenerator` | `generate_workload.py`: the sampling algorithm with its decisions written down |
| `TracedScheduler` | the three loops that replay such a workload |
| `DmaPointEngine` | the point engine with tags, DMA queues, windows, arbiters, batches and resident points |
| `MemoryBackends` | the banked DRAM model, and the DRAMsim3 bridge with its clock ratio |
| `CycleModels`, `MCCycleModels` | all of these put together; the strict ones implement `ClosedLoop`, all of them `FarthestPoint` |
| `EventMemory` | the event simulator's memory, which tells in advance when a request will be served |
| `EventSimulator` | scan, issue and chunk events of the C++ simulator |
| `KdPreprocess` | median splits, reordering, the widths of the entry's fields and the loader's check |
| `EventWorkload`, `MCEventWorkload` | preprocessor, files, loader and event simulator from end to end |

### QuickFpsCore

One action per state of the bucket engine and per outcome (`Issue`, `Defer`, `Skip` in
S_ACTION; `Wait` is the edge on which the engine only commits its ports), one action per
step of the point engine, plus the host and reset. The variables are the RTL registers
(`cnt`, `winner`, `sample`, `pos` for travel_pos, `issued`, `collected`, `pend`, `best`,
...), the memories, and the FIFOs as sequences (their pointer-level implementation is
`SyncFifo`'s subject). The registered write enables are the three ports `bbPort`,
`mbPort`, `resPort`: a write asked for by one edge is committed by the engine's next.

Two abstractions matter. First, the engines interleave freely, where the RTL steps both
on one clock; the FIFOs decouple them, so the lockstep schedules are among the
interleavings and a few more are allowed. Second, a point stands for its
coordinates: a cloud gives the distance of two points and the distance of a point to a
bucket's box. The decisions only compare distances; the one fact about them the
design needs, that the box bound is no larger than the distance to any point in the box,
is the assumption `DistAssumption`; `BoxBound` checks it for the RTL's arithmetic and `BoxBound_proofs` proves it for
every width.
Distance latency (S_WAIT_CD) is one step with S_FETCH: nothing else of the engine happens
meanwhile. The point engine works at the grain of a pass over its bucket; `PointBatches` has
it at the grain of an edge.

The host (`HostStart`, `HostRelease`) loads entries and distances only while the core is
neither busy nor done, as `quickfps_core_top.v` asserts, writes either +INF (the
preprocessor) or 0 (the end-to-end test bench) as the first far distance, and cannot
touch the merge buffer, whose counts survive from job to job. `sample_n` and `bucket_m`
are unregistered inputs and stay put during a job. Reset may come at any time.

### PointBatches

One action per state of `point_engine_top.v`, and every action moves the array (`Array`), which
nothing stops. The `L` columns of an array row are one shift register of `L * PE_STAGES` places
(`rows`); a row meets a column's reference as it enters that column (`Against`), because that is
where `pe.v` subtracts, and the minimum it takes four registers later is already in its `dist`.
So a reference loaded while rows are still under way would be used by the wrong ones, as in the
code. `request` are the registered memory address and lanes. A row carries the
local index of its first lane with LIDX_W bits (`LOCAL_INDICES`). Memory reads are those of `dist_buffer.v` and
`coord_buffer.v`; an address stands for the coordinates stored there. The FIFO in front is
filled once per job; behind it, `full` is the return FIFO's. `before` and `age` are
history: the distances when the task was taken, and the edges since (counted up to `MAX_AGE`, more
than any task takes).

### FloatUnits and BoxBound

`FloatUnits` are the four combinational units, bit by bit as far as results differ: aligned
mantissas cut off, small differences flushed to zero, products cut off, infinities, no
subnormal results, magnitudes compared as integers. In `BoxBound` one point of a bucket meets one
sample: an action per axis squares what the two pipes of `bucket_cd.v` and the one of `pe.v` subtract
and adds it in the order x, y, z; then `bucket_ib.v` decides for a bucket whose far distance is any
number. Since the squares of an axis do not depend on the other axes, each step takes any
result an axis can have. Powers of two are a recursive function (`Pow2`), so that the units can be proved about.
Coordinates of points are finite and non-negative (`CoordinatesAssumption`), as `FUNCTIONAL_CORE.md` asks and
the preprocessor's normalisation makes them. That is necessary: `fp32_box_gap.v` compares
magnitudes when signs agree, so with box and sample both negative it sees the sample on
the wrong side.

### SyncFifo and BucketDecisionPipe

`SyncFifo!Edge` is the always-block with its two conditions evaluated before the edge;
the pointers count modulo `2 * DEPTH`. It is instantiated by the decision pipe, so what
is checked and proved of the pipe is about the real FIFO. In the pipe one `Edge` moves
the four stages, the credit counter and the FIFO together; the producer offers any entry
or none and the consumer is ready or not on every edge. A decision is computed from
the entry (`Action` is `bucket_ib.v`).

### PingPongChunks, AxiBurst and StreamSubsystem

`PingPongChunks` is one always-block, so an edge is one action: `Rest`, `Accept` or `Work`,
the block's three branches, or `Reset`. The parameters of `Work` are the module's inputs.
Registers that are used together are records: `load` (the reservation with its two
commands and the two answers seen), `compute`, `write`. Every right-hand side reads the
registers before the edge; where two assignments can meet, `SlotStep` applies them in the
order of the code. By itself (`WorkWhen`) the controller is given every input its own
`$fatal` assertions allow: an answer comes only to an accepted request, and once.

`AxiBurst` has an engine's registers in the record `dma`. Reader and writer share the
splitting and differ in the data phase: the reader trusts the slave's last-beat flag and
notes a length other than the one asked for, the writer counts and waits for a
response. The output `busy` is left out, nothing reads it. The length register has its eight
bits.

`StreamSubsystem` steps the controller and the three engines on the same edge, each reading
the others' outputs from before it. External are: the AXI slaves, which answer in order,
at any speed, and make at most `MAX_MISTAKES` mistakes in a bucket (a read burst ended early or
a beat late, an error response); the two slot buffers, which change slot at a stream's last beat,
because the streams do not name a slot; the computation; and the result stream, in the
order chunks were computed. A distance is the pair of its address and the number of
times it was recomputed, a coordinate its address, so "the right data once" is visible.
`wrong` and `mistakes` are history: the engines whose current command met a mistake, and how many there were.

### BucketedCloud, NativeScheduler, ChunkedPointEngine and ClosedLoop

`ClosedLoop!Cycle` is one turn of the driver's loop in `native_closed_loop.py`: it asks
the point engine what it can take and what it has, steps the point engine, then the
scheduler, and carries a bucket one way and a far point the other. So the scheduler acts
on the queues as they were *before* the engine's step, and on the engine's idleness
*after* it; `CycleWith` binds the first two and passes `Idle`, which is about primed
variables, for the third.

`NativeScheduler!Step` is the C++ `step`. It first evaluates every predicate on the old
state and then moves the queues, so the definitions of `Pipelines` are mostly over unprimed
variables; where the code does look at what it has just changed, the model does too (the
decision is made from the table after the write-back and the issue of this step, and the end of
the scan is judged on the queues after it). An entry of a timed queue carries the steps left to its
`ready_cycle` (`wait`) instead of the cycle number, which keeps the states finite. `Elapse`
runs over the entries added in the step as well, since the cycle counter advances at its end.
`iteration_` is always `sampled_count_ - 1` and is not kept.

`ChunkedPointEngine!PointStep` is the engine's step. A chunk's state is its phase; the code's
slot owners, DMA queue and tags follow from the phases (the module's header says how) and are
not variables. The memory is abstracted to the set `moved` of chunks whose load,
computation or write ends at this step, any subset of those under way: this covers every
back end in `cmodel/quickfps_cycle`, every latency and every order of answers, and leaves out
how a transfer is cut and arbitrated. A chunk's arithmetic is done when its computation ends, with
the references the descriptor carried.

The driver builds a model on a fresh copy of an image (`Build`), handles a sample count of
one without a scheduler (`Run`), and gives up after `max_cycles` (`TimeOut`, possible at any
point). In the refinement mapping a
sample is appended when the iteration completes and the job is finished when the list is
returned.

### StrictScheduler, TracedScheduler, DmaPointEngine, MemoryBackends and CycleModels

These are the Python models without the native scheduler. `CycleModels!CycleWith` is one turn
of a model's loop, in the code's order: the point engine steps with what the memory
completed in the turn before, the scheduler acts, the memory ticks; the last turn has no tick.
`setup` names the class: scheduler, point engine, arbiter, memory, and whether the points are
resident.

Unlike the native step, a Python loop updates its queues one statement after another. So a
scheduler is a chain of functions on a record of `run`'s local variables: `StrictCycle` passes
the state so far (`s`) along and looks at the state before the cycle (`b`) exactly where the
code has a variable `..._before`. `summary_closed_loop.py` has the same loop with the batched
engine and no event list. `DirectCycle` is the model without SRAM stages. `ImplementsClosedLoop`
says that every turn of a strict model is a step of `ClosedLoop`, with the chunk phases read
off the tags and flags (`DmaPointEngine!Phase`): the two implementations of the scheduler, one in
C++ and one in Python, and the detailed and the abstract engine agree cycle by cycle.

A trace-driven model has no summaries. `WorkloadGenerator` runs the algorithm bucket by bucket
and writes down one action per bucket and iteration; `TracedScheduler` replays it. The three
models differ in what the code's comments are about: `model.py` has a pipeline that stops, cooldown
included, when an issue finds no room; `cycle_model.py` frees a credit in the cycle a decision
leaves (`HasCredit(s)`); `strict_cycle_model.py` in the next (`HasCredit(b)`). All three take
far points and ask for room *after* the engine's step, where the closed-loop models ask before.

`DmaPointEngine` cuts a chunk's reads and write-back into transactions of a line, a tag each. The
engines differ in the way of a transaction: `fifo` has one queue, `streams` a queue and a window
per stream, arbitrated one transaction at a time (`SubmitEach`), `batched` picks a cycle's
transactions first, windows and cursor moved on as if all were taken, and commits the part
before the first that is refused (`SubmitBatch`). So after a refusal the round-robin cursor is not
where submission one by one would have left it, and later grants may differ, though
`MEMORY_MODEL_OPTIMIZATION.md` describes batching as a change of calls only; results do not
depend on it. Times are what remains of them, and a tag is
named by what it was drawn for instead of by a number, which keeps the states finite.

`MemoryBackends` has the banked model in full at the grain of single bursts (a request is
one line) and the bridge: DRAMsim3 calls back with an address and a direction, and the
bridge gives that to the oldest tag waiting there. DRAMsim3 itself is external: it has room for so
many reads and writes and answers any number of them, in any order, at each accelerator cycle in which
its own clock ticks.

### KdPreprocess, EventMemory, EventSimulator and EventWorkload

`Preprocess` is `preprocess_once`: the largest leaf is split at its median along its longest side
until there are enough, leaves keep their place in the list, and a leaf's points are put in
input order. Coordinates are integers in space. Normalisation moves the cloud to the origin;
the division by its longest side, a change of unit but for rounding, is left out. `Packed` truncates
the count and the far index as the bit packer does, and `Valid` is the loader's check.

`EventSimulator` has an action for each thing the C++ does next: pass a bucket in the scan,
issue one, handle an event, move to the next event's cycle, end a task or an iteration. When a bucket is issued the
code follows it through all its events before the scan goes on, in simulated times that may lie
far ahead; the model does the same, so time is a number in the state and not a clock. It is bounded
by `MAX_CYCLES`, the code's own limit. `EventMemory!Schedule` computes when a request will be
served from when each lane, bank and bus will be free. The calibrated scales of the latency are
fractions. `bucket_issue_ii` is not used by the simulator's code and so not by the model. The
wall-clock limit may pass whenever it is looked at.

## What the runs check

| Run | Instance | Shows |
|---|---|---|
| `core_clouds` | every cloud of 4 points at 4 places on a line, both ends' cuts into 2 buckets, all 4 samples, `MB_CAP = FIFO_DEPTH = L = 1` | `TypeOK`; `SummariesExact`: between iterations the stored distances with the pending merges are every point's exact distance to the samples and each entry names its exact far point; `ExactSampling`: the core implements `FarthestPoint` |
| `core_jobs` | jobs of 0, 1, 2 and 6 samples, with resets: over 4 clouds of 7 points in 3 buckets, and in any order over 3 clouds of 1, 2 and 3 buckets; 2 merge slots, 2 references a pass, FIFOs of one entry | `FrozenReferences`, `QuietWhenNotBusy`, `ReturnsMatchIssues`, `MergeNeverOverflows`, `JobCompletes`, `ExactSampling` |
| `fifo` | depth 4, three words | `ImplementsQueue` |
| `decision_pipe` | depth 4, the least the module accepts | `CreditExact`, `ImplementsQueue`, `Unblocked` |
| `chunks` | chunks of 2 points, buckets of 0, 1, 4, 5 and 8 points | `TypeOK`, `ChunksInOrder`, `ImplementsStream` |
| `stream` | chunks of 4 points, buckets of 0, 3 and 9 points, 3 bytes of coordinates, beats of 2 bytes, pages of 8, bursts of at most 3 beats; at most one mistake of a slave in a bucket | `ControllerContract`, `ComputesItsChunk`, `EachDistanceUpdatedOnce`, `BurstsFit`, `FaultsFlagged`, `BucketFinishes` |
| `closed_loop` | 7 clouds of 7 points in 3 buckets, 1 and 6 samples, chunks of one point, every queue of the engines one deep, latencies 2 and 5, two merge slots | `OutstandingExact`, `DecisionsStand`, `FarPointsExact`, `RunEnds`, `ExactSampling` |
| `cycle_models` | the same 7 clouds, 1 and 6 samples; direct, strict and the three trace-driven schedulers with the banked memory, in round robin and priority, streaming and resident; on one cloud direct, streams, batched and traced models with DRAMsim3 | `NothingLost`, `ImplementsClosedLoop`, `RunEnds`, `ExactSampling` |
| `event_workload` | 3 clouds of 9 points in space, into 1, 3 and 4 buckets, normalised or not; 1 and 7 samples from two first points; Point Buffer streaming, forced and automatic at and just below the working set | `FifoWithinDepth`, `ArrivalsInOrder`, `FarthestInInput`, `ExactSampling` |
| `large_clouds` | the same with a far index of 2 bits for 9 points | that `EveryImageLoads` does *not* hold |
| `point_batches` | the default 4 by 4 array over 17 points on a line, 16 local indices; buckets of 0, 1, 3, 4, 5, 9 and 16 points at two bases, alone and followed by one that shares a memory word; 0, 3, 4 and 8 merges | `DistancesExact`, `ReturnExact`, `LatencyAsModelled`, `TaskAnswered` |
| `box_bound` | exponents of 3 bits, fractions of 2: all 28 non-negative finite numbers as coordinates, samples of both signs | `PruningExact` |

`NothingLost` is three statements: `BucketsAccounted`, that `outstanding` counts exactly the
buckets on their way and none of them twice; `TagsAccounted`, that every transaction a chunk waits
for is in one DMA queue, in the memory or on its way back, and that windows and bridge
count exactly those; and `ActionReplayed`, that a trace-driven model carries out the actions of its
workload in order, each once, and ends an iteration only when all buckets are back.
`FifoWithinDepth` compares the simulator's arithmetic with a FIFO: at every issue, those accepted in
that cycle or later are fewer than its depth, and a scan that had to wait could not have gone on a cycle
earlier. `ArrivalsInOrder` is what makes a memory that only
keeps "free from" times right: it is asked in the order of time, across events, buckets and iterations.
`FarthestInInput` follows each sample back through the reorder map.

`large_clouds` documents a disagreement. `EVENT_DRIVEN_LARGE_WORKLOAD.md` offers the event-driven
model for clouds of up to a million points, and the preprocessor writes its files for any size; the bucket entry
keeps 18 bits of the far point's index (`quickfps_preprocess.cpp:406`), so from 262 145 points on
the initial far points of later buckets wrap and the loader refuses the image. The run shows it with 2 bits and 9 points.

`DistancesExact` and `ReturnExact` say of the point engine, edge by edge, what `QuickFpsCore` takes
for granted of a pass. `LatencyAsModelled` compares the two sides of the repository: the edges from taking a
descriptor to offering its result are those that `rtl_point_engine_latency` charges in
the cycle models. `PruningExact` says that a skipped bucket, and the far point of a deferred one,
keeps its distance bit for bit as if the array had recomputed it; for the latter the two pipes must agree although one
subtracts the point and the other the sample. `FaultsFlagged` is an equivalence, so the
flag is not raised for a clean command after a faulty one either. `ControllerContract` and
`BucketFinishes` hold with mistakes of the slaves too: a stream of the wrong length disturbs the data, not the
order. Nothing above the engines reads the flag, so such a bucket ends like any other.

Why the bounds are enough. `core_clouds` contains coincident points, ties between and
within buckets, interleaved buckets (boxes that overlap) and every order of samples
from point 0; one merge slot and one reference per pass reach forced issues and
multi-pass recomputation. The four clouds of `core_jobs` that are always in 3 buckets were chosen, by search, because each
job takes all of: skip, defer, skip with merges pending, issue with merges pending, and
issue because the slots are full, with a lost merge changing the samples. FIFO depth 1
with three buckets is the smallest depth that does not deadlock: of one iteration's
buckets one can be in the point engine and one depth in each FIFO, so a core of `B`
buckets needs `2 * FIFO_DEPTH + 1 >= B`, which the design's stricter check
(`FIFO_DEPTH >= BUCKETS`) implies. The other three clouds follow each other, so
a cloud with fewer buckets comes after one with more. `chunks` has buckets of none, one, two, three and four chunks, the last one full or
short, so each slot is reused while the other is in every state. In `stream` a coordinate
transfer is cut by the page, by the burst limit and by its end, a distance transfer by the page, and a
last chunk of odd length ends in a beat with idle lanes. The mistake can come on any beat of any burst
of any chunk, and up to two beats can be missing, or one too many sent.
`closed_loop` reaches, each confirmed by a run that denied it: an issue carrying one and
two pending merges, the second forced by full slots; a skip with merges pending; a deferral while
other buckets are outstanding; a bucket FIFO that is full when a decision to issue is at the
head; a scheduler stopped for want of a credit; chunks computed out of order; two
far points in the write-back pipeline at once. The far FIFO never fills, because the
scheduler takes from it on every cycle: the guard `FarRoom` matters only as far as it must not
be stricter than the FIFO. The same properties held with all latencies and depths at their
least, and for all clouds of 4 points in 2 buckets.

In `cycle_models` chunks of one point and three-byte coordinates in lines of four bytes make
transactions that share a line, in both directions, and chunks of one and of two lines; the
base addresses keep coordinates and distances apart. Two lanes, windows of two, a memory
queue of three (banked) or room for two reads and one write (DRAMsim3) are each exhausted, so a
batch is refused in part; two banks with rows of two lines give hits, conflicts and closed rows, and
three accelerator cycles to two DRAM ticks give cycles with no tick. The generator's merge capacity is one
where the models' is two, so recorded decisions are not those the closed-loop models make. With
FIFOs of one bucket a decision to issue waits at the head, and the three trace-driven schedulers
differ. DRAMsim3's freedom multiplies the states, so it is explored on one cloud.
In `event_workload` the clouds have equal coordinates, equal sides and a duplicate point; leaves of
two to five points take chunks of one; the FIFO of two, the smallest in which the oldest waiting
bucket is not the newest, is full at some issues. Fields of three bits hold every
index and count but one: the single bucket of nine points, whose image is refused. `MAX_CYCLES`
is reached by some streaming runs and by no resident one; both kinds also run to their end. All
of this was confirmed by runs that denied it.

In `point_batches` counts end a bucket in each lane that differs (1, 3 and a full word), in one
to four batches, the largest of as many points as there are local indices; merge counts give a pass that is not full, one that is, one reference too many for it
and three passes; the array is longer than any bucket, so that passes are told apart by counting rows
only. A return FIFO full at any time makes the tree and the array run on while the engine waits, and resets come
with rows inside. `box_bound` is exhaustive at its widths: every alignment shift, the
one past the fraction, flushes, overflow and the infinite sum occur.

Each property has a mutant in `PROJECT.json`, a plausible mistake in the code
under which its run finds it violated.

### Fairness

The core: weak fairness of each engine as a whole, `WF(BucketEngine)` and
`WF(PointEngine)`. Both are clocked processes, so an engine that can advance does; neither
the host nor reset is fair. The pipe: `WF` of an edge on which the consumer is ready,
which stands for a running clock and a consumer that is ready again and again (the
module has no control over it). `JobCompletes` and `Unblocked` rest on these. The chunk controller and the subsystem:
one weak fairness condition for each engine (with its slave) and one for the computation.
Each is on the edges at which that one is willing and the others are or are not, so each
is willing again and again and no two need to be so on the same edge. Slaves and streams
that stay silent for ever are the only thing excluded; `BucketFinishes` rests on this.

The closed loop: the driver's loop goes on (`WF(Cycle)`), and for each chunk number
`WF(Moves(k))`, that a load, computation or write under way ends some time. A cycle that
moves chunk `k` is possible exactly while one is under way, so this says no more than that
the memory answers; without it the engine would wait until `max_cycles` ends the run.
`RunEnds` does not lean on that limit: nothing makes `TimeOut` happen.

The point engine: the clock runs, and the return FIFO has room again and again (`WF(Edge(FALSE))`); the
bucket engine drains that FIFO when it collects.

The cycle models: the loop takes its turns while the model runs (`while cycle < max_cycles`), and DRAMsim3 does not for
ever hold back all it has taken. The first promises turns, not that a turn changes anything: a model at a
standstill would stutter, and a condition on steps that change the model would assume just the deadlocks away that
`RunEnds` is to find. Therefore `turn`, the parity of the loop's `cycle`, is part of the state and changes with every `Cycle`; then
`[]<>` on the steps themselves (`Fairness`) is weak fairness of `Cycle`, without TLC's evaluation of
ENABLED on an action this large. That `Cycle` is possible whenever the model runs was confirmed by a run without `TimeOut`, which
found no deadlock. The second asks no more than strong fairness of `Answer`: DRAMsim3 can call back only in cycles with a DRAM
tick, which come again and again. The banked memory is promised nothing, it answers by its own clock; so a standstill of
any of the trace-driven, resident and priority models violates `RunEnds`. The mutant of `RunEnds` is one that brings only models with the
banked memory to a standstill. The
event simulator has no liveness property: its loop cannot wait for anything.

## What is proved

All proofs are for every value of the constants that satisfies the named assumptions.

- `QuickFpsCore_proofs!TypeCorrect`: `Spec => []TypeOK`. The type invariant is not
  inductive by itself: that the walk stays inside the loaded cloud's buckets needs the
  relation of `pos`, `winner` and `bucket_m`, and that a far point exists needs the
  bucket of the task to be non-empty. The strengthening adds these facts. The
  proof has a lemma per engine and one for the helper operators (memory writes, the
  comparator tree on a finite non-empty set of rows).
- `QuickFpsCore_proofs!ReturnsCounted`, `MergesFit`, `HostUndisturbed`, `ReferencesKept`:
  the properties `ReturnsMatchIssues`, `MergeNeverOverflows`, `QuietWhenNotBusy` and
  `FrozenReferences`. The invariant `CoreInv` speaks of the memories *with their ports*
  (`Entries`, `Slots`, `Results`): a registered write counts as made, and `PortInv` says that one
  waits only in the states entered by driving it, from which nothing reads that memory.
  On top of it is an account of the buckets: those issued and not collected are, each once, in the
  issue FIFO, in the point engine or in the return FIFO (`Distinct`), and the walk has passed
  them (`RouteInv`). No write on its way is to one of them (`PortsClear`), so a task's merge
  count is its bucket's until it is back (`TaskInv`). `Account` tells up to which sample a
  bucket's merge slots are kept: the current one once it is walked and back, the one
  before it otherwise.
- `QuickFpsCore_proofs!SummariesKept`, `SamplesExactly`: the properties `SummariesExact` and
  `ExactSampling`, the refinement of `FarthestPoint`. `SamplingInv` adds to `CoreInv`, for each
  bucket: a kept distance is +INF or that to some sample (`Sound`); no sample accounted for
  is nearer than the kept distance and the pending merges (`Covered`); the entry's far
  distance is that of its far point to the samples, and every other point has a sample that
  keeps it behind (`Summary`). The last is what makes skipping and deferring right although the distance
  memory is stale. `PassInv` and `FarInv` follow a task: the passes done have applied
  their references, and what returns is the far point of distances that know every sample.
  Assumed: `CloudAssumption` (a cloud's buckets are numbered from 0 and not empty), and
  `DistAssumption`: distances are naturals below +INF and symmetric, and the box bound is no larger than any
  distance into the box.
- `ClosedLoop_proofs!BucketsReturn`, `DecisionsHold`, `FarPointsKept`, `SamplesAsDefined`: the properties
  `OutstandingExact`, `DecisionsStand`, `FarPointsExact` and `ExactSampling`, the refinement of `FarthestPoint`, all from
  `RunInvariant`. While a run is on, `RunInv` is `LoopInv` of the samples taken and the place of the walk:
  - `WalkInv`: the four queues up to the decision hold, in order, the consecutive positions of the walk that have not left
    (`Carried` is the first of them). A bucket's position is a bijection (`Walk`).
  - `ServiceInv`: the buckets from the bucket FIFO over the task and the far FIFO to the write pipeline are one line
    (`InService`) of rising positions, all before `Carried`. Hence each is there once, and none waits for a
    decision: this is `OutstandingExact`, and the reason why nothing writes the entry of a bucket between its decision and
    the moment the decision leaves.
  - `Stands`: a waiting decision agrees with the entry of its bucket. This is `DecisionsStand`, and holds because of the line.
  - `DataInv`: a kept distance is `Inf` or that to a sample. An entry knows the samples it accounts for
    (`Account`: the current one once the walk has passed the bucket, the one before it until then), by its distances
    or by its deferred samples (`WillKnow`), and its far point is exact for them (`Summary`). A task's chunks
    know all samples as they are written, in any order (`Reached`, `BestInv`: `moved` is any set of pending
    chunks, so the order is the memory's), and so does the far point that results.
  At the end of an iteration all queues are empty, so that every entry accounts for every sample, and the farthest of their far
  points is the farthest point (`FarthestIs`). Assumed: points are the indices of an array, buckets contiguous
  nonempty ranges, distances symmetric naturals below `Inf`, the box bound never above a distance of the bucket's
  points, positive sizes and `DECISION_DEPTH >= CD_LATENCY` (`validate_config`), and that a later model is built
  on such a cloud again (`ReloadAssumption`).
- `PointBatches_proofs!DistancesAreExact`, `ReturnIsExact`, `LatencyIsModelled`: the properties `DistancesExact`,
  `ReturnExact` and `LatencyAsModelled`, all from `EngineInvariant`. The sequencer gets no answer from the array, so the
  invariant says what is where by the clock: `StreamInv(j)` is the state after `j` edges of a pass. Stage `i` of the array
  holds batch `j - i`, which has met the references of the passes before and of the columns up to its own (`RowHolds`,
  `MetBehind`). The points before batch `j - L * PE_STAGES` have met all references of the pass and the others those of
  earlier passes (`Distances`). In the last pass the tree has the far point of exactly these (`TreeHas`, `TreeGrows`). The
  counters and the request follow from `j` too, so that `Drained` is reached at one edge only, with the array empty
  (`PassEnds`), which is the reason why the next references can be loaded and the tree read. `Working` ties `age` to pass and
  edge. Assumed: the elaboration checks and positive sizes (`ArrayAssumption`), buckets inside the memory with no more points
  than local indices (`WorkloadsAssumption`), distances below `Inf`, which is that of an unused column, and for the latency
  that the cycle models are configured with the array's sizes and their fixed three cycles (`LatencyAssumption`, by the
  comment of `rtl_point_engine_latency`) and `MAX_AGE` is no bound for the buckets there are.
- `BoxBound_proofs!BoundKept`, `PruningIsExact`: the property `PruningExact`, from the invariant `BoundInv`: the bound of the
  box is not above the distance of the point, and `bucket_cd.v` and `pe.v` have the same distance to the bit. Neither is
  obvious, since both pipes cut off at every step. The argument: a unit's result is `Rounded`, that is, it lies between
  two neighbouring numbers that enclose the aligned sum, and `RoundedMono` makes such results monotone. Aligning cuts
  the smaller operand off, but to a multiple that depends on the larger one; a coarser cut keeps the order (`CutCoarser`), so
  sums and differences keep it (`SumMono`, `DifferenceMono`, `AddRounds`). A square depends
  on the exponent only through its clamp (`SquareMono`). The gap to a box is either below the normal numbers, where its square
  is flushed, or not above the difference to any point of the box (`GapBelow`); and the two pipes subtract in
  opposite order to the same magnitude (`SubFlips`). That `Pow2` is what its equation says needs a least
  counterexample (`Pow2Defined`). Assumed: positive widths, coordinates finite, those of points non-negative. So the
  8 and 23 bits of the RTL, far beyond what TLC can enumerate, are covered.
- `BucketDecisionPipe_proofs!NeverOverwritten`, `FifoIsQueue`: `SyncFifo` by itself, as the FIFO of the pipe but
  driven by anything: its `FullExactly` and `ImplementsQueue`. Of the depth only that it is positive is used. Type and
  `FullExactly` are inductive together (`Count` stays at most the depth because a write needs `~IsFull`,
  which is `Count = DEPTH`). The refinement maps the words between the pointers to the
  queue; each combination of write and read is one step of `BoundedQueue` or a stutter.
- `BucketDecisionPipe_proofs!CreditsExact`, `DecisionsKept`, `PipeIsQueue`,
  `FullRateHolds`: the credit equation with the FIFO's own invariant is inductive; it gives
  `NeverDropped`, since an entry in stage 4 holds a credit that is not a FIFO word. The queue
  refinement composes the FIFO's contents with the stages. `FullRateHolds` says that before a consumer that is
  always ready the pipe never refuses an entry. It needs
  `FIFO_DEPTH > 5`: four stages, the FIFO's word on show, and a credit that
  is usable only on the edge after it is freed. The module accepts depth 4; its default is
  8, for which the claim of one bucket per cycle (`src/README.md`) holds.
- `PingPongChunks_proofs!TypeCorrect`, `OrderKept`, `ChunksStream`: the invariant
  `StreamInv` says what each slot's state means for the engines (`EnginesInv`), that the
  chunks on chip are the consecutive ones from `completeCount` on, held by the slots
  alternately (`SlotsInv`), and that the older is ahead (`OrderInv`). The last part needs a
  fact not visible in the code: when the younger chunk can be offered or queued, the
  older one already has been, so that the fixed priority of slot 0 never chooses
  between two. `SlotMoves` shows that each assignment to a slot meets it in the one state it
  is meant for. The refinement maps chunks computed to those written back and those in
  a slot waiting for it. Assumed: sizes are positive, requests are records of naturals.
- `StreamSubsystem_proofs!ContractKept`, `BurstsStayInside`, `MistakesReported`: the properties
  `ControllerContract`, `BurstsFit` and `FaultsFlagged`. The invariant `SubsystemInv` has, beside the
  controller's own, four parts. `LinkInv`: the controller awaits an answer exactly while
  its engine is engaged, so that `done` can only come when it is expected; this is the
  contract. `AlignedInv`: every command begins on a beat. `EnginesInv`: the registers of an engine
  between and within bursts (`AxiBurst_proofs` has one lemma for each of its steps, over the arithmetic of beats
  and pages). `FaultsInv`: the flag is up exactly if the current command met a mistake,
  or the reader is past the last beat of a burst its slave ends too late, which raises the flag when it ends.
  The three engines are instances of one module, so are the lemmas. Assumed: the elaboration
  checks of the engines, aligned commands, positive sizes, and requests and addresses that are naturals.
- `StreamSubsystem_proofs!ChunksArrive`, `DistancesReturn`: the properties `ComputesItsChunk` and
  `EachDistanceUpdatedOnce`, from the further invariant `DataInv`, which follows the bytes. `CommandsInv`: a
  command is that of the chunk in its slot. `ProgressInv`: an engine's registers agree with the bytes it
  moved. `StreamsInv`: each stream is at the slot its chunk was given, or waits at the next one, and that slot
  holds what was moved of the command; chunks loaded or being computed are there in full. `ResultsInv`: the queue
  of results is what the computed chunks still wait to write, of the older one without what the writer
  took. The distance memory is that of the request, recomputed up to `Written`. `Fresh` is what holds at the
  start of a bucket and makes all of this true again. After a mistake of a slave only `CommandsInv` is
  claimed: a burst cut short leaves a slot with too few bytes, and the code only reports it. The properties
  say the same. Both properties fail to be inductive for the same reason: nothing a slot or a result carries
  names its chunk, so that they are the right ones rests on the order the controller keeps.

Only model-checked: all properties of `CycleModels`
and `EventWorkload` (folds over sequences of any length: induction over data), and all liveness (`JobCompletes`, `Unblocked`, `BucketFinishes`, `TaskAnswered`,
`RunEnds`: fairness and ENABLED are beyond the prover). Recursive
operators and induction over data are out of its reach as well; the modules avoid them.

## Plan

In order of importance:

1. Larger `cycle_models` instances: chunks of several points with the batched engine, two channels.
2. Proofs: that the strict cycle models implement `ClosedLoop` (`ImplementsClosedLoop`), which would carry `ExactSampling`
   over to them, and of `KdPreprocess` that leaves stay a partition of the input.
3. The core with `PointBatches` in place of its passes, as a refinement.

Done of the plan so far: the core, the point engine edge by edge, the arithmetic, the FIFO, the decision pipe, the streaming
subsystem with its chunk controller, DMA engines and slaves that make mistakes, the closed loop with the native
scheduler, the Python cycle models with their engines and memories, the trace-driven models, the
event simulator and the preprocessor.

## Not modelled

Arithmetic on a box and a sample that are both negative (see `BoxBound`), buckets of more points than there are local
indices (2048 by default: nothing in the RTL or the preprocessor refuses them, and their far index and write
addresses would wrap, see `WorkloadsAssumption`), host reads of the result memory, the
legacy and synthesis-only RTL blocks, cycle-count statistics, power and energy
arithmetic, report and file formats, synthesis and CI scripts, test benches. The streaming
subsystem is modelled for bus-aligned addresses and chunk sizes (`AlignedAssumption`): the
engines round a burst up to whole beats as if it began on one. The widths of its counters
are not modelled. Of the Python models the ctypes layout of their interfaces, the event lists,
the files' text formats and synthetic or hand-written workloads are left out; of the preprocessor
the rounding of its normalisation and its timing. Of the native
scheduler the statistics and the argument checks of its C interface are left out. The
components list in `PROJECT.json` gives the reason for each part.

## Running

`tlc -config core_jobs.cfg MCQuickFpsCore` and likewise for the other runs (`PROJECT.json`
lists module and configuration of each); `tlapm BoxBound_proofs.tla` and likewise for
the other proof modules.
