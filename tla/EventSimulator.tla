--------------------------- MODULE EventSimulator ---------------------------
(***************************************************************************)
(* The event-driven simulator, EventSimulator in C++.  Time is not walked  *)
(* cycle by cycle: the scan of the buckets works out in which cycle a      *)
(* bucket would be issued and accepted, and a bucket that is issued is at  *)
(* once followed to its end through the events of its chunks, before the   *)
(* scan goes on.  Times are cycles since the start of the run.             *)
(*                                                                         *)
(* The statistics, but the completed samples, are left out.                *)
(***************************************************************************)
EXTENDS BucketedCloud, EventMemory

CONSTANTS
  CD_LATENCY, READ_LATENCY, WRITE_LATENCY, FIFO_DEPTH, MERGE_CAP,
  CHUNK_POINTS, PE_ROWS, PE_COLS, PE_CELL, MERGE_LOAD, OVERHEAD, IO_PIPELINE,
  COORD_BYTES, DIST_BYTES, COORD_BASE, DIST_BASE,
  MAX_CYCLES       \* max_hardware_cycles

ASSUME EventSimulatorAssumption ==
  /\ {CD_LATENCY, READ_LATENCY, WRITE_LATENCY, FIFO_DEPTH, MERGE_CAP, CHUNK_POINTS, PE_ROWS,
      PE_COLS, PE_CELL, COORD_BYTES, DIST_BYTES, MAX_CYCLES} \subseteq Nat \ {0}
  /\ {MERGE_LOAD, OVERHEAD, IO_PIPELINE, COORD_BASE, DIST_BASE} \subseteq Nat

VARIABLES
  goal,            \* sample_count
  buffer,          \* the Point Buffer: its mode and its bytes
  sim,             \* the buckets and the local variables of simulate_iteration
  task,            \* those of schedule_task while it runs, in a sequence
  dram, mdt, samples, status

simulatorVars == <<sim, task, dram, mdt, samples, status>>

-----------------------------------------------------------------------------
(* The constructor. *)

WorkingSet == Cardinality(Points) * (COORD_BYTES + DIST_BYTES)
TooLarge   == WorkingSet > buffer.bytes
Resident   == buffer.mode = "resident" \/ (buffer.mode = "auto" /\ ~TooLarge)

TraversalOrder(sample) ==
  LET winner == BucketOf(cloud, sample)
  IN  <<winner>> \o SelectSeq([i \in 1..Cardinality(BucketIds) |-> i - 1], LAMBDA b : b # winner)

(* simulate_iteration begins. *)
Iteration(buckets, n, sample, start) ==
  [buckets |-> buckets, iteration |-> n, sample |-> sample, start |-> start,
   traversal |-> TraversalOrder(sample), position |-> 0,
   accepts |-> <<>>, head |-> 0, previousDone |-> start, commit |-> start, stall |-> 0]

FreshBuckets == [b \in BucketIds |-> [far |-> PointPtr(b), dist |-> Inf, merges |-> <<>>]]

NoSimulator == [iteration |-> -1]

(* A Point Buffer that is forced to hold all points must be large enough. *)
Create ==
  /\ ~(buffer.mode = "resident" /\ TooLarge)
  /\ sim' = NoSimulator /\ task' = <<>> /\ dram' = IdleMemory
  /\ mdt' = [p \in Points |-> Inf]
  /\ samples' = <<>>
  /\ status' = "created"

Start(first) ==
  /\ status = "created"
  /\ samples' = <<first>>
  /\ IF goal = 1
     THEN status' = "ended" /\ UNCHANGED sim
     ELSE status' = "running" /\ sim' = Iteration(FreshBuckets, 0, first, 0)
  /\ UNCHANGED <<task, dram, mdt>>

-----------------------------------------------------------------------------
(* The scan. *)

Scanning == status = "running" /\ task = <<>> /\ sim.position < Len(sim.traversal)

Visited == sim.traversal[sim.position + 1]

Decision(bucket, b) ==
  LET far == Dist(cloud, bucket.far, sim.sample)
  IN  CASE sim.iteration = 0 \/ ~(bucket.dist < far) -> "issue"
        [] OTHER -> IF bucket.dist < Gap(cloud, sim.sample, b) THEN "skip"
                    ELSE IF Len(bucket.merges) >= MERGE_CAP THEN "issue" ELSE "defer"

(* A bucket that is not issued, with the sample deferred or not. *)
Pass ==
  /\ Scanning
  /\ Decision(sim.buckets[Visited], Visited) # "issue"
  /\ sim' = [sim EXCEPT
               !.position = @ + 1,
               !.buckets[Visited].merges =
                  IF Decision(sim.buckets[Visited], Visited) = "defer"
                  THEN Append(@, sim.sample) ELSE @]
  /\ UNCHANGED <<task, dram, mdt, samples, status>>

Frontend == READ_LATENCY + CD_LATENCY + 2

(* How many of the issued buckets were accepted before the given cycle. *)
HeadAt(cycle) ==
  FoldLeft(LAMBDA h, i : IF h = i - 1 /\ sim.accepts[i] < cycle THEN i ELSE h,
           sim.head, [i \in DOMAIN sim.accepts |-> i])

MutantFull(occupancy) == occupancy > FIFO_DEPTH

Full(occupancy) == occupancy >= FIFO_DEPTH

(* A bucket is issued in its turn or, when the FIFO is full, in the cycle  *)
(* after its oldest bucket is accepted.                                    *)
IssueCycle ==
  LET cycle   == sim.start + Frontend + sim.position + sim.stall
      head    == HeadAt(cycle)
  IN  IF Full(Len(sim.accepts) - head) THEN Later(cycle, sim.accepts[head + 1] + 1) ELSE cycle

MutantAcceptCycle(issued, previousDone) == issued + 1

(* It is accepted when the point engine has done with the one before. *)
AcceptCycle(issued, previousDone) == Later(issued + 1, previousDone + 1)

Event(cycle, kind, k) == [cycle |-> cycle, kind |-> kind, chunk |-> k]

Chunks(b) == 0..(Cardinality(Members(b)) + CHUNK_POINTS - 1) \div CHUNK_POINTS - 1

ChunkPoints(b, k) ==
  Members(b) \cap PointPtr(b) + k * CHUNK_POINTS..PointPtr(b) + (k + 1) * CHUNK_POINTS - 1

(* The first two chunks may be loaded at once, one into each slot. *)
NewTask(b, cycle) ==
  [bid |-> b, refs |-> Append(sim.buckets[b].merges, sim.sample),
   mcnt |-> Len(sim.buckets[b].merges), clock |-> cycle,
   chunks |-> [k \in Chunks(b) |-> [loaded |-> FALSE, started |-> FALSE, written |-> FALSE]],
   events |-> {Event(cycle, "LoadStart", k) : k \in Chunks(b) \cap {0, 1}},
   computing |-> FALSE, completed |-> 0,
   best |-> [dist |-> -1, idx |-> PointPtr(b)]]

Issue ==
  /\ Scanning
  /\ Decision(sim.buckets[Visited], Visited) = "issue"
  /\ LET cycle  == sim.start + Frontend + sim.position + sim.stall
         accept == AcceptCycle(IssueCycle, sim.previousDone)
     IN  /\ sim' = [sim EXCEPT
                      !.stall = @ + (IssueCycle - cycle),
                      !.head = HeadAt(IssueCycle),
                      !.accepts = Append(@, accept),
                      !.buckets[Visited].merges = <<>>]
         /\ task' = <<NewTask(Visited, accept)>>
  /\ UNCHANGED <<dram, mdt, samples, status>>

-----------------------------------------------------------------------------
(* The events of a bucket. *)

T == task[1]

Rank(kind) ==
  CASE kind = "LoadDone" -> 0 [] kind = "WriteDone" -> 1
    [] kind = "LoadStart" -> 2 [] kind = "ComputeDone" -> 3

Before(e, o) ==
  \/ e.cycle < o.cycle
  \/ e.cycle = o.cycle /\ Rank(e.kind) < Rank(o.kind)
  \/ e.cycle = o.cycle /\ e.kind = o.kind /\ e.chunk <= o.chunk

First(events) == CHOOSE e \in events : \A o \in events : Before(e, o)

Current == First(T.events)
Chunk   == Current.chunk

(* The next event is of the given kind, in the cycle that is handled. *)
Handles(kind) ==
  /\ status = "running" /\ task # <<>> /\ T.events # {}
  /\ Current.cycle = T.clock /\ Current.kind = kind

Followed(by) == (T.events \ {Current}) \cup by

ChunkRange(base, bytes, isWrite) ==
  [address |-> base + (PointPtr(T.bid) + Chunk * CHUNK_POINTS) * bytes,
   size |-> Cardinality(ChunkPoints(T.bid, Chunk)) * bytes, isWrite |-> isWrite]

(* schedule_load *)
LoadStart ==
  /\ Handles("LoadStart")
  /\ LET sent == Schedule(dram, T.clock, <<ChunkRange(COORD_BASE, COORD_BYTES, FALSE),
                                           ChunkRange(DIST_BASE, DIST_BYTES, FALSE)>>)
         done == IF Resident THEN T.clock + READ_LATENCY ELSE sent.served
     IN  /\ dram' = IF Resident THEN dram ELSE sent.memory
         /\ task' = <<[T EXCEPT !.events = Followed({Event(done, "LoadDone", Chunk)})]>>
  /\ UNCHANGED <<sim, mdt, samples, status>>

LoadDone ==
  /\ Handles("LoadDone")
  /\ task' = <<[T EXCEPT !.events = Followed({}), !.chunks[Chunk].loaded = TRUE]>>
  /\ UNCHANGED <<sim, dram, mdt, samples, status>>

Nearest(p) ==
  FoldLeft(LAMBDA v, r : LET d == Dist(cloud, p, r) IN IF d < v THEN d ELSE v, mdt[p], T.refs)

BestOf(rows) ==
  CHOOSE r \in rows : \A o \in rows \ {r} : Better(r.dist, r.idx, o.dist, o.idx)

(* compute_chunk and schedule_write *)
ComputeDone ==
  /\ Handles("ComputeDone")
  /\ LET points == ChunkPoints(T.bid, Chunk)
         rows   == {[dist |-> Nearest(p), idx |-> p] : p \in points}
         sent   == Schedule(dram, T.clock, <<ChunkRange(DIST_BASE, DIST_BYTES, TRUE)>>)
         done   == IF Resident THEN T.clock + WRITE_LATENCY ELSE sent.served
     IN  /\ mdt' = [p \in Points |-> IF p \in points THEN Nearest(p) ELSE mdt[p]]
         /\ dram' = IF Resident THEN dram ELSE sent.memory
         /\ task' = <<[T EXCEPT !.events = Followed({Event(done, "WriteDone", Chunk)}),
                                !.computing = FALSE,
                                !.best = BestOf(rows \cup {@})]>>
  /\ UNCHANGED <<sim, samples, status>>

(* The chunk that takes the slot of chunk k. *)
NextInSlot(k) == k + 2

WriteDone ==
  /\ Handles("WriteDone")
  /\ LET next == {NextInSlot(Chunk)} \cap DOMAIN T.chunks
     IN  task' = <<[T EXCEPT
                      !.events = Followed({Event(T.clock, "LoadStart", k) : k \in next}),
                      !.chunks[Chunk].written = TRUE,
                      !.completed = @ + 1]>>
  /\ UNCHANGED <<sim, dram, mdt, samples, status>>

PointLatency(points, merges) ==
  LET batches == (points + PE_ROWS - 1) \div PE_ROWS
      passes  == (merges + 1 + PE_COLS - 1) \div PE_COLS
  IN  passes * (MERGE_LOAD + batches + PE_COLS * PE_CELL) + OVERHEAD + IO_PIPELINE

(* The array starts on the first chunk that is loaded. *)
StartCompute(t) ==
  LET ready == {k \in DOMAIN t.chunks : t.chunks[k].loaded /\ ~t.chunks[k].started}
      k     == CHOOSE i \in ready : \A j \in ready : i <= j
      done  == t.clock + PointLatency(Cardinality(ChunkPoints(t.bid, k)), t.mcnt)
  IN  IF t.computing \/ ready = {} THEN t
      ELSE [t EXCEPT !.chunks[k].started = TRUE, !.computing = TRUE,
                     !.events = @ \cup {Event(done, "ComputeDone", k)}]

CycleHandled ==
  /\ status = "running" /\ task # <<>>
  /\ \A e \in T.events : e.cycle # T.clock

AllWritten == T.completed = Cardinality(DOMAIN T.chunks)

(* On to the cycle of the next event. *)
Advance ==
  /\ CycleHandled /\ ~AllWritten
  /\ LET t == StartCompute(T)
     IN  /\ t.events # {}
         /\ task' = <<[t EXCEPT !.clock = First(t.events).cycle]>>
  /\ UNCHANGED <<sim, dram, mdt, samples, status>>

EndTask ==
  /\ CycleHandled /\ AllWritten
  /\ sim' = [sim EXCEPT
               !.buckets[T.bid] = [far |-> T.best.idx, dist |-> T.best.dist, merges |-> @.merges],
               !.previousDone = T.clock,
               !.commit = Later(@, T.clock + 1 + WRITE_LATENCY),
               !.position = @ + 1]
  /\ task' = <<>>
  /\ UNCHANGED <<dram, mdt, samples, status>>

-----------------------------------------------------------------------------
(* The iterations. *)

GlobalFar ==
  LET B == sim.buckets
      best == CHOOSE b \in DOMAIN B :
                \A o \in DOMAIN B \ {b} : Better(B[b].dist, B[b].far, B[o].dist, B[o].far)
  IN  B[best].far

Completion ==
  Later(sim.start + Frontend + Len(sim.traversal) + sim.stall, sim.commit) + 1

Scanned == status = "running" /\ task = <<>> /\ sim.position = Len(sim.traversal)

EndIteration ==
  /\ Scanned
  /\ Completion <= MAX_CYCLES
  /\ samples' = Append(samples, GlobalFar)
  /\ IF Len(samples') = goal
     THEN status' = "ended" /\ UNCHANGED sim
     ELSE /\ status' = "running"
          /\ sim' = Iteration(sim.buckets, sim.iteration + 1, GlobalFar, Completion)
  /\ UNCHANGED <<task, dram, mdt>>

(* The limits: of simulated cycles, at the end of an iteration, and of     *)
(* real time, which may have passed when one begins.                       *)
OutOfCycles == Scanned /\ Completion > MAX_CYCLES
OutOfTime   == Scanning /\ sim.position = 0

Step ==
  \/ Pass \/ Issue
  \/ LoadStart \/ LoadDone \/ ComputeDone \/ WriteDone \/ Advance \/ EndTask
  \/ EndIteration
=============================================================================
