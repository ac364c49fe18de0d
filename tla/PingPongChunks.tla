---------------------------- MODULE PingPongChunks ----------------------------
(***************************************************************************)
(* pingpong_chunk_ctrl.v: streams the points of a bucket through two       *)
(* on-chip slots, chunk by chunk.  For each chunk two DMA reads run side   *)
(* by side (coordinates and distances), the point engine computes it, and  *)
(* a DMA write takes the new distances back; while one chunk is computed   *)
(* or written the next one loads.                                          *)
(*                                                                         *)
(* Edge is one clock edge.  Its parameters are the module's inputs: ready  *)
(* and done of the three DMA engines and of the computation, and the       *)
(* bucket offered.  Every condition reads the registers as they were       *)
(* before the edge.  The address and length registers are stable from the  *)
(* edge that raises a command to the one that accepts it.                  *)
(***************************************************************************)
EXTENDS Integers

CONSTANTS
  Requests,       \* buckets the module may be given: base addresses, sizes
  CHUNK_POINTS,   \* points of a full chunk
  COORD_BYTES,    \* bytes of a point's coordinates
  DIST_BYTES      \* bytes of a point's distance

ASSUME SizesAssumption ==
  /\ CHUNK_POINTS \in Nat \ {0}
  /\ COORD_BYTES \in Nat \ {0}
  /\ DIST_BYTES \in Nat \ {0}

ASSUME RequestsAssumption ==
  Requests \subseteq [coord : Nat, dist : Nat, points : Nat, merge : Nat]

VARIABLES
  busy, bucketDone,
  bucket,                  \* the bucket accepted last
  totalChunks, nextLoad, completeCount,
  slotState, slotOffset, slotPoints,
  load,                    \* the load reservation and its two reads
  coordCmd, distCmd,       \* their address and length registers
  compute,                 \* the offered and the running computation
  write                    \* the queued and the running write-back

chunks  == <<totalChunks, nextLoad, completeCount>>
slots   == <<slotState, slotOffset, slotPoints>>
engines == <<load, coordCmd, distCmd, compute, write>>
vars    == <<busy, bucketDone, bucket, chunks, slots, engines>>

Slot       == {0, 1}
SlotStates == {"EMPTY", "LOADING", "LOADED", "COMPUTE", "WRITEQ", "WRITING"}
NoCommand  == [addr |-> 0, bytes |-> 0]

NoLoad    == [active |-> FALSE, slot |-> 0, coordPending |-> FALSE,
              distPending |-> FALSE, coordSeen |-> FALSE, distSeen |-> FALSE]
NoCompute == [pending |-> FALSE, inflight |-> FALSE, slot |-> 0,
              activeSlot |-> 0, points |-> 0, merge |-> 0]
NoWrite   == [pending |-> FALSE, inflight |-> FALSE, slot |-> 0, cmd |-> NoCommand]

Init ==
  /\ busy = FALSE /\ bucketDone = FALSE
  /\ bucket = [coord |-> 0, dist |-> 0, points |-> 0, merge |-> 0]
  /\ totalChunks = 0 /\ nextLoad = 0 /\ completeCount = 0
  /\ slotState = [s \in Slot |-> "EMPTY"]
  /\ slotOffset = [s \in Slot |-> 0] /\ slotPoints = [s \in Slot |-> 0]
  /\ load = NoLoad /\ coordCmd = NoCommand /\ distCmd = NoCommand
  /\ compute = NoCompute /\ write = NoWrite

(* The chunk to load next and the slot it goes to. *)
LoadOffset    == nextLoad * CHUNK_POINTS
Remaining     == bucket.points - LoadOffset
LoadPoints    == IF Remaining < CHUNK_POINTS THEN Remaining ELSE CHUNK_POINTS
CandidateSlot == nextLoad % 2

MutantCanReserveOneMore ==
  ~load.active /\ nextLoad <= totalChunks /\ slotState[CandidateSlot] = "EMPTY"

CanReserve ==
  ~load.active /\ nextLoad < totalChunks /\ slotState[CandidateSlot] = "EMPTY"

(* Slot 0 has priority, whichever chunk it holds. *)
InState(st) == {s \in Slot : slotState[s] = st}
FirstOf(st) == IF slotState[0] = st THEN 0 ELSE 1

MutantCanOfferAgain == ~compute.inflight /\ InState("LOADED") # {}

CanOffer == ~compute.pending /\ ~compute.inflight /\ InState("LOADED") # {}
CanQueue == ~write.pending /\ ~write.inflight /\ InState("WRITEQ") # {}

CoordCmdValid == load.active /\ load.coordPending
DistCmdValid  == load.active /\ load.distPending

(* Both reads of the reserved chunk have been answered, now or before. *)
MutantLoadDoneEither(coordDone, distDone) ==
  load.active /\ (load.coordSeen \/ coordDone \/ load.distSeen \/ distDone)

MutantLoadDoneTogether(coordDone, distDone) ==
  load.active /\ coordDone /\ distDone

LoadDone(coordDone, distDone) ==
  load.active /\ (load.coordSeen \/ coordDone) /\ (load.distSeen \/ distDone)

MutantLastWriteOneEarly == completeCount + 2 >= totalChunks

LastWrite == completeCount + 1 >= totalChunks

TotalChunks(points) == (points + CHUNK_POINTS - 1) \div CHUNK_POINTS

(* A bucket is accepted.  One without points is done at once. *)
Accept(request) ==
  /\ ~busy
  /\ bucket' = request
  /\ totalChunks' = TotalChunks(request.points)
  /\ nextLoad' = 0 /\ completeCount' = 0
  /\ load' = [load EXCEPT !.active = FALSE, !.coordPending = FALSE,
                          !.distPending = FALSE, !.coordSeen = FALSE,
                          !.distSeen = FALSE]
  /\ compute' = [compute EXCEPT !.pending = FALSE, !.inflight = FALSE]
  /\ write' = [write EXCEPT !.pending = FALSE, !.inflight = FALSE]
  /\ slotState' = [s \in Slot |-> "EMPTY"]
  /\ bucketDone' = (request.points = 0)
  /\ busy' = (request.points # 0)
  /\ UNCHANGED <<slotOffset, slotPoints, coordCmd, distCmd>>

Rest ==
  /\ ~busy
  /\ bucketDone' = FALSE
  /\ UNCHANGED <<busy, bucket, chunks, slots, engines>>

(* The two reads are accepted and answered independently; a reservation    *)
(* ends with the later answer, and a new one raises both commands.         *)
LoadStep(coordReady, coordDone, distReady, distDone) ==
  LET ended == LoadDone(coordDone, distDone)
  IN  load' = [active       |-> CanReserve \/ (load.active /\ ~ended),
               slot         |-> IF CanReserve THEN CandidateSlot ELSE load.slot,
               coordPending |-> CanReserve \/ (load.coordPending /\ ~ended
                                    /\ ~(CoordCmdValid /\ coordReady)),
               distPending  |-> CanReserve \/ (load.distPending /\ ~ended
                                    /\ ~(DistCmdValid /\ distReady)),
               coordSeen    |-> ~CanReserve /\ ~ended /\ (load.coordSeen \/ coordDone),
               distSeen     |-> ~CanReserve /\ ~ended /\ (load.distSeen \/ distDone)]

(* A loaded slot is offered to the point engine until it takes it. *)
ComputeStep(ready, done) ==
  LET fire == compute.pending /\ ready
      s    == FirstOf("LOADED")
  IN  compute' =
        [pending    |-> CanOffer \/ (compute.pending /\ ~fire),
         inflight   |-> (compute.inflight \/ fire) /\ ~(compute.inflight /\ done),
         slot       |-> IF CanOffer THEN s ELSE compute.slot,
         activeSlot |-> IF fire THEN compute.slot ELSE compute.activeSlot,
         points     |-> IF CanOffer THEN slotPoints[s] ELSE compute.points,
         merge      |-> IF CanOffer THEN bucket.merge ELSE compute.merge]

(* The distances of a computed slot are queued for their write-back. *)
WriteStep(ready, done) ==
  LET fire == write.pending /\ ready
      s    == FirstOf("WRITEQ")
  IN  write' =
        [pending  |-> CanQueue \/ (write.pending /\ ~fire),
         inflight |-> (write.inflight \/ fire) /\ ~(write.inflight /\ done),
         slot     |-> IF CanQueue THEN s ELSE write.slot,
         cmd      |-> IF CanQueue
                      THEN [addr  |-> bucket.dist + slotOffset[s] * DIST_BYTES,
                            bytes |-> slotPoints[s] * DIST_BYTES]
                      ELSE write.cmd]

Updated(f, condition, s, value) ==
  IF condition THEN [f EXCEPT ![s] = value] ELSE f

(* The slots' states, each assignment over the ones before it. *)
SlotStep(coordDone, distDone, computeReady, computeDone, writeReady, writeDone) ==
  LET loaded    == Updated(slotState, LoadDone(coordDone, distDone),
                           load.slot, "LOADED")
      taken     == Updated(loaded, compute.pending /\ computeReady,
                           compute.slot, "COMPUTE")
      computed  == Updated(taken, compute.inflight /\ computeDone,
                           compute.activeSlot, "WRITEQ")
      writing   == Updated(computed, write.pending /\ writeReady,
                           write.slot, "WRITING")
      emptied   == Updated(writing, write.inflight /\ writeDone,
                           write.slot, "EMPTY")
  IN  /\ slotState' = Updated(emptied, CanReserve, CandidateSlot, "LOADING")
      /\ slotOffset' = Updated(slotOffset, CanReserve, CandidateSlot, LoadOffset)
      /\ slotPoints' = Updated(slotPoints, CanReserve, CandidateSlot, LoadPoints)

CommandStep ==
  IF CanReserve
  THEN /\ coordCmd' = [addr  |-> bucket.coord + LoadOffset * COORD_BYTES,
                       bytes |-> LoadPoints * COORD_BYTES]
       /\ distCmd'  = [addr  |-> bucket.dist + LoadOffset * DIST_BYTES,
                       bytes |-> LoadPoints * DIST_BYTES]
  ELSE UNCHANGED <<coordCmd, distCmd>>

(* An edge while a bucket is under way; ready and done are the              *)
(* computation's.                                                          *)
Work(coordReady, coordDone, distReady, distDone, ready, done, writeReady, writeDone) ==
  /\ busy
  /\ LoadStep(coordReady, coordDone, distReady, distDone)
  /\ ComputeStep(ready, done)
  /\ WriteStep(writeReady, writeDone)
  /\ SlotStep(coordDone, distDone, ready, done, writeReady, writeDone)
  /\ CommandStep
  /\ nextLoad' = IF LoadDone(coordDone, distDone) THEN nextLoad + 1 ELSE nextLoad
  /\ LET written == write.inflight /\ writeDone
     IN  /\ completeCount' = IF written THEN completeCount + 1 ELSE completeCount
         /\ bucketDone' = (written /\ LastWrite)
         /\ busy' = ~(written /\ LastWrite)
  /\ UNCHANGED <<bucket, totalChunks>>

Reset ==
  /\ busy' = FALSE /\ bucketDone' = FALSE
  /\ bucket' = [coord |-> 0, dist |-> 0, points |-> 0, merge |-> 0]
  /\ totalChunks' = 0 /\ nextLoad' = 0 /\ completeCount' = 0
  /\ slotState' = [s \in Slot |-> "EMPTY"]
  /\ slotOffset' = [s \in Slot |-> 0] /\ slotPoints' = [s \in Slot |-> 0]
  /\ load' = NoLoad /\ coordCmd' = NoCommand /\ distCmd' = NoCommand
  /\ compute' = NoCompute /\ write' = NoWrite

(* What the module's assertions ask of its surroundings: an answer comes   *)
(* only to an accepted request, and once.                                  *)
CoordAwaited   == load.active /\ ~load.coordPending /\ ~load.coordSeen
DistAwaited    == load.active /\ ~load.distPending /\ ~load.distSeen
ComputeAwaited == compute.inflight
WriteAwaited   == write.inflight

(* The module by itself: any engine is ready, and answers, at any time     *)
(* that the assertions allow.                                              *)
WorkWhen(cr, cd, dr, dd, kr, kd, wr, wd) ==
  /\ cd => CoordAwaited
  /\ dd => DistAwaited
  /\ kd => ComputeAwaited
  /\ wd => WriteAwaited
  /\ Work(cr, cd, dr, dd, kr, kd, wr, wd)

Edge ==
  \/ Rest
  \/ \E request \in Requests : Accept(request)
  \/ \E cr, cd, dr, dd, kr, kd, wr, wd \in BOOLEAN :
       WorkWhen(cr, cd, dr, dd, kr, kd, wr, wd)

Next == Edge \/ Reset

(* The clock never stops, and each engine is ready again and again and     *)
(* answers what it accepted; no two of them need be so on the same edge.   *)
Fairness ==
  /\ WF_vars(\E dr, dd, kr, kd, wr, wd \in BOOLEAN :
               WorkWhen(TRUE, CoordAwaited, dr, dd, kr, kd, wr, wd))
  /\ WF_vars(\E cr, cd, kr, kd, wr, wd \in BOOLEAN :
               WorkWhen(cr, cd, TRUE, DistAwaited, kr, kd, wr, wd))
  /\ WF_vars(\E cr, cd, dr, dd, wr, wd \in BOOLEAN :
               WorkWhen(cr, cd, dr, dd, TRUE, ComputeAwaited, wr, wd))
  /\ WF_vars(\E cr, cd, dr, dd, kr, kd \in BOOLEAN :
               WorkWhen(cr, cd, dr, dd, kr, kd, TRUE, WriteAwaited))

Spec == Init /\ [][Next]_vars /\ Fairness

-----------------------------------------------------------------------------
(* Properties. *)

Command == [addr : Nat, bytes : Nat]

(* Every register holds a value of its type; a chunk's size is never       *)
(* negative.                                                               *)
TypeOK ==
  /\ busy \in BOOLEAN /\ bucketDone \in BOOLEAN
  /\ bucket \in [coord : Nat, dist : Nat, points : Nat, merge : Nat]
  /\ totalChunks \in Nat /\ nextLoad \in Nat /\ completeCount \in Nat
  /\ slotState \in [Slot -> SlotStates]
  /\ slotOffset \in [Slot -> Nat] /\ slotPoints \in [Slot -> Nat]
  /\ load \in [active : BOOLEAN, slot : Slot, coordPending : BOOLEAN,
               distPending : BOOLEAN, coordSeen : BOOLEAN, distSeen : BOOLEAN]
  /\ coordCmd \in Command /\ distCmd \in Command
  /\ compute \in [pending : BOOLEAN, inflight : BOOLEAN, slot : Slot,
                  activeSlot : Slot, points : Nat, merge : Nat]
  /\ write \in [pending : BOOLEAN, inflight : BOOLEAN, slot : Slot, cmd : Command]

Rank(st) == CASE st = "LOADING" -> 1 [] st = "LOADED" -> 2 [] st = "COMPUTE" -> 3
              [] st = "WRITEQ" -> 4 [] st = "WRITING" -> 5 [] OTHER -> 0

Older(s, t) == slotState[s] # "EMPTY" /\ slotState[t] # "EMPTY"
               /\ slotOffset[s] < slotOffset[t]

(* Chunks pass every stage in the order of the bucket, although a loaded   *)
(* and a computed slot are looked for from slot 0 on, whatever they hold:  *)
(* a chunk never overtakes an older one, and the slot offered to the point *)
(* engine or queued for writing is the older of two that could be          *)
(* ("slot order", CYCLE_ACCURATE_SYSTEM.md).                               *)
ChunksInOrder ==
  \A s, t \in Slot : Older(s, t) =>
    /\ Rank(slotState[s]) >= Rank(slotState[t])
    /\ compute.pending /\ slotState[s] = "LOADED" => compute.slot = s
    /\ write.pending /\ slotState[s] = "WRITEQ" => write.slot = s

(* A bucket's chunks are loaded, computed and written back in order, each  *)
(* exactly once, two at a time, and done comes once, with the last.        *)
IsComputed(s) == slotState[s] \in {"WRITEQ", "WRITING"}
Computed ==
  completeCount + (IF IsComputed(0) THEN 1 ELSE 0) + (IF IsComputed(1) THEN 1 ELSE 0)
CS == INSTANCE ChunkStream
        WITH Totals <- Nat, total <- totalChunks, loaded <- nextLoad,
             computed <- Computed, written <- completeCount, done <- bucketDone
ImplementsStream == CS!Spec

(* Every bucket is finished unless it is reset: the load, compute and      *)
(* write-back of two chunks never wait for each other in a circle.         *)
BucketFinishes == busy ~> ~busy
=============================================================================
