--------------------------- MODULE StreamSubsystem ---------------------------
(***************************************************************************)
(* quickfps_stream_subsystem.v: the chunk controller with its three DMA    *)
(* engines, one clock edge at a time.  Around it, and external to it: the  *)
(* AXI slaves with the distances in memory, the two on-chip slot buffers   *)
(* the streams fill, the computation, and the stream of results.  The      *)
(* streams do not say which slot or chunk they belong to, so their         *)
(* consumers change slot at the last beat of a stream, and results leave   *)
(* in the order the chunks were computed.                                  *)
(*                                                                         *)
(* A distance in memory or in a buffer is a pair: the address it belongs   *)
(* to and how often it was recomputed since the bucket was accepted.  A    *)
(* coordinate is the address it was read from.                             *)
(***************************************************************************)
EXTENDS Integers, Sequences, FiniteSets

CONSTANTS Requests, CHUNK_POINTS, COORD_BYTES, DIST_BYTES,
          PAGE, BUS_BYTES, MAX_BURST_BEATS,
          DistAddresses,    \* the distance memory
          MAX_MISTAKES      \* mistakes the slaves make in a bucket (a bound)

VARIABLES
  \* the chunk controller
  busy, bucketDone, bucket, totalChunks, nextLoad, completeCount,
  slotState, slotOffset, slotPoints, load, coordCmd, distCmd, compute, write,
  \* the coordinate reader, the distance reader and the distance writer
  cdma, ddma, wdma,
  \* external: the memory, the slot buffers and the results on their way out
  dram, coords, dists, results,
  \* history: the engines whose current command met a mistake of its slave,
  \* and the mistakes since the bucket was accepted
  wrong, mistakes

control  == <<busy, bucketDone, bucket, totalChunks, nextLoad, completeCount,
              slotState, slotOffset, slotPoints, load, coordCmd, distCmd,
              compute, write>>
external == <<dram, coords, dists, results>>
history  == <<wrong, mistakes>>
vars     == <<control, cdma, ddma, wdma, external, history>>

Chunks == INSTANCE PingPongChunks
C == INSTANCE AxiBurst WITH dma <- cdma
D == INSTANCE AxiBurst WITH dma <- ddma
W == INSTANCE AxiBurst WITH dma <- wdma

(* The elaboration checks of the engines. *)
ASSUME BurstAssumption ==
  /\ BUS_BYTES \in Nat \ {0}
  /\ PAGE \in Nat /\ PAGE >= BUS_BYTES /\ PAGE % BUS_BYTES = 0
  /\ MAX_BURST_BEATS \in 1..256

(* Addresses are multiples of a beat: the engines round a burst up to      *)
(* whole beats as if it began on one.                                      *)
ASSUME AlignedAssumption ==
  /\ \A r \in Requests : r.coord % BUS_BYTES = 0 /\ r.dist % BUS_BYTES = 0
  /\ (CHUNK_POINTS * COORD_BYTES) % BUS_BYTES = 0
  /\ (CHUNK_POINTS * DIST_BYTES) % BUS_BYTES = 0

(* What the controller asks of its parameters; addresses are numbers. *)
ASSUME ChunksAssumption ==
  /\ {CHUNK_POINTS, COORD_BYTES, DIST_BYTES} \subseteq Nat \ {0}
  /\ Requests \subseteq [coord : Nat, dist : Nat, points : Nat, merge : Nat]
  /\ DistAddresses \subseteq Nat

Slot == {0, 1}

-----------------------------------------------------------------------------
(* Around the subsystem. *)

(* A buffer of two slots and the place the next beat goes to. *)
EmptyBuffer == [data |-> [s \in Slot |-> <<>>], slot |-> 0, fresh |-> TRUE]

(* A beat enters; the first of a stream replaces what the slot held. *)
Received(buffer, words, last) ==
  LET old == IF buffer.fresh THEN <<>> ELSE buffer.data[buffer.slot]
  IN  [data  |-> [buffer.data EXCEPT ![buffer.slot] = old \o words],
       slot  |-> IF last THEN 1 - buffer.slot ELSE buffer.slot,
       fresh |-> last]

Untouched == [a \in DistAddresses |-> [of |-> a, times |-> 0]]

(* The slaves serve the beats of a burst in order, and as many as asked.   *)
(* A slave makes a mistake when it ends a read burst early or late, or     *)
(* answers with an error.                                                  *)
BeatAddress(d)  == d.addr + d.beatCount * BUS_BYTES
SlaveLast(d, m) == IF m = "last" THEN d.beatCount < d.len ELSE d.beatCount >= d.len

Mistakes == {[by |-> e, m |-> k] : e \in {"coord", "dist"}, k \in {"last", "error"}}
            \cup {[by |-> "write", m |-> "error"]}
Flawless == [by |-> "none", m |-> "none"]

(* What an engine meets on an edge on which its slave is willing or not. *)
Meets(e, mistake) == IF mistake.by = e THEN mistake.m ELSE "none"

CanMistake(cGo, dGo, wGo, mistake) ==
  /\ mistakes < MAX_MISTAKES
  /\ \/ mistake.by = "coord" /\ cdma.state = "DATA" /\ cGo
     \/ mistake.by = "dist" /\ ddma.state = "DATA" /\ dGo
     \/ mistake.by = "write" /\ wdma.state = "RESP" /\ wGo
Beat(d)         == [k \in 1..BUS_BYTES |-> BeatAddress(d) + k - 1]
DistAt(a)       == IF a \in DistAddresses THEN dram[a] ELSE [of |-> a, times |-> 0]

(* The result stream offers a beat when a computed chunk is not yet sent;  *)
(* lanes past its end carry anything.                                      *)
Padding == [of |-> -1, times |-> 0]

(* The n distances computed from a slot, whatever its buffer holds. *)
Recomputed(data, n) ==
  [i \in 1..n |-> IF i \in DOMAIN data THEN [data[i] EXCEPT !.times = @ + 1]
                  ELSE Padding]

ResultLane(sent, k) == IF k < Len(sent) THEN sent[k + 1] ELSE Padding

ResultsReady == results # <<>>

WriteFires(go) == wdma.state = "DATA" /\ go /\ ResultsReady

Environment(cGo, dGo, kGo, wGo, mistake) ==
  LET finished == compute.inflight /\ kGo
      s        == compute.activeSlot
      out      == IF finished
                  THEN Append(results, Recomputed(dists.data[s],
                                                  slotPoints[s] * DIST_BYTES))
                  ELSE results
      sent     == Head(results)
      rest     == SubSeq(sent, BUS_BYTES + 1, Len(sent))
  IN  /\ coords' = IF cdma.state = "DATA" /\ cGo
                   THEN Received(coords, Beat(cdma),
                                 C!OutLast(SlaveLast(cdma, Meets("coord", mistake))))
                   ELSE coords
      /\ dists' = IF ddma.state = "DATA" /\ dGo
                  THEN Received(dists, [k \in 1..BUS_BYTES |-> DistAt(Beat(ddma)[k])],
                                D!OutLast(SlaveLast(ddma, Meets("dist", mistake))))
                  ELSE dists
      /\ results' = IF WriteFires(wGo)
                    THEN (IF rest = <<>> THEN <<>> ELSE <<rest>>) \o Tail(out)
                    ELSE out
      /\ dram' = IF WriteFires(wGo)
                 THEN [a \in DistAddresses |->
                         LET k == a - BeatAddress(wdma)
                         IN  IF k \in W!Strobes THEN ResultLane(sent, k)
                             ELSE dram[a]]
                 ELSE dram

-----------------------------------------------------------------------------
(* The subsystem. *)

Init ==
  /\ Chunks!Init
  /\ cdma = C!InitialDma /\ ddma = D!InitialDma /\ wdma = W!InitialDma
  /\ dram = Untouched /\ coords = EmptyBuffer /\ dists = EmptyBuffer
  /\ results = <<>> /\ wrong = {} /\ mistakes = 0

(* The engines' sides of an edge. *)
Engines(cGo, dGo, wGo, mistake) ==
  /\ C!ReaderEdge(Chunks!CoordCmdValid, coordCmd, cGo,
                  SlaveLast(cdma, Meets("coord", mistake)),
                  Meets("coord", mistake) # "error")
  /\ D!ReaderEdge(Chunks!DistCmdValid, distCmd, dGo,
                  SlaveLast(ddma, Meets("dist", mistake)),
                  Meets("dist", mistake) # "error")
  /\ W!WriterEdge(write.pending, write.cmd,
                  wGo /\ (wdma.state = "DATA" => ResultsReady),
                  Meets("write", mistake) # "error")

(* The engines that are given a command. *)
Commanded ==
  {e \in {"coord", "dist", "write"} :
     \/ e = "coord" /\ C!CmdReady /\ Chunks!CoordCmdValid
     \/ e = "dist" /\ D!CmdReady /\ Chunks!DistCmdValid
     \/ e = "write" /\ W!CmdReady /\ write.pending}

Accept(request) ==
  /\ Chunks!Accept(request)
  /\ Engines(FALSE, FALSE, FALSE, Flawless)
  /\ dram' = Untouched /\ coords' = EmptyBuffer /\ dists' = EmptyBuffer
  /\ results' = <<>>
  /\ mistakes' = 0 /\ UNCHANGED wrong

Rest ==
  /\ Chunks!Rest
  /\ Engines(FALSE, FALSE, FALSE, Flawless)
  /\ UNCHANGED <<external, history>>

WorkWith(cGo, dGo, kGo, wGo, mistake) ==
  /\ Chunks!Work(C!CmdReady, cdma.done, D!CmdReady, ddma.done,
                 kGo, compute.inflight /\ kGo, W!CmdReady, wdma.done)
  /\ Engines(cGo, dGo, wGo, mistake)
  /\ Environment(cGo, dGo, kGo, wGo, mistake)
  /\ wrong' = (wrong \ Commanded) \cup ({mistake.by} \ {"none"})

Work(cGo, dGo, kGo, wGo) ==
  \/ WorkWith(cGo, dGo, kGo, wGo, Flawless) /\ UNCHANGED mistakes
  \/ \E mistake \in Mistakes :
       /\ CanMistake(cGo, dGo, wGo, mistake)
       /\ WorkWith(cGo, dGo, kGo, wGo, mistake)
       /\ mistakes' = mistakes + 1

Reset ==
  /\ Chunks!Reset
  /\ cdma' = C!InitialDma /\ ddma' = D!InitialDma /\ wdma' = W!InitialDma
  /\ dram' = Untouched /\ coords' = EmptyBuffer /\ dists' = EmptyBuffer
  /\ results' = <<>>
  /\ wrong' = {} /\ mistakes' = 0

(* Whether the other side is willing matters while one waits for it. *)
Choice(waits) == IF waits THEN BOOLEAN ELSE {FALSE}
Willing(d)    == Choice(d.valid \/ d.state \in {"DATA", "RESP"})

Computing == Choice(compute.pending \/ compute.inflight)

Next ==
  \/ Rest
  \/ Reset
  \/ \E request \in Requests : Accept(request)
  \/ \E cGo \in Willing(cdma), dGo \in Willing(ddma), wGo \in Willing(wdma),
        kGo \in Computing : Work(cGo, dGo, kGo, wGo)

(* The clock never stops; each slave with its stream's other end, and the  *)
(* computation, are willing again and again, not all on the same edge.     *)
Fairness ==
  /\ WF_vars(\E dGo \in Willing(ddma), wGo \in Willing(wdma), kGo \in Computing :
               Work(TRUE, dGo, kGo, wGo))
  /\ WF_vars(\E cGo \in Willing(cdma), wGo \in Willing(wdma), kGo \in Computing :
               Work(cGo, TRUE, kGo, wGo))
  /\ WF_vars(\E cGo \in Willing(cdma), dGo \in Willing(ddma), wGo \in Willing(wdma) :
               Work(cGo, dGo, TRUE, wGo))
  /\ WF_vars(\E cGo \in Willing(cdma), dGo \in Willing(ddma), kGo \in Computing :
               Work(cGo, dGo, kGo, TRUE))

Spec == Init /\ [][Next]_vars /\ Fairness

-----------------------------------------------------------------------------
(* Properties. *)

(* The engines answer the controller only as its assertions allow          *)
(* ("coord_done before command acceptance" and the like), so that inside   *)
(* the subsystem it behaves as the controller by itself, of which order    *)
(* and completeness are checked and proved.                                *)
ControllerContract == Chunks!Init /\ [][Chunks!Next]_(Chunks!vars)

(* A chunk offered to the computation, or being computed, is in its slot   *)
(* in full: both its coordinates and its distances, of no other chunk and  *)
(* read before any of them was written, although neither stream names its  *)
(* slot.                                                                   *)
Holds(s) ==
  LET o == slotOffset[s]
      n == slotPoints[s]
  IN  /\ Len(coords.data[s]) >= n * COORD_BYTES
      /\ \A i \in 1..n * COORD_BYTES :
           coords.data[s][i] = bucket.coord + o * COORD_BYTES + i - 1
      /\ Len(dists.data[s]) >= n * DIST_BYTES
      /\ \A i \in 1..n * DIST_BYTES :
           dists.data[s][i] = [of |-> bucket.dist + o * DIST_BYTES + i - 1, times |-> 0]

ComputesItsChunk ==
  mistakes = 0 =>
    /\ compute.pending =>
         Holds(compute.slot) /\ compute.points = slotPoints[compute.slot]
    /\ compute.inflight => Holds(compute.activeSlot)

(* When a bucket is done each of its distances was recomputed exactly once *)
(* and put back where it came from, and no other byte of the memory was    *)
(* touched: no chunk lost, repeated, exchanged or written with the wrong   *)
(* length.                                                                 *)
EachDistanceUpdatedOnce ==
  bucketDone /\ mistakes = 0 =>
    \A a \in DistAddresses :
      LET mine == a \in bucket.dist .. bucket.dist + bucket.points * DIST_BYTES - 1
      IN  dram[a] = [of |-> a, times |-> IF mine THEN 1 ELSE 0]

(* No burst leaves its page or the range of its command, nor is longer     *)
(* than allowed.                                                           *)
BurstsFit ==
  \A d \in {cdma, ddma, wdma} :
    d.valid => /\ d.addr \div PAGE = (d.addr + (d.len + 1) * BUS_BYTES - 1) \div PAGE
               /\ d.len + 1 <= MAX_BURST_BEATS
               /\ d.burstBytes <= d.remaining

(* A command that completes without its error flag was served in full, and *)
(* one with it was not: a mistake in any of its bursts is remembered to    *)
(* the end of the command and no longer ("completed with AXI               *)
(* protocol/response error").                                              *)
FaultsFlagged ==
  /\ cdma.done => (cdma.error <=> "coord" \in wrong)
  /\ ddma.done => (ddma.error <=> "dist" \in wrong)
  /\ wdma.done => (wdma.error <=> "write" \in wrong)

(* Every bucket is finished unless it is reset. *)
BucketFinishes == busy ~> ~busy
=============================================================================
