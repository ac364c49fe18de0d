----------------------- MODULE StreamSubsystem_proofs -----------------------
(***************************************************************************)
(* Theorems about StreamSubsystem, for every chunk, page, beat and burst   *)
(* size, every set of aligned buckets, and slaves of any speed that make   *)
(* any number of mistakes.                                                 *)
(***************************************************************************)
EXTENDS StreamSubsystem, SequenceTheorems, TLAPS

(* The controller and the engines with what is proved of each by itself.   *)
P  == INSTANCE PingPongChunks_proofs
CP == INSTANCE AxiBurst_proofs WITH dma <- cdma
DP == INSTANCE AxiBurst_proofs WITH dma <- ddma
WP == INSTANCE AxiBurst_proofs WITH dma <- wdma

Aligned(a) == a % BUS_BYTES = 0

(* Every command, issued or to come, begins on a beat.                     *)
AlignedInv ==
  /\ Aligned(bucket.coord) /\ Aligned(bucket.dist)
  /\ Aligned(coordCmd.addr) /\ Aligned(distCmd.addr) /\ Aligned(write.cmd.addr)
  /\ \A s \in Slot : Aligned(slotOffset[s] * DIST_BYTES)

(* An engine works, or has just ended, only when the controller waits for  *)
(* it; an answer that came early is of a command that was given.           *)
Engaged(d) == d.state # "IDLE" \/ d.done

LinkInv ==
  /\ Engaged(cdma) => Chunks!CoordAwaited
  /\ Engaged(ddma) => Chunks!DistAwaited
  /\ Engaged(wdma) => Chunks!WriteAwaited
  /\ load.coordSeen => ~load.coordPending
  /\ load.distSeen => ~load.distPending

EnginesInv == CP!ReaderInv /\ DP!ReaderInv /\ WP!WriterInv

FaultsInv ==
  /\ CP!FaultInv("coord" \in wrong)
  /\ DP!FaultInv("dist" \in wrong)
  /\ WP!FaultInv("write" \in wrong)

SubsystemInv == P!StreamInv /\ AlignedInv /\ LinkInv /\ EnginesInv /\ FaultsInv


-----------------------------------------------------------------------------
(* An edge of the subsystem is one of the controller and of each engine,   *)
(* as the modules that prove about them define it.                         *)

LEMMA CEdge ==
  ASSUME NEW v, NEW cmd, NEW go, NEW last, NEW ok
  PROVE  C!ReaderEdge(v, cmd, go, last, ok) <=> CP!ReaderEdge(v, cmd, go, last, ok)
BY DEF C!ReaderEdge, CP!ReaderEdge, C!Command, CP!Command, C!Accept,
       CP!Accept, C!Rest, CP!Rest, C!CmdReady, CP!CmdReady, C!RaiseAddress,
       CP!RaiseAddress, C!PassAddress, CP!PassAddress, C!NextBurstBytes,
       CP!NextBurstBytes, C!NextBurstBeats, CP!NextBurstBeats, C!Lesser,
       CP!Lesser, C!Advanced, CP!Advanced, C!LastBurst, CP!LastBurst,
       C!Counted, CP!Counted, C!ReadBeat, CP!ReadBeat

LEMMA DEdge ==
  ASSUME NEW v, NEW cmd, NEW go, NEW last, NEW ok
  PROVE  D!ReaderEdge(v, cmd, go, last, ok) <=> DP!ReaderEdge(v, cmd, go, last, ok)
BY DEF D!ReaderEdge, DP!ReaderEdge, D!Command, DP!Command, D!Accept,
       DP!Accept, D!Rest, DP!Rest, D!CmdReady, DP!CmdReady, D!RaiseAddress,
       DP!RaiseAddress, D!PassAddress, DP!PassAddress, D!NextBurstBytes,
       DP!NextBurstBytes, D!NextBurstBeats, DP!NextBurstBeats, D!Lesser,
       DP!Lesser, D!Advanced, DP!Advanced, D!LastBurst, DP!LastBurst,
       D!Counted, DP!Counted, D!ReadBeat, DP!ReadBeat

LEMMA WEdge ==
  ASSUME NEW v, NEW cmd, NEW go, NEW ok
  PROVE  W!WriterEdge(v, cmd, go, ok) <=> WP!WriterEdge(v, cmd, go, ok)
BY DEF W!WriterEdge, WP!WriterEdge, W!Command, WP!Command, W!Accept,
       WP!Accept, W!Rest, WP!Rest, W!CmdReady, WP!CmdReady, W!RaiseAddress,
       WP!RaiseAddress, W!PassAddress, WP!PassAddress, W!NextBurstBytes,
       WP!NextBurstBytes, W!NextBurstBeats, WP!NextBurstBeats, W!Lesser,
       WP!Lesser, W!Advanced, WP!Advanced, W!LastBurst, WP!LastBurst,
       W!Counted, WP!Counted, W!WriteBeat, WP!WriteBeat, W!WriteLast,
       WP!WriteLast, W!Response, WP!Response

LEMMA ChunksEdge ==
  ASSUME NEW cr, NEW cd, NEW dr, NEW dd, NEW kr, NEW kd, NEW wr, NEW wd
  PROVE  Chunks!WorkWhen(cr, cd, dr, dd, kr, kd, wr, wd)
           <=> P!WorkWhen(cr, cd, dr, dd, kr, kd, wr, wd)
BY DEF Chunks!WorkWhen, P!WorkWhen, Chunks!Work, P!Work,
       Chunks!CoordAwaited, P!CoordAwaited, Chunks!DistAwaited,
       P!DistAwaited, Chunks!ComputeAwaited, P!ComputeAwaited,
       Chunks!WriteAwaited, P!WriteAwaited, Chunks!LoadStep, P!LoadStep,
       Chunks!ComputeStep, P!ComputeStep, Chunks!WriteStep, P!WriteStep,
       Chunks!SlotStep, P!SlotStep, Chunks!CommandStep, P!CommandStep,
       Chunks!LoadDone, P!LoadDone, Chunks!CanReserve, P!CanReserve,
       Chunks!CandidateSlot, P!CandidateSlot, Chunks!CoordCmdValid,
       P!CoordCmdValid, Chunks!DistCmdValid, P!DistCmdValid,
       Chunks!CanOffer, P!CanOffer, Chunks!CanQueue, P!CanQueue,
       Chunks!FirstOf, P!FirstOf, Chunks!InState, P!InState, Chunks!Slot,
       P!Slot, Chunks!Updated, P!Updated, Chunks!LoadOffset, P!LoadOffset,
       Chunks!LoadPoints, P!LoadPoints, Chunks!Remaining, P!Remaining,
       Chunks!LastWrite, P!LastWrite


-----------------------------------------------------------------------------
(* The links between the controller and its engines. *)

LEMMA CoordLink ==
  ASSUME NEW cr \in BOOLEAN, NEW cd \in BOOLEAN, NEW dr, NEW dd, NEW kr, NEW kd, NEW wr, NEW wd,
         Chunks!Work(cr, cd, dr, dd, kr, kd, wr, wd), P!StreamInv,
         cr <=> C!CmdReady, cd <=> cdma.done, cdma.done => C!CmdReady,
         Engaged(cdma) => Chunks!CoordAwaited, load.coordSeen => ~load.coordPending,
         C!CmdReady /\ ~Chunks!CoordCmdValid => C!CmdReady' /\ ~cdma'.done
  PROVE  /\ Engaged(cdma)' => Chunks!CoordAwaited'
         /\ load'.coordSeen => ~load'.coordPending
<1> DEFINE ended == Chunks!LoadDone(cd, dd)
           reserved == Chunks!CanReserve
           v == Chunks!CoordCmdValid
<1>1. load \in [active : BOOLEAN, slot : P!Slot, coordPending : BOOLEAN,
               distPending : BOOLEAN, coordSeen : BOOLEAN, distSeen : BOOLEAN]
  BY DEF P!StreamInv, P!TypeOK
<1>2. /\ load'.active <=> (reserved \/ (load.active /\ ~ended))
      /\ load'.coordPending <=> (reserved \/ (load.coordPending /\ ~ended /\ ~(v /\ cr)))
      /\ load'.coordSeen <=> (~reserved /\ ~ended /\ (load.coordSeen \/ cd))
  BY <1>1 DEF Chunks!Work, Chunks!LoadStep
<1>3. /\ ended => load.active /\ (load.coordSeen \/ cd)
      /\ reserved => ~load.active
      /\ v <=> load.active /\ load.coordPending
  BY DEF Chunks!LoadDone, Chunks!CanReserve, Chunks!CoordCmdValid
<1> HIDE DEF ended, reserved, v
<1>4. Engaged(cdma)' => ~(C!CmdReady /\ ~v)
  BY DEF Engaged, C!CmdReady, v
<1>5. Engaged(cdma) <=> ~cr \/ cd
  BY DEF Engaged, C!CmdReady
<1>6. /\ Chunks!CoordAwaited <=> load.active /\ ~load.coordPending /\ ~load.coordSeen
      /\ Chunks!CoordAwaited' <=> load'.active /\ ~load'.coordPending /\ ~load'.coordSeen
  BY DEF Chunks!CoordAwaited
<1> QED BY <1>2, <1>3, <1>4, <1>5, <1>6

LEMMA DistLink ==
  ASSUME NEW cr, NEW cd, NEW dr \in BOOLEAN, NEW dd \in BOOLEAN, NEW kr, NEW kd, NEW wr, NEW wd,
         Chunks!Work(cr, cd, dr, dd, kr, kd, wr, wd), P!StreamInv,
         dr <=> D!CmdReady, dd <=> ddma.done, ddma.done => D!CmdReady,
         Engaged(ddma) => Chunks!DistAwaited, load.distSeen => ~load.distPending,
         D!CmdReady /\ ~Chunks!DistCmdValid => D!CmdReady' /\ ~ddma'.done
  PROVE  /\ Engaged(ddma)' => Chunks!DistAwaited'
         /\ load'.distSeen => ~load'.distPending
<1> DEFINE ended == Chunks!LoadDone(cd, dd)
           reserved == Chunks!CanReserve
           v == Chunks!DistCmdValid
<1>1. load \in [active : BOOLEAN, slot : P!Slot, coordPending : BOOLEAN,
               distPending : BOOLEAN, coordSeen : BOOLEAN, distSeen : BOOLEAN]
  BY DEF P!StreamInv, P!TypeOK
<1>2. /\ load'.active <=> (reserved \/ (load.active /\ ~ended))
      /\ load'.distPending <=> (reserved \/ (load.distPending /\ ~ended /\ ~(v /\ dr)))
      /\ load'.distSeen <=> (~reserved /\ ~ended /\ (load.distSeen \/ dd))
  BY <1>1 DEF Chunks!Work, Chunks!LoadStep
<1>3. /\ ended => load.active /\ (load.distSeen \/ dd)
      /\ reserved => ~load.active
      /\ v <=> load.active /\ load.distPending
  BY DEF Chunks!LoadDone, Chunks!CanReserve, Chunks!DistCmdValid
<1> HIDE DEF ended, reserved, v
<1>4. Engaged(ddma)' => ~(D!CmdReady /\ ~v)
  BY DEF Engaged, D!CmdReady, v
<1>5. Engaged(ddma) <=> ~dr \/ dd
  BY DEF Engaged, D!CmdReady
<1>6. /\ Chunks!DistAwaited <=> load.active /\ ~load.distPending /\ ~load.distSeen
      /\ Chunks!DistAwaited' <=> load'.active /\ ~load'.distPending /\ ~load'.distSeen
  BY DEF Chunks!DistAwaited
<1> QED BY <1>2, <1>3, <1>4, <1>5, <1>6

LEMMA WriteLink ==
  ASSUME NEW cr, NEW cd, NEW dr, NEW dd, NEW kr, NEW kd, NEW wr \in BOOLEAN, NEW wd \in BOOLEAN,
         Chunks!Work(cr, cd, dr, dd, kr, kd, wr, wd), P!StreamInv,
         wr <=> W!CmdReady, wd <=> wdma.done, wdma.done => W!CmdReady,
         Engaged(wdma) => Chunks!WriteAwaited,
         W!CmdReady /\ ~write.pending => W!CmdReady' /\ ~wdma'.done
  PROVE  Engaged(wdma)' => Chunks!WriteAwaited'
<1>1. write.pending \in BOOLEAN /\ write.inflight \in BOOLEAN
      /\ write.pending => ~write.inflight
  BY DEF P!StreamInv, P!TypeOK, P!EnginesInv
<1>2. write'.inflight <=> (write.inflight \/ (write.pending /\ wr)) /\ ~(write.inflight /\ wd)
  BY <1>1 DEF Chunks!Work, Chunks!WriteStep
<1>3. Engaged(wdma)' => ~(W!CmdReady /\ ~write.pending)
  BY DEF Engaged, W!CmdReady
<1>4. Engaged(wdma) <=> ~wr \/ wd
  BY DEF Engaged, W!CmdReady
<1> QED BY <1>1, <1>2, <1>3, <1>4 DEF Chunks!WriteAwaited

(* Nothing is on chip when no bucket is under way. *)
LEMMA QuietWhenIdle ==
  ASSUME P!StreamInv, ~busy
  PROVE  ~load.active /\ ~write.pending /\ ~write.inflight
<1>1. P!TypeOK /\ P!CountersInv /\ P!EnginesInv /\ P!SlotsInv
  BY DEF P!StreamInv
<1>2. completeCount \in Nat /\ nextLoad \in Nat /\ totalChunks \in Nat /\ load.active \in BOOLEAN
      /\ write \in [pending : BOOLEAN, inflight : BOOLEAN, slot : P!Slot, cmd : P!Command]
  BY <1>1 DEF P!TypeOK
<1>3. ~load.active /\ P!OnChip = 0
  BY <1>1, <1>2 DEF P!CountersInv, P!Reserved, P!OnChip
<1>4. \A s \in P!Slot : slotState[s] = "EMPTY"
  BY <1>1, <1>2, <1>3 DEF P!SlotsInv, P!Slot, P!Old, P!Young
<1> QED BY <1>1, <1>2, <1>3, <1>4 DEF P!EnginesInv


-----------------------------------------------------------------------------
(* Commands are aligned. *)

LEMMA Sizes ==
  /\ CP!BurstSizes /\ DP!BurstSizes /\ WP!BurstSizes
  /\ P!SizesAssumption /\ P!RequestsAssumption
  /\ CHUNK_POINTS \in Nat /\ COORD_BYTES \in Nat /\ DIST_BYTES \in Nat /\ BUS_BYTES \in Nat
BY BurstAssumption, ChunksAssumption
   DEF CP!BurstSizes, DP!BurstSizes, WP!BurstSizes, P!SizesAssumption, P!RequestsAssumption

LEMMA AlignedChunk ==
  ASSUME NEW base \in Nat, Aligned(base), NEW n \in Nat
  PROVE  /\ Aligned((n * CHUNK_POINTS) * DIST_BYTES)
         /\ Aligned(base + (n * CHUNK_POINTS) * COORD_BYTES)
         /\ Aligned(base + (n * CHUNK_POINTS) * DIST_BYTES)
<1> DEFINE c == CHUNK_POINTS * COORD_BYTES
           d == CHUNK_POINTS * DIST_BYTES
<1>1. /\ (n * CHUNK_POINTS) * COORD_BYTES = n * c /\ c \in Nat
      /\ (n * CHUNK_POINTS) * DIST_BYTES = n * d /\ d \in Nat
  BY Sizes
<1>2. CP!Aligned(c) /\ CP!Aligned(d) /\ CP!Aligned(base)
  BY AlignedAssumption DEF CP!Aligned, Aligned
<1> HIDE DEF c, d
<1>3. n * c \in Nat /\ n * d \in Nat /\ CP!Aligned(n * c) /\ CP!Aligned(n * d)
  BY <1>1, <1>2, Sizes, CP!AlignedProduct
<1>4. CP!Aligned(base + n * c) /\ CP!Aligned(base + n * d)
  BY <1>2, <1>3, Sizes, CP!AlignedSum
<1> QED BY <1>1, <1>3, <1>4 DEF CP!Aligned, Aligned

LEMMA AlignedAtRest ==
  ASSUME AlignedInv, UNCHANGED <<coordCmd, distCmd, slotOffset>>,
         write'.cmd = write.cmd, Aligned(bucket'.coord), Aligned(bucket'.dist)
  PROVE  AlignedInv'
BY DEF AlignedInv, Aligned

LEMMA AlignedWork ==
  ASSUME NEW cr, NEW cd, NEW dr, NEW dd, NEW kr, NEW kd, NEW wr, NEW wd,
         Chunks!Work(cr, cd, dr, dd, kr, kd, wr, wd), P!StreamInv, AlignedInv
  PROVE  AlignedInv'
<1>1. /\ bucket \in [coord : Nat, dist : Nat, points : Nat, merge : Nat]
      /\ nextLoad \in Nat /\ slotOffset \in [Slot -> Nat]
  BY DEF P!StreamInv, P!TypeOK, P!Slot, Slot
<1>2. PICK b \in [coord : Nat, dist : Nat, points : Nat, merge : Nat] : b = bucket
  BY <1>1
<1>3. PICK n \in Nat : n = nextLoad
  BY <1>1
<1>4. PICK f \in [Slot -> Nat] : f = slotOffset
  BY <1>1
<1>5. /\ b.coord \in Nat /\ b.dist \in Nat /\ Aligned(b.coord) /\ Aligned(b.dist)
      /\ \A s \in Slot : Aligned(f[s] * DIST_BYTES) /\ f[s] \in Nat
  BY <1>1, <1>2, <1>4 DEF AlignedInv
<1>6. bucket' = b
  BY <1>2 DEF Chunks!Work
<1>7. /\ coordCmd' = coordCmd \/ coordCmd'.addr = b.coord + (n * CHUNK_POINTS) * COORD_BYTES
      /\ distCmd' = distCmd \/ distCmd'.addr = b.dist + (n * CHUNK_POINTS) * DIST_BYTES
  BY <1>2, <1>3 DEF Chunks!Work, Chunks!CommandStep, Chunks!LoadOffset
<1>8. Aligned(coordCmd'.addr) /\ Aligned(distCmd'.addr)
  BY <1>5, <1>7, AlignedChunk DEF AlignedInv
<1>9. ASSUME NEW s \in Slot PROVE Aligned(slotOffset'[s] * DIST_BYTES)
  <2>1. slotOffset'[s] = f[s] \/ slotOffset'[s] = n * CHUNK_POINTS
    BY <1>3, <1>4 DEF Chunks!Work, Chunks!SlotStep, Chunks!Updated, Chunks!LoadOffset
  <2>2. Aligned((n * CHUNK_POINTS) * DIST_BYTES)
    BY <1>5, AlignedChunk
  <2> QED BY <1>5, <2>1, <2>2
<1>10. Aligned(write'.cmd.addr)
  <2>1. CASE Chunks!CanQueue
    <3>1. PICK s \in Slot : s = Chunks!FirstOf("WRITEQ")
      BY DEF Chunks!FirstOf, Slot
    <3>2. write'.cmd.addr = b.dist + f[s] * DIST_BYTES
      BY <1>2, <1>4, <2>1, <3>1 DEF Chunks!Work, Chunks!WriteStep
    <3>3. f[s] * DIST_BYTES \in Nat /\ CP!Aligned(b.dist) /\ CP!Aligned(f[s] * DIST_BYTES)
      BY <1>5, Sizes DEF CP!Aligned, Aligned
    <3>4. CP!Aligned(b.dist + f[s] * DIST_BYTES)
      BY <1>5, <3>3, Sizes, CP!AlignedSum
    <3> QED BY <3>2, <3>4 DEF CP!Aligned, Aligned
  <2>2. CASE ~Chunks!CanQueue
    <3>1. write'.cmd = write.cmd
      BY <2>2 DEF Chunks!Work, Chunks!WriteStep
    <3> QED BY <3>1 DEF AlignedInv
  <2> QED BY <2>1, <2>2
<1>11. Aligned(bucket'.coord) /\ Aligned(bucket'.dist)
  BY <1>5, <1>6
<1> QED BY <1>8, <1>9, <1>10, <1>11 DEF AlignedInv, Aligned


-----------------------------------------------------------------------------
(* An edge of the engines. *)

LEMMA GoodCommands ==
  ASSUME P!StreamInv, AlignedInv
  PROVE  CP!GoodCommand(coordCmd) /\ DP!GoodCommand(distCmd) /\ WP!GoodCommand(write.cmd)
BY DEF P!StreamInv, P!TypeOK, P!Command, AlignedInv, Aligned, CP!GoodCommand, CP!Aligned,
       DP!GoodCommand, DP!Aligned, WP!GoodCommand, WP!Aligned

LEMMA EnginesKeep ==
  ASSUME P!StreamInv, AlignedInv, EnginesInv,
         NEW cGo, NEW dGo, NEW wGo, NEW mistake, Engines(cGo, dGo, wGo, mistake)
  PROVE  /\ EnginesInv'
         /\ C!CmdReady /\ ~Chunks!CoordCmdValid => C!CmdReady' /\ ~cdma'.done
         /\ D!CmdReady /\ ~Chunks!DistCmdValid => D!CmdReady' /\ ~ddma'.done
         /\ W!CmdReady /\ ~write.pending => W!CmdReady' /\ ~wdma'.done
<1>1. CP!ReaderInv' /\ (C!CmdReady /\ ~Chunks!CoordCmdValid => C!CmdReady' /\ ~cdma'.done)
  <2>1. PICK v : v = Chunks!CoordCmdValid
    OBVIOUS
  <2>2. PICK cmd : cmd = coordCmd
    OBVIOUS
  <2>3. PICK last : last = SlaveLast(cdma, Meets("coord", mistake))
    OBVIOUS
  <2>4. PICK ok : ok = (Meets("coord", mistake) # "error")
    OBVIOUS
  <2>5. C!ReaderEdge(v, cmd, cGo, last, ok)
    BY <2>1, <2>2, <2>3, <2>4 DEF Engines
  <2>6. CP!ReaderEdge(v, cmd, cGo, last, ok)
    BY <2>5, CEdge
  <2>7. CP!GoodCommand(cmd)
    BY <2>2, GoodCommands
  <2>8. CP!ReaderInv' /\ (CP!CmdReady /\ ~v => CP!CmdReady' /\ ~cdma'.done)
    BY <2>6, <2>7, Sizes, CP!ReaderKeeps DEF EnginesInv
  <2> QED BY <2>1, <2>8 DEF C!CmdReady, CP!CmdReady
<1>2. DP!ReaderInv' /\ (D!CmdReady /\ ~Chunks!DistCmdValid => D!CmdReady' /\ ~ddma'.done)
  <2>1. PICK v : v = Chunks!DistCmdValid
    OBVIOUS
  <2>2. PICK cmd : cmd = distCmd
    OBVIOUS
  <2>3. PICK last : last = SlaveLast(ddma, Meets("dist", mistake))
    OBVIOUS
  <2>4. PICK ok : ok = (Meets("dist", mistake) # "error")
    OBVIOUS
  <2>5. D!ReaderEdge(v, cmd, dGo, last, ok)
    BY <2>1, <2>2, <2>3, <2>4 DEF Engines
  <2>6. DP!ReaderEdge(v, cmd, dGo, last, ok)
    BY <2>5, DEdge
  <2>7. DP!GoodCommand(cmd)
    BY <2>2, GoodCommands
  <2>8. DP!ReaderInv' /\ (DP!CmdReady /\ ~v => DP!CmdReady' /\ ~ddma'.done)
    BY <2>6, <2>7, Sizes, DP!ReaderKeeps DEF EnginesInv
  <2> QED BY <2>1, <2>8 DEF D!CmdReady, DP!CmdReady
<1>3. WP!WriterInv' /\ (W!CmdReady /\ ~write.pending => W!CmdReady' /\ ~wdma'.done)
  <2>1. PICK v : v = write.pending
    OBVIOUS
  <2>2. PICK cmd : cmd = write.cmd
    OBVIOUS
  <2>3. PICK go : go = (wGo /\ (wdma.state = "DATA" => ResultsReady))
    OBVIOUS
  <2>4. PICK ok : ok = (Meets("write", mistake) # "error")
    OBVIOUS
  <2>5. W!WriterEdge(v, cmd, go, ok)
    BY <2>1, <2>2, <2>3, <2>4 DEF Engines
  <2>6. WP!WriterEdge(v, cmd, go, ok)
    BY <2>5, WEdge
  <2>7. WP!GoodCommand(cmd)
    BY <2>2, GoodCommands
  <2>8. WP!WriterInv' /\ (WP!CmdReady /\ ~v => WP!CmdReady' /\ ~wdma'.done)
    BY <2>6, <2>7, Sizes, WP!WriterKeeps DEF EnginesInv
  <2> QED BY <2>1, <2>8 DEF W!CmdReady, WP!CmdReady
<1> QED BY <1>1, <1>2, <1>3 DEF EnginesInv

LEMMA SlaveLastIs ==
  ASSUME NEW d, NEW m
  PROVE  SlaveLast(d, m) \in BOOLEAN
<1>1. CASE m = "last"
  <2>1. SlaveLast(d, m) = (d.beatCount < d.len)
    BY <1>1 DEF SlaveLast
  <2> QED BY <2>1
<1>2. CASE m # "last"
  <2>1. SlaveLast(d, m) = (d.beatCount >= d.len)
    BY <1>2 DEF SlaveLast
  <2> QED BY <2>1
<1> QED BY <1>1, <1>2

(* The flags follow the mistakes of the slaves. *)
LEMMA FaultsKeep ==
  ASSUME P!StreamInv, AlignedInv, EnginesInv, FaultsInv,
         NEW cGo \in BOOLEAN, NEW dGo \in BOOLEAN, NEW wGo \in BOOLEAN,
         NEW mistake \in Mistakes \cup {Flawless},
         mistake # Flawless => CanMistake(cGo, dGo, wGo, mistake),
         Engines(cGo, dGo, wGo, mistake),
         wrong' = (wrong \ Commanded) \cup ({mistake.by} \ {"none"})
  PROVE  FaultsInv'
<1>1. CP!FaultInv("coord" \in wrong)'
  <2>1. PICK v \in BOOLEAN : v = Chunks!CoordCmdValid
    BY DEF Chunks!CoordCmdValid
  <2>2. PICK cmd : cmd = coordCmd
    OBVIOUS
  <2>3. PICK last \in BOOLEAN : last = SlaveLast(cdma, Meets("coord", mistake))
    BY SlaveLastIs
  <2>4. PICK m \in {"none", "last", "error"} : m = Meets("coord", mistake)
    BY DEF Meets, Mistakes, Flawless
  <2>5. PICK w \in BOOLEAN : w <=> "coord" \in wrong
    OBVIOUS
  <2>6. PICK w2 \in BOOLEAN : w2 <=> "coord" \in wrong'
    OBVIOUS
  <2>7. C!ReaderEdge(v, cmd, cGo, last, m # "error")
    BY <2>1, <2>2, <2>3, <2>4 DEF Engines
  <2>8. CP!ReaderEdge(v, cmd, cGo, last, m # "error") /\ CP!GoodCommand(cmd)
    BY <2>2, <2>7, CEdge, GoodCommands
  <2>9. last <=> IF m = "last" THEN cdma.beatCount < cdma.len ELSE cdma.beatCount >= cdma.len
    BY <2>3, <2>4 DEF SlaveLast
  <2>10. m # "none" => cdma.state = "DATA" /\ cGo
    BY <2>4 DEF Meets, CanMistake, Mistakes, Flawless
  <2>11. w2 <=> (w /\ ~(CP!CmdReady /\ v)) \/ m # "none"
    <3>1. m # "none" <=> mistake.by = "coord"
      BY <2>4 DEF Meets, Mistakes, Flawless
    <3>2. "coord" \in Commanded <=> CP!CmdReady /\ v
      BY <2>1 DEF Commanded, C!CmdReady, CP!CmdReady
    <3> QED BY <2>5, <2>6, <3>1, <3>2
  <2>12. CP!FaultInv(w)
    BY <2>5 DEF FaultsInv, CP!FaultInv
  <2>13. CP!BurstSizes /\ CP!ReaderInv
    BY Sizes DEF EnginesInv
  <2>14. CP!ReadsWith(v, cmd, cGo, last, m, w, w2)
    BY <2>8, <2>9, <2>10, <2>11 DEF CP!ReadsWith
  <2>15. CP!FaultInv(w2)'
    BY <2>12, <2>13, <2>14, CP!ReaderFaults
  <2> QED BY <2>6, <2>15 DEF CP!FaultInv, CP!Overrun
<1>2. DP!FaultInv("dist" \in wrong)'
  <2>1. PICK v \in BOOLEAN : v = Chunks!DistCmdValid
    BY DEF Chunks!DistCmdValid
  <2>2. PICK cmd : cmd = distCmd
    OBVIOUS
  <2>3. PICK last \in BOOLEAN : last = SlaveLast(ddma, Meets("dist", mistake))
    BY SlaveLastIs
  <2>4. PICK m \in {"none", "last", "error"} : m = Meets("dist", mistake)
    BY DEF Meets, Mistakes, Flawless
  <2>5. PICK w \in BOOLEAN : w <=> "dist" \in wrong
    OBVIOUS
  <2>6. PICK w2 \in BOOLEAN : w2 <=> "dist" \in wrong'
    OBVIOUS
  <2>7. D!ReaderEdge(v, cmd, dGo, last, m # "error")
    BY <2>1, <2>2, <2>3, <2>4 DEF Engines
  <2>8. DP!ReaderEdge(v, cmd, dGo, last, m # "error") /\ DP!GoodCommand(cmd)
    BY <2>2, <2>7, DEdge, GoodCommands
  <2>9. last <=> IF m = "last" THEN ddma.beatCount < ddma.len ELSE ddma.beatCount >= ddma.len
    BY <2>3, <2>4 DEF SlaveLast
  <2>10. m # "none" => ddma.state = "DATA" /\ dGo
    BY <2>4 DEF Meets, CanMistake, Mistakes, Flawless
  <2>11. w2 <=> (w /\ ~(DP!CmdReady /\ v)) \/ m # "none"
    <3>1. m # "none" <=> mistake.by = "dist"
      BY <2>4 DEF Meets, Mistakes, Flawless
    <3>2. "dist" \in Commanded <=> DP!CmdReady /\ v
      BY <2>1 DEF Commanded, D!CmdReady, DP!CmdReady
    <3> QED BY <2>5, <2>6, <3>1, <3>2
  <2>12. DP!FaultInv(w)
    BY <2>5 DEF FaultsInv, DP!FaultInv
  <2>13. DP!BurstSizes /\ DP!ReaderInv
    BY Sizes DEF EnginesInv
  <2>14. DP!ReadsWith(v, cmd, dGo, last, m, w, w2)
    BY <2>8, <2>9, <2>10, <2>11 DEF DP!ReadsWith
  <2>15. DP!FaultInv(w2)'
    BY <2>12, <2>13, <2>14, DP!ReaderFaults
  <2> QED BY <2>6, <2>15 DEF DP!FaultInv, DP!Overrun
<1>3. WP!FaultInv("write" \in wrong)'
  <2>1. PICK v \in BOOLEAN : v = write.pending
    BY DEF P!StreamInv, P!TypeOK
  <2>2. PICK cmd : cmd = write.cmd
    OBVIOUS
  <2>3. PICK go \in BOOLEAN : go = (wGo /\ (wdma.state = "DATA" => ResultsReady))
    OBVIOUS
  <2>4. PICK m \in {"none", "error"} : m = Meets("write", mistake)
    BY DEF Meets, Mistakes, Flawless
  <2>5. PICK w \in BOOLEAN : w <=> "write" \in wrong
    OBVIOUS
  <2>6. PICK w2 \in BOOLEAN : w2 <=> "write" \in wrong'
    OBVIOUS
  <2>7. W!WriterEdge(v, cmd, go, m # "error")
    BY <2>1, <2>2, <2>3, <2>4 DEF Engines
  <2>8. WP!WriterEdge(v, cmd, go, m # "error") /\ WP!GoodCommand(cmd)
    BY <2>2, <2>7, WEdge, GoodCommands
  <2>9. m # "none" => wdma.state = "RESP" /\ go
    BY <2>3, <2>4 DEF Meets, CanMistake, Mistakes, Flawless
  <2>10. w2 <=> (w /\ ~(WP!CmdReady /\ v)) \/ m # "none"
    <3>1. m # "none" <=> mistake.by = "write"
      BY <2>4 DEF Meets, Mistakes, Flawless
    <3>2. "write" \in Commanded <=> WP!CmdReady /\ v
      BY <2>1 DEF Commanded, W!CmdReady, WP!CmdReady
    <3> QED BY <2>5, <2>6, <3>1, <3>2
  <2>11. WP!FaultInv(w)
    BY <2>5 DEF FaultsInv, WP!FaultInv
  <2>12. WP!FaultInv(w2)'
    BY <2>1, <2>3, <2>4, <2>5, <2>6, <2>8, <2>9, <2>10, <2>11, Sizes,
       WP!WriterFaults DEF EnginesInv
  <2> QED BY <2>6, <2>12 DEF WP!FaultInv, WP!Overrun
<1> QED BY <1>1, <1>2, <1>3 DEF FaultsInv


-----------------------------------------------------------------------------
(* Every step keeps the invariant, and is one the controller's             *)
(* assertions allow.                                                       *)

LEMMA ChunksNext ==
  ASSUME P!StreamInv, [Chunks!Next]_(Chunks!vars)
  PROVE  P!StreamInv'
<1>1. Chunks!Rest => P!Rest
  BY DEF Chunks!Rest, P!Rest, Chunks!chunks, P!chunks, Chunks!slots, P!slots,
         Chunks!engines, P!engines
<1>2. ASSUME NEW request \in Requests, Chunks!Accept(request) PROVE P!Accept(request)
  BY <1>2 DEF Chunks!Accept, P!Accept, Chunks!TotalChunks, P!TotalChunks,
              Chunks!Slot, P!Slot
<1>3. Chunks!Reset => P!Reset
  BY DEF Chunks!Reset, P!Reset, Chunks!Slot, P!Slot, Chunks!NoLoad, P!NoLoad,
         Chunks!NoCompute, P!NoCompute, Chunks!NoWrite, P!NoWrite,
         Chunks!NoCommand, P!NoCommand
<1>4. UNCHANGED Chunks!vars => UNCHANGED P!vars
  BY DEF Chunks!vars, P!vars, Chunks!chunks, P!chunks, Chunks!slots, P!slots,
         Chunks!engines, P!engines
<1>5. CASE Chunks!Next
  <2>1. ASSUME NEW cr, NEW cd, NEW dr, NEW dd, NEW kr, NEW kd, NEW wr, NEW wd,
               Chunks!WorkWhen(cr, cd, dr, dd, kr, kd, wr, wd)
        PROVE  P!StreamInv'
    <3>1. P!WorkWhen(cr, cd, dr, dd, kr, kd, wr, wd)
      BY <2>1, ChunksEdge
    <3> QED BY <3>1, Sizes, P!WorkHolds
  <2>2. ASSUME P!Rest \/ P!Reset \/ \E request \in Requests : P!Accept(request)
        PROVE  P!StreamInv'
    <3>1. P!Next
      BY <2>2 DEF P!Next, P!Edge
    <3> QED BY <3>1, Sizes, P!NextHolds
  <2>3. CASE \E cr, cd, dr, dd, kr, kd, wr, wd \in BOOLEAN :
               Chunks!WorkWhen(cr, cd, dr, dd, kr, kd, wr, wd)
    BY <2>1, <2>3
  <2>4. CASE Chunks!Rest \/ Chunks!Reset \/ \E request \in Requests : Chunks!Accept(request)
    BY <1>1, <1>2, <1>3, <2>2, <2>4
  <2> QED BY <1>5, <2>3, <2>4 DEF Chunks!Next, Chunks!Edge
<1> QED BY <1>4, <1>5, Sizes, P!NextHolds

(* No engine is under way, and none is given a command. *)
LEMMA QuietEdge ==
  ASSUME SubsystemInv, ~busy, Engines(FALSE, FALSE, FALSE, Flawless),
         wrong' = wrong
  PROVE  /\ EnginesInv' /\ FaultsInv'
         /\ ~Engaged(cdma)' /\ ~Engaged(ddma)' /\ ~Engaged(wdma)'
<1>1. ~load.active /\ ~write.pending /\ ~write.inflight
  BY QuietWhenIdle DEF SubsystemInv
<1>2. ~Engaged(cdma) /\ ~Engaged(ddma) /\ ~Engaged(wdma)
  BY <1>1 DEF SubsystemInv, LinkInv, Chunks!CoordAwaited, Chunks!DistAwaited,
              Chunks!WriteAwaited
<1>3. /\ EnginesInv'
      /\ C!CmdReady' /\ ~cdma'.done /\ D!CmdReady' /\ ~ddma'.done
      /\ W!CmdReady' /\ ~wdma'.done
  BY <1>1, <1>2, EnginesKeep DEF SubsystemInv, Engaged, C!CmdReady, D!CmdReady, W!CmdReady,
     Chunks!CoordCmdValid, Chunks!DistCmdValid
<1>4. ~Engaged(cdma)' /\ ~Engaged(ddma)' /\ ~Engaged(wdma)'
  BY <1>3 DEF Engaged, C!CmdReady, D!CmdReady, W!CmdReady
<1>5. FaultsInv'
  BY <1>4 DEF FaultsInv, CP!FaultInv, DP!FaultInv, WP!FaultInv, CP!Overrun, DP!Overrun,
              WP!Overrun, Engaged
<1> QED BY <1>3, <1>4, <1>5

LEMMA InitHolds ==
  ASSUME Init
  PROVE  SubsystemInv
<1>1. P!StreamInv
  <2>1. P!Init
    BY DEF Init, Chunks!Init, P!Init, Chunks!Slot, P!Slot, Chunks!NoLoad, P!NoLoad,
           Chunks!NoCompute, P!NoCompute, Chunks!NoWrite, P!NoWrite,
           Chunks!NoCommand, P!NoCommand
  <2> QED BY <2>1, Sizes, P!InitHolds
<1>2. /\ CP!ReaderInv /\ CP!FaultInv(FALSE) /\ DP!ReaderInv /\ DP!FaultInv(FALSE)
      /\ WP!WriterInv /\ WP!FaultInv(FALSE)
      /\ ~Engaged(cdma) /\ ~Engaged(ddma) /\ ~Engaged(wdma)
  <2>1. cdma = CP!InitialDma /\ ddma = DP!InitialDma /\ wdma = WP!InitialDma
    BY DEF Init, C!InitialDma, CP!InitialDma, D!InitialDma, DP!InitialDma,
           W!InitialDma, WP!InitialDma
  <2> QED BY <2>1, CP!InitialEngine, DP!InitialEngine, WP!InitialEngine
          DEF Engaged, CP!CmdReady, DP!CmdReady, WP!CmdReady
<1>3. EnginesInv /\ FaultsInv
  BY <1>2 DEF Init, EnginesInv, FaultsInv, CP!FaultInv, DP!FaultInv, WP!FaultInv
<1>4. AlignedInv
  <2>1. Aligned(0) /\ Aligned(0 * DIST_BYTES)
    BY BurstAssumption, Sizes DEF Aligned
  <2> QED BY <2>1 DEF Init, Chunks!Init, AlignedInv, Chunks!NoCommand, Chunks!NoWrite,
                      Chunks!Slot, Slot
<1>5. LinkInv
  BY <1>2 DEF Init, Chunks!Init, LinkInv, Chunks!NoLoad
<1> QED BY <1>1, <1>3, <1>4, <1>5 DEF SubsystemInv

LEMMA ResetHolds ==
  ASSUME SubsystemInv, Reset
  PROVE  SubsystemInv' /\ Chunks!Next
<1>1. Chunks!Next
  BY DEF Reset, Chunks!Next
<1>2. P!StreamInv'
  BY <1>1, ChunksNext DEF SubsystemInv
<1>3. EnginesInv' /\ FaultsInv'
      /\ ~Engaged(cdma)' /\ ~Engaged(ddma)' /\ ~Engaged(wdma)'
  <2>1. /\ cdma' = CP!InitialDma /\ ddma' = DP!InitialDma /\ wdma' = WP!InitialDma
        /\ wrong' = {}
    BY DEF Reset, C!InitialDma, CP!InitialDma, D!InitialDma, DP!InitialDma,
           W!InitialDma, WP!InitialDma
  <2> QED BY <2>1 DEF EnginesInv, FaultsInv, Engaged,
     CP!ReaderInv, CP!EngineInv, CP!Engine, CP!Raised, CP!FaultInv, CP!Overrun, CP!InitialDma,
     DP!ReaderInv, DP!EngineInv, DP!Engine, DP!Raised, DP!FaultInv, DP!Overrun, DP!InitialDma,
     WP!WriterInv, WP!EngineInv, WP!Engine, WP!Raised, WP!FaultInv, WP!Overrun, WP!InitialDma
<1>4. AlignedInv'
  <2>1. Aligned(0) /\ Aligned(0 * DIST_BYTES)
    BY BurstAssumption, Sizes DEF Aligned
  <2> QED BY <2>1 DEF Reset, Chunks!Reset, AlignedInv, Aligned, Chunks!NoCommand, Chunks!NoWrite,
                      Chunks!Slot, Slot
<1>5. LinkInv'
  BY <1>3 DEF Reset, Chunks!Reset, LinkInv, Chunks!NoLoad
<1> QED BY <1>1, <1>2, <1>3, <1>4, <1>5 DEF SubsystemInv

LEMMA AcceptHolds ==
  ASSUME SubsystemInv, NEW request \in Requests, Accept(request)
  PROVE  SubsystemInv' /\ Chunks!Next
<1>1. Chunks!Next
  BY DEF Accept, Chunks!Next, Chunks!Edge
<1>2. P!StreamInv'
  BY <1>1, ChunksNext DEF SubsystemInv
<1>3. EnginesInv' /\ FaultsInv'
      /\ ~Engaged(cdma)' /\ ~Engaged(ddma)' /\ ~Engaged(wdma)'
  BY QuietEdge DEF Accept, Chunks!Accept
<1>4. AlignedInv'
  <2>1. Aligned(request.coord) /\ Aligned(request.dist)
    BY AlignedAssumption DEF Aligned
  <2>2. write'.cmd = write.cmd
    BY DEF Accept, Chunks!Accept, SubsystemInv, P!StreamInv, P!TypeOK
  <2> QED BY <2>1, <2>2, AlignedAtRest DEF Accept, Chunks!Accept, SubsystemInv
<1>5. LinkInv'
  <2>1. ~load'.coordSeen /\ ~load'.distSeen
    BY DEF Accept, Chunks!Accept, SubsystemInv, P!StreamInv, P!TypeOK
  <2> QED BY <1>3, <2>1 DEF LinkInv
<1> QED BY <1>1, <1>2, <1>3, <1>4, <1>5 DEF SubsystemInv

LEMMA RestHolds ==
  ASSUME SubsystemInv, Rest
  PROVE  SubsystemInv' /\ Chunks!Next
<1>1. Chunks!Next
  BY DEF Rest, Chunks!Next, Chunks!Edge
<1>2. P!StreamInv'
  BY <1>1, ChunksNext DEF SubsystemInv
<1>3. EnginesInv' /\ FaultsInv'
      /\ ~Engaged(cdma)' /\ ~Engaged(ddma)' /\ ~Engaged(wdma)'
  BY QuietEdge DEF Rest, Chunks!Rest, history
<1>4. AlignedInv'
  BY DEF Rest, Chunks!Rest, Chunks!slots, Chunks!engines, SubsystemInv, AlignedInv, Aligned
<1>5. LinkInv'
  BY <1>3 DEF Rest, Chunks!Rest, Chunks!engines, SubsystemInv, LinkInv
<1> QED BY <1>1, <1>2, <1>3, <1>4, <1>5 DEF SubsystemInv

LEMMA WorkHolds ==
  ASSUME SubsystemInv,
         NEW cGo \in BOOLEAN, NEW dGo \in BOOLEAN, NEW kGo \in BOOLEAN, NEW wGo \in BOOLEAN,
         NEW mistake \in Mistakes \cup {Flawless},
         mistake # Flawless => CanMistake(cGo, dGo, wGo, mistake),
         WorkWith(cGo, dGo, kGo, wGo, mistake)
  PROVE  SubsystemInv' /\ Chunks!Next
<1>1. /\ P!StreamInv /\ AlignedInv /\ LinkInv /\ EnginesInv /\ FaultsInv
      /\ Engines(cGo, dGo, wGo, mistake)
      /\ wrong' = (wrong \ Commanded) \cup ({mistake.by} \ {"none"})
  BY DEF SubsystemInv, WorkWith
<1>2. EnginesInv' /\ FaultsInv'
  BY <1>1, EnginesKeep, FaultsKeep
<1>3. /\ cdma.done \in BOOLEAN /\ ddma.done \in BOOLEAN /\ wdma.done \in BOOLEAN
      /\ cdma.done => C!CmdReady
      /\ ddma.done => D!CmdReady
      /\ wdma.done => W!CmdReady
  BY <1>1 DEF EnginesInv, CP!ReaderInv, CP!EngineInv, CP!Engine, DP!ReaderInv, DP!EngineInv,
     DP!Engine, WP!WriterInv, WP!EngineInv, WP!Engine, C!CmdReady, D!CmdReady, W!CmdReady
<1>4. PICK cr \in BOOLEAN : cr = C!CmdReady
  BY DEF C!CmdReady
<1>5. PICK dr \in BOOLEAN : dr = D!CmdReady
  BY DEF D!CmdReady
<1>6. PICK wr \in BOOLEAN : wr = W!CmdReady
  BY DEF W!CmdReady
<1>7. PICK cd \in BOOLEAN : cd = cdma.done
  BY <1>3
<1>8. PICK dd \in BOOLEAN : dd = ddma.done
  BY <1>3
<1>9. PICK wd \in BOOLEAN : wd = wdma.done
  BY <1>3
<1>10. PICK kd \in BOOLEAN : kd = (compute.inflight /\ kGo)
  OBVIOUS
<1>11. Chunks!Work(cr, cd, dr, dd, kGo, kd, wr, wd)
  BY <1>4, <1>5, <1>6, <1>7, <1>8, <1>9, <1>10 DEF WorkWith
<1>12. Chunks!WorkWhen(cr, cd, dr, dd, kGo, kd, wr, wd)
  <2>1. /\ cd => Chunks!CoordAwaited
        /\ dd => Chunks!DistAwaited
        /\ wd => Chunks!WriteAwaited
        /\ kd => Chunks!ComputeAwaited
    BY <1>1, <1>7, <1>8, <1>9, <1>10 DEF LinkInv, Engaged, Chunks!ComputeAwaited
  <2> QED BY <1>11, <2>1 DEF Chunks!WorkWhen
<1>13. Chunks!Next
  <2>1. \E a, b, c, d, e, f, g, h \in BOOLEAN : Chunks!WorkWhen(a, b, c, d, e, f, g, h)
    <3>1. \E h \in BOOLEAN : Chunks!WorkWhen(cr, cd, dr, dd, kGo, kd, wr, h)
      BY <1>9, <1>12
    <3>2. \E g, h \in BOOLEAN : Chunks!WorkWhen(cr, cd, dr, dd, kGo, kd, g, h)
      BY <1>6, <3>1
    <3>3. \E e, f, g, h \in BOOLEAN : Chunks!WorkWhen(cr, cd, dr, dd, e, f, g, h)
      BY <1>10, <3>2
    <3>4. \E d, e, f, g, h \in BOOLEAN : Chunks!WorkWhen(cr, cd, dr, d, e, f, g, h)
      BY <1>8, <3>3
    <3>5. \E c, d, e, f, g, h \in BOOLEAN : Chunks!WorkWhen(cr, cd, c, d, e, f, g, h)
      BY <1>5, <3>4
    <3>6. \E b, c, d, e, f, g, h \in BOOLEAN : Chunks!WorkWhen(cr, b, c, d, e, f, g, h)
      BY <1>7, <3>5
    <3> QED BY <1>4, <3>6
  <2> QED BY <2>1 DEF Chunks!Next, Chunks!Edge
<1>14. P!StreamInv'
  BY <1>1, <1>13, ChunksNext
<1>15. AlignedInv'
  BY <1>1, <1>11, AlignedWork
<1>16. LinkInv'
  <2>1. /\ C!CmdReady /\ ~Chunks!CoordCmdValid => C!CmdReady' /\ ~cdma'.done
        /\ D!CmdReady /\ ~Chunks!DistCmdValid => D!CmdReady' /\ ~ddma'.done
        /\ W!CmdReady /\ ~write.pending => W!CmdReady' /\ ~wdma'.done
    BY <1>1, EnginesKeep
  <2>2. /\ Engaged(cdma)' => Chunks!CoordAwaited'
        /\ load'.coordSeen => ~load'.coordPending
    BY <1>1, <1>3, <1>4, <1>7, <1>11, <2>1, CoordLink DEF LinkInv
  <2>3. /\ Engaged(ddma)' => Chunks!DistAwaited'
        /\ load'.distSeen => ~load'.distPending
    BY <1>1, <1>3, <1>5, <1>8, <1>11, <2>1, DistLink DEF LinkInv
  <2>4. Engaged(wdma)' => Chunks!WriteAwaited'
    BY <1>1, <1>3, <1>6, <1>9, <1>11, <2>1, WriteLink DEF LinkInv
  <2> QED BY <2>2, <2>3, <2>4 DEF LinkInv
<1> QED BY <1>2, <1>13, <1>14, <1>15, <1>16 DEF SubsystemInv

LEMMA NextHolds ==
  ASSUME SubsystemInv, [Next]_vars
  PROVE  SubsystemInv' /\ [Chunks!Next]_(Chunks!vars)
<1>1. CASE Rest
  BY <1>1, RestHolds
<1>2. CASE Reset
  BY <1>2, ResetHolds
<1>3. ASSUME NEW request \in Requests, Accept(request)
      PROVE  SubsystemInv' /\ Chunks!Next
  BY <1>3, AcceptHolds
<1>4. ASSUME NEW cGo \in Willing(cdma), NEW dGo \in Willing(ddma), NEW wGo \in Willing(wdma),
             NEW kGo \in Computing, Work(cGo, dGo, kGo, wGo)
      PROVE  SubsystemInv' /\ Chunks!Next
  <2>1. cGo \in BOOLEAN /\ dGo \in BOOLEAN /\ wGo \in BOOLEAN /\ kGo \in BOOLEAN
    BY DEF Willing, Computing, Choice
  <2>2. CASE WorkWith(cGo, dGo, kGo, wGo, Flawless)
    BY <2>1, <2>2, WorkHolds
  <2>3. ASSUME NEW mistake \in Mistakes, CanMistake(cGo, dGo, wGo, mistake),
               WorkWith(cGo, dGo, kGo, wGo, mistake)
        PROVE  SubsystemInv' /\ Chunks!Next
    BY <2>1, <2>3, WorkHolds
  <2> QED BY <1>4, <2>2, <2>3 DEF Work
<1>5. CASE UNCHANGED vars
  <2>1. UNCHANGED Chunks!vars
    BY <1>5 DEF vars, control, Chunks!vars, Chunks!chunks, Chunks!slots, Chunks!engines
  <2>2. P!StreamInv'
    BY <2>1, ChunksNext DEF SubsystemInv
  <2>3. AlignedInv' /\ LinkInv'
    BY <1>5 DEF vars, control, SubsystemInv, AlignedInv, Aligned, LinkInv, Engaged,
       Chunks!CoordAwaited, Chunks!DistAwaited, Chunks!WriteAwaited
  <2>4. EnginesInv' /\ FaultsInv'
    BY <1>5 DEF vars, history, SubsystemInv, EnginesInv, FaultsInv,
       CP!ReaderInv, CP!EngineInv, CP!Raised, CP!Fits, CP!Aligned, CP!FaultInv, CP!Overrun,
       DP!ReaderInv, DP!EngineInv, DP!Raised, DP!Fits, DP!Aligned, DP!FaultInv, DP!Overrun,
       WP!WriterInv, WP!EngineInv, WP!Raised, WP!Fits, WP!Aligned, WP!FaultInv, WP!Overrun
  <2> QED BY <2>1, <2>2, <2>3, <2>4 DEF SubsystemInv
<1> QED BY <1>1, <1>2, <1>3, <1>4, <1>5 DEF Next


LEMMA SubsystemInvariant == Spec => []SubsystemInv /\ [][Chunks!Next]_(Chunks!vars)
<1>1. Init => SubsystemInv
  BY InitHolds
<1>2. SubsystemInv /\ [Next]_vars => SubsystemInv'
  BY NextHolds
<1>3. SubsystemInv /\ [Next]_vars => [Chunks!Next]_(Chunks!vars)
  BY NextHolds
<1> QED BY <1>1, <1>2, <1>3, PTL DEF Spec

-----------------------------------------------------------------------------
(* Inside the subsystem the engines answer the controller only as its      *)
(* assertions allow, whatever the speed and the mistakes of the slaves, so *)
(* it takes only steps it takes by itself: what is proved of the           *)
(* controller alone holds of it here.                                      *)
THEOREM ContractKept == Spec => ControllerContract
<1>1. Init => Chunks!Init
  BY DEF Init
<1> QED BY <1>1, SubsystemInvariant, PTL DEF Spec, ControllerContract

(* No burst crosses a page, is longer than allowed or leaves the range of  *)
(* its command, for every page, beat and burst size.                       *)
THEOREM BurstsStayInside == Spec => []BurstsFit
<1>1. SubsystemInv => BurstsFit
  BY CP!AddressFits, DP!AddressFits, WP!AddressFits
     DEF SubsystemInv, EnginesInv, CP!ReaderInv, DP!ReaderInv, WP!WriterInv, BurstsFit
<1> QED BY <1>1, SubsystemInvariant, PTL

(* A command ends with its error flag exactly if its slave made a mistake  *)
(* in one of its bursts, however many bursts and mistakes there are.       *)
THEOREM MistakesReported == Spec => []FaultsFlagged
<1>1. SubsystemInv => FaultsFlagged
  <2> SUFFICES ASSUME SubsystemInv PROVE FaultsFlagged
    OBVIOUS
  <2>1. /\ cdma.done => cdma.state = "IDLE"
        /\ ddma.done => ddma.state = "IDLE"
        /\ wdma.done => wdma.state = "IDLE"
        /\ cdma.error \in BOOLEAN /\ ddma.error \in BOOLEAN /\ wdma.error \in BOOLEAN
    BY DEF SubsystemInv, EnginesInv, CP!ReaderInv, CP!EngineInv, CP!Engine,
       DP!ReaderInv, DP!EngineInv, DP!Engine, WP!WriterInv, WP!EngineInv, WP!Engine
  <2> QED BY <2>1 DEF SubsystemInv, FaultsInv, FaultsFlagged, CP!FaultInv, CP!Overrun,
     DP!FaultInv, DP!Overrun, WP!FaultInv, WP!Overrun
<1> QED BY <1>1, SubsystemInvariant, PTL


-----------------------------------------------------------------------------
(* The data, as long as no slave makes a mistake.                          *)

(* The points of the chunk that begins at point o. *)
PointsAt(o) == IF bucket.points - o < CHUNK_POINTS THEN bucket.points - o ELSE CHUNK_POINTS

CoordCommand(s) == [addr  |-> bucket.coord + slotOffset[s] * COORD_BYTES,
                    bytes |-> slotPoints[s] * COORD_BYTES]
DistCommand(s)  == [addr  |-> bucket.dist + slotOffset[s] * DIST_BYTES,
                    bytes |-> slotPoints[s] * DIST_BYTES]

(* A command is that of the chunk in its slot. *)
CommandsInv ==
  /\ \A s \in Slot : slotState[s] # "EMPTY" =>
       slotPoints[s] = PointsAt(slotOffset[s]) /\ slotPoints[s] >= 1
  /\ load.active => coordCmd = CoordCommand(load.slot) /\ distCmd = DistCommand(load.slot)
  /\ write.pending \/ write.inflight => write.cmd = DistCommand(write.slot)
  /\ compute.pending => compute.points = slotPoints[compute.slot]
  /\ bucketDone => ~busy

(* The engines are as far as the bytes they moved. *)
ProgressInv ==
  /\ CP!Progress(coordCmd) /\ DP!Progress(distCmd) /\ WP!Progress(write.cmd)
  /\ ~CP!Overrun /\ ~DP!Overrun

(* What is read at an address, as coordinate and as distance. *)
CoordWords == [a \in Nat |-> a]
DistWords  == [a \in Nat |-> [of |-> a, times |-> 0]]
Word       == [of : Nat, times : Nat]

Buffers(V) == [data : [Slot -> Seq(V)], slot : Slot, fresh : BOOLEAN]

(* The first n bytes of the command's range, and lanes past its end. *)
PartOf(data, words, cmd, n) ==
  /\ Len(data) = n
  /\ \A i \in 1..n : i <= cmd.bytes => data[i] = words[cmd.addr + i - 1]

(* All of them. *)
Full(data, words, cmd) ==
  /\ Len(data) >= cmd.bytes
  /\ \A i \in 1..cmd.bytes : data[i] = words[cmd.addr + i - 1]

(* One of the two streams with the controller's view of it. *)
CoordSide ==
  [buffer |-> coords, cmd |-> coordCmd, active |-> load.active, slot |-> load.slot,
   next |-> nextLoad, ended |-> load.coordSeen \/ cdma.done,
   moved |-> IF cdma.state = "IDLE" THEN 0 ELSE CP!Moved]
DistSide ==
  [buffer |-> dists, cmd |-> distCmd, active |-> load.active, slot |-> load.slot,
   next |-> nextLoad, ended |-> load.distSeen \/ ddma.done,
   moved |-> IF ddma.state = "IDLE" THEN 0 ELSE DP!Moved]

Filling(x) == x.active /\ ~x.ended

(* A stream fills the slot its chunk was given, and then waits at the      *)
(* next one.                                                               *)
Stream(x, words) ==
  /\ x.buffer.slot = IF x.active /\ x.ended THEN 1 - x.slot ELSE x.next % 2
  /\ x.active /\ x.ended => Full(x.buffer.data[x.slot], words, x.cmd)
  /\ x.buffer.fresh <=> (Filling(x) => x.moved = 0)
  /\ ~x.buffer.fresh => PartOf(x.buffer.data[x.slot], words, x.cmd, x.moved)

Arrived(s) == slotState[s] \in {"LOADED", "COMPUTE"}

StreamsInv ==
  /\ coords \in Buffers(Nat) /\ Stream(CoordSide, CoordWords)
  /\ dists \in Buffers(Word) /\ Stream(DistSide, DistWords)
  /\ \A s \in Slot : Arrived(s) => /\ Full(coords.data[s], CoordWords, CoordCommand(s))
                                   /\ Full(dists.data[s], DistWords, DistCommand(s))

(* What the writer has taken of the chunk it writes. *)
Taken == IF wdma.state = "IDLE" THEN 0 ELSE WP!Moved
AllTaken == write.inflight /\ (wdma.done \/ Taken >= write.cmd.bytes)

(* All but the first n bytes of the results of a chunk.                    *)
Remains(d, cmd, n) ==
  /\ Len(d) = cmd.bytes - n
  /\ \A i \in 1..Len(d) : d[i] = [of |-> cmd.addr + n + i - 1, times |-> 1]

(* Results in order: of the older of two chunks all but n bytes, if they   *)
(* wait (old), and of the younger all of them, if they do (young).         *)
Queue(r, old, young, oldCmd, n, youngCmd) ==
  /\ r \in Seq(Seq(Word))
  /\ Len(r) = (IF old THEN 1 ELSE 0) + (IF young THEN 1 ELSE 0)
  /\ old => Remains(r[1], oldCmd, n)
  /\ young => Remains(r[Len(r)], youngCmd, 0)

(* The results on their way are those of the computed chunks, of the older *)
(* one what the writer has not taken.                                      *)
OldQueued   == Chunks!IsComputed(P!Old) /\ ~AllTaken
YoungQueued == Chunks!IsComputed(P!Young)

ResultsInv ==
  Queue(results, OldQueued, YoungQueued, DistCommand(P!Old), Taken, DistCommand(P!Young))

(* The bytes of the bucket that are back in memory. *)
Smaller(a, b) == IF a < b THEN a ELSE b

Written ==
  IF write.inflight /\ wdma.done
  THEN slotOffset[write.slot] * DIST_BYTES + write.cmd.bytes
  ELSE IF wdma.state # "IDLE"
  THEN slotOffset[write.slot] * DIST_BYTES + Smaller(Taken, write.cmd.bytes)
  ELSE Smaller(completeCount * CHUNK_POINTS, bucket.points) * DIST_BYTES

(* The distances of the first n bytes of the bucket are recomputed. *)
Memory(n) ==
  [a \in DistAddresses |->
     [of |-> a, times |-> IF a \in bucket.dist .. bucket.dist + n - 1 THEN 1 ELSE 0]]

DataInv ==
  /\ CommandsInv /\ mistakes \in Nat
  /\ mistakes = 0 => ProgressInv /\ StreamsInv /\ ResultsInv /\ dram = Memory(Written)

-----------------------------------------------------------------------------
(* A stream, beat by beat. *)

(* What an edge does to a stream: its chunk is reserved, nothing moves, a  *)
(* beat arrives, the chunk is loaded.                                      *)
Reserves(a, b) ==
  /\ ~a.active /\ b.active /\ ~b.ended /\ b.moved = 0
  /\ b.next = a.next /\ b.buffer = a.buffer

Stays(a, b) ==
  /\ b.next = a.next /\ b.buffer = a.buffer
  /\ b.active <=> a.active
  /\ a.active => /\ b.slot = a.slot /\ b.cmd = a.cmd
                 /\ b.ended <=> a.ended
                 /\ ~a.ended => b.moved = a.moved

Receives(a, b, beat, words) ==
  /\ Filling(a) /\ b.active /\ b.slot = a.slot /\ b.cmd = a.cmd /\ b.next = a.next
  /\ \A k \in 1..BUS_BYTES :
       a.moved + k <= a.cmd.bytes => beat[k] = words[a.cmd.addr + a.moved + k - 1]
  /\ b.ended <=> a.moved + BUS_BYTES >= a.cmd.bytes
  /\ ~b.ended => b.moved = a.moved + BUS_BYTES
  /\ b.buffer = Received(a.buffer, beat, b.ended)

Loads(a, b) ==
  /\ a.active /\ a.ended /\ ~b.active
  /\ b.next = a.next + 1 /\ b.buffer = a.buffer

LEMMA BeatEnters ==
  ASSUME NEW V, NEW words, NEW a, NEW b, NEW beat \in [1..BUS_BYTES -> V],
         a.buffer \in Buffers(V), a.moved \in Nat, b.ended \in BOOLEAN,
         a.cmd.addr \in Nat, a.cmd.bytes \in Nat, a.slot = a.next % 2,
         Stream(a, words), Receives(a, b, beat, words)
  PROVE  /\ b.buffer \in Buffers(V)
         /\ b.buffer.slot = IF b.ended THEN 1 - a.slot ELSE a.slot
         /\ b.buffer.fresh <=> b.ended
         /\ \A t \in Slot : t # a.slot => b.buffer.data[t] = a.buffer.data[t]
         /\ PartOf(b.buffer.data[a.slot], words, a.cmd, a.moved + BUS_BYTES)
<1> PICK n \in Nat : n = a.moved
  OBVIOUS
<1> PICK cmd : cmd = a.cmd
  OBVIOUS
<1> PICK buffer \in Buffers(V) : buffer = a.buffer
  OBVIOUS
<1> PICK last \in BOOLEAN : last = b.ended
  OBVIOUS
<1> PICK r : r = b.buffer
  OBVIOUS
<1>0. /\ buffer.slot = a.slot
      /\ buffer.fresh <=> n = 0
      /\ ~buffer.fresh => PartOf(buffer.data[buffer.slot], words, cmd, n)
      /\ \A k \in 1..BUS_BYTES : n + k <= cmd.bytes => beat[k] = words[cmd.addr + n + k - 1]
      /\ r = Received(buffer, beat, last) /\ cmd.addr \in Nat /\ cmd.bytes \in Nat
  BY DEF Stream, Receives, Filling
<1>1. /\ buffer.data \in [Slot -> Seq(V)] /\ buffer.slot \in Slot /\ buffer.fresh \in BOOLEAN
      /\ BUS_BYTES \in Nat
  BY Sizes DEF Buffers
<1>2. PICK old : old = IF buffer.fresh THEN <<>> ELSE buffer.data[buffer.slot]
  OBVIOUS
<1>3. /\ old \in Seq(V) /\ Len(old) = n
      /\ \A i \in 1..n : i <= cmd.bytes => old[i] = words[cmd.addr + i - 1]
  BY <1>0, <1>1, <1>2, EmptySeq DEF PartOf
<1>4. beat \in Seq(V) /\ Len(beat) = BUS_BYTES
  BY <1>1, SeqDef
<1>5. PICK new : new = old \o beat
  OBVIOUS
<1>6. /\ new \in Seq(V) /\ Len(new) = n + BUS_BYTES
      /\ \A i \in 1..n + BUS_BYTES : new[i] = IF i <= n THEN old[i] ELSE beat[i - n]
  <2>1. /\ new \in Seq(V) /\ Len(new) = Len(old) + Len(beat)
        /\ \A i \in 1..Len(old) + Len(beat) :
             new[i] = IF i <= Len(old) THEN old[i] ELSE beat[i - Len(old)]
    <3>1. \A s1, s2 \in Seq(V) :
            /\ s1 \o s2 \in Seq(V) /\ Len(s1 \o s2) = Len(s1) + Len(s2)
            /\ \A i \in 1..Len(s1) + Len(s2) :
                 (s1 \o s2)[i] = IF i <= Len(s1) THEN s1[i] ELSE s2[i - Len(s1)]
      BY ConcatProperties
    <3> QED BY <1>3, <1>4, <1>5, <3>1
  <2> QED BY <1>3, <1>4, <2>1
<1>7. ASSUME NEW i \in 1..n + BUS_BYTES, i <= cmd.bytes
      PROVE  new[i] = words[cmd.addr + i - 1]
  <2>1. CASE i <= n
    BY <1>0, <1>1, <1>3, <1>6, <1>7, <2>1
  <2>2. CASE i > n
    <3>1. i - n \in 1..BUS_BYTES /\ n + (i - n) = i /\ cmd.addr + n + (i - n) - 1 = cmd.addr + i - 1
      <4>1. PICK addr \in Nat : addr = cmd.addr
        BY <1>0
      <4>2. i \in Nat /\ i <= n + BUS_BYTES
        BY <1>1
      <4>3. i - n \in 1..BUS_BYTES /\ n + (i - n) = i
        BY <1>1, <2>2, <4>2
      <4>4. addr + n + (i - n) - 1 = addr + i - 1
        BY <4>2
      <4> QED BY <4>1, <4>3, <4>4
    <3>2. new[i] = beat[i - n]
      BY <1>1, <1>6, <2>2
    <3> QED BY <1>0, <1>7, <3>1, <3>2
  <2> QED BY <1>1, <2>1, <2>2
<1>8. r = [data  |-> [buffer.data EXCEPT ![buffer.slot] = new],
           slot  |-> IF last THEN 1 - buffer.slot ELSE buffer.slot,
           fresh |-> last]
  BY <1>0, <1>2, <1>5 DEF Received
<1>9. /\ r.data = [buffer.data EXCEPT ![buffer.slot] = new]
      /\ r.slot = (IF last THEN 1 - buffer.slot ELSE buffer.slot) /\ r.fresh = last
  BY <1>8
<1>10. r \in Buffers(V)
  BY <1>1, <1>6, <1>8 DEF Buffers, Slot
<1> QED BY <1>0, <1>1, <1>6, <1>7, <1>9, <1>10 DEF PartOf

(* One of them happens to a stream as the controller uses it. *)
Turn(V, words, a, b, beat) ==
  /\ a.buffer \in Buffers(V) /\ a.next \in Nat /\ a.moved \in Nat /\ b.ended \in BOOLEAN
  /\ a.cmd.addr \in Nat /\ a.cmd.bytes \in Nat /\ beat \in [1..BUS_BYTES -> V]
  /\ a.active => a.slot = a.next % 2
  /\ b.active => b.slot = b.next % 2
  /\ Stream(a, words)
  /\ Reserves(a, b) \/ Stays(a, b) \/ Receives(a, b, beat, words) \/ Loads(a, b)

LEMMA StreamTurns ==
  ASSUME NEW V, NEW words, NEW a, NEW b, NEW beat, Turn(V, words, a, b, beat)
  PROVE  /\ Stream(b, words) /\ b.buffer \in Buffers(V)
         /\ \A t \in Slot : (Filling(a) /\ t = a.slot) \/ b.buffer.data[t] = a.buffer.data[t]
<1> SUFFICES ASSUME
         a.buffer \in Buffers(V), a.next \in Nat, a.moved \in Nat, b.ended \in BOOLEAN,
         a.cmd.addr \in Nat, a.cmd.bytes \in Nat, beat \in [1..BUS_BYTES -> V],
         a.active => a.slot = a.next % 2,
         b.active => b.slot = b.next % 2,
         Stream(a, words),
         Reserves(a, b) \/ Stays(a, b) \/ Receives(a, b, beat, words) \/ Loads(a, b)
    PROVE  /\ Stream(b, words) /\ b.buffer \in Buffers(V)
           /\ \A t \in Slot : (Filling(a) /\ t = a.slot) \/ b.buffer.data[t] = a.buffer.data[t]
  BY DEF Turn
<1>1. CASE Reserves(a, b)
  BY <1>1 DEF Reserves, Stream, Filling
<1>2. CASE Stays(a, b)
  BY <1>2 DEF Stays, Stream, Filling
<1>3. CASE Receives(a, b, beat, words)
  <2>1. /\ Filling(a) /\ b.active /\ b.slot = a.slot /\ b.cmd = a.cmd /\ b.next = a.next
        /\ \A k \in 1..BUS_BYTES :
             a.moved + k <= a.cmd.bytes => beat[k] = words[a.cmd.addr + a.moved + k - 1]
        /\ b.ended <=> a.moved + BUS_BYTES >= a.cmd.bytes
        /\ ~b.ended => b.moved = a.moved + BUS_BYTES
        /\ b.buffer = Received(a.buffer, beat, b.ended)
    BY <1>3 DEF Receives
  <2>3. PICK r : r = b.buffer
    OBVIOUS
  <2>4. /\ r \in Buffers(V) /\ r.slot = (IF b.ended THEN 1 - a.slot ELSE a.slot)
        /\ r.fresh <=> b.ended
        /\ \A t \in Slot : t # a.slot => r.data[t] = a.buffer.data[t]
        /\ PartOf(r.data[a.slot], words, a.cmd, a.moved + BUS_BYTES)
    <3>1. a.slot = a.next % 2
      BY <2>1 DEF Filling
    <3>2. /\ b.buffer \in Buffers(V)
          /\ b.buffer.slot = IF b.ended THEN 1 - a.slot ELSE a.slot
          /\ b.buffer.fresh <=> b.ended
          /\ \A t \in Slot : t # a.slot => b.buffer.data[t] = a.buffer.data[t]
          /\ PartOf(b.buffer.data[a.slot], words, a.cmd, a.moved + BUS_BYTES)
      BY <1>3, <3>1, BeatEnters
    <3> QED BY <2>3, <3>2
  <2>5. BUS_BYTES \in Nat /\ BUS_BYTES >= 1
    BY BurstAssumption
  <2>6. b.ended => Full(r.data[b.slot], words, b.cmd)
    BY <2>1, <2>4, <2>5 DEF Full, PartOf
  <2>7. Stream(b, words)
    BY <2>1, <2>3, <2>4, <2>5, <2>6 DEF Stream, Filling
  <2> QED BY <2>1, <2>3, <2>4, <2>7
<1>4. CASE Loads(a, b)
  <2>1. b.next % 2 = 1 - a.slot
    BY <1>4 DEF Loads
  <2> QED BY <1>4, <2>1 DEF Loads, Stream, Filling
<1> QED BY <1>1, <1>2, <1>3, <1>4

-----------------------------------------------------------------------------
(* The commands of a chunk. *)

LEMMA ChunkTypes ==
  ASSUME P!StreamInv
  PROVE  /\ bucket \in [coord : Nat, dist : Nat, points : Nat, merge : Nat]
         /\ totalChunks \in Nat /\ nextLoad \in Nat /\ completeCount \in Nat
         /\ slotState \in [Slot -> P!SlotStates]
         /\ slotOffset \in [Slot -> Nat] /\ slotPoints \in [Slot -> Nat]
         /\ load \in [active : BOOLEAN, slot : Slot, coordPending : BOOLEAN,
                      distPending : BOOLEAN, coordSeen : BOOLEAN, distSeen : BOOLEAN]
         /\ compute \in [pending : BOOLEAN, inflight : BOOLEAN, slot : Slot,
                         activeSlot : Slot, points : Nat, merge : Nat]
         /\ write \in [pending : BOOLEAN, inflight : BOOLEAN, slot : Slot, cmd : P!Command]
         /\ coordCmd \in P!Command /\ distCmd \in P!Command
BY DEF P!StreamInv, P!TypeOK, P!Slot, Slot

(* What a slot holds changes only when it is reserved. *)
LEMMA SlotsWork ==
  ASSUME P!StreamInv,
         NEW cr, NEW cd, NEW dr, NEW dd, NEW kr, NEW kd, NEW wr, NEW wd,
         P!WorkWhen(cr, cd, dr, dd, kr, kd, wr, wd)
  PROVE  /\ bucket' = bucket
         /\ P!CanReserve => /\ ~load.active /\ nextLoad < totalChunks
                            /\ P!CandidateSlot = nextLoad % 2 /\ P!CandidateSlot \in Slot
                            /\ slotState[P!CandidateSlot] = "EMPTY"
         /\ \A s \in Slot :
              /\ slotOffset'[s] = IF P!CanReserve /\ s = P!CandidateSlot
                                  THEN P!LoadOffset ELSE slotOffset[s]
              /\ slotPoints'[s] = IF P!CanReserve /\ s = P!CandidateSlot
                                  THEN P!LoadPoints ELSE slotPoints[s]
              /\ slotState'[s] # "EMPTY" =>
                   slotState[s] # "EMPTY" \/ (P!CanReserve /\ s = P!CandidateSlot)
<1>1. nextLoad \in Nat /\ slotOffset \in [Slot -> Nat] /\ slotPoints \in [Slot -> Nat]
  BY ChunkTypes
<1>2. P!CanReserve => /\ ~load.active /\ nextLoad < totalChunks
                      /\ P!CandidateSlot = nextLoad % 2 /\ P!CandidateSlot \in Slot
                      /\ slotState[P!CandidateSlot] = "EMPTY"
  BY <1>1 DEF P!CanReserve, P!CandidateSlot, Slot
<1>3. /\ slotOffset' = P!Updated(slotOffset, P!CanReserve, P!CandidateSlot, P!LoadOffset)
      /\ slotPoints' = P!Updated(slotPoints, P!CanReserve, P!CandidateSlot, P!LoadPoints)
      /\ bucket' = bucket
  BY DEF P!WorkWhen, P!Work, P!SlotStep
<1>4. ASSUME NEW s \in Slot
      PROVE  /\ slotOffset'[s] = IF P!CanReserve /\ s = P!CandidateSlot
                                 THEN P!LoadOffset ELSE slotOffset[s]
             /\ slotPoints'[s] = IF P!CanReserve /\ s = P!CandidateSlot
                                 THEN P!LoadPoints ELSE slotPoints[s]
  BY <1>1, <1>2, <1>3 DEF P!Updated
<1>5. ASSUME NEW s \in Slot, slotState'[s] # "EMPTY"
      PROVE  slotState[s] # "EMPTY" \/ (P!CanReserve /\ s = P!CandidateSlot)
  <2>1. P!SlotMove(s, cd, dd, kr, kd, wr, wd)
    BY Sizes, P!SlotMoves DEF P!StreamInv, P!Slot, Slot
  <2> QED BY <1>5, <2>1 DEF P!SlotMove
<1> QED BY <1>2, <1>3, <1>4, <1>5

LEMMA CommandsWork ==
  ASSUME P!StreamInv, CommandsInv,
         NEW cr, NEW cd, NEW dr, NEW dd, NEW kr, NEW kd, NEW wr, NEW wd,
         P!WorkWhen(cr, cd, dr, dd, kr, kd, wr, wd)
  PROVE  /\ CommandsInv'
         /\ \A s \in Slot : slotState[s] # "EMPTY" =>
              CoordCommand(s)' = CoordCommand(s) /\ DistCommand(s)' = DistCommand(s)
         /\ load.active => coordCmd' = coordCmd /\ distCmd' = distCmd
<1>1. P!StreamInv'
  BY Sizes, P!WorkHolds
<1>2. /\ bucket' = bucket
      /\ P!CanReserve => /\ ~load.active /\ nextLoad < totalChunks
                         /\ P!CandidateSlot = nextLoad % 2 /\ P!CandidateSlot \in Slot
                         /\ slotState[P!CandidateSlot] = "EMPTY"
      /\ \A s \in Slot :
           /\ slotOffset'[s] = IF P!CanReserve /\ s = P!CandidateSlot
                               THEN P!LoadOffset ELSE slotOffset[s]
           /\ slotPoints'[s] = IF P!CanReserve /\ s = P!CandidateSlot
                               THEN P!LoadPoints ELSE slotPoints[s]
           /\ slotState'[s] # "EMPTY" =>
                slotState[s] # "EMPTY" \/ (P!CanReserve /\ s = P!CandidateSlot)
  BY SlotsWork
<1>3. ASSUME NEW s \in Slot, slotState[s] # "EMPTY"
      PROVE  /\ slotOffset'[s] = slotOffset[s] /\ slotPoints'[s] = slotPoints[s]
             /\ CoordCommand(s)' = CoordCommand(s) /\ DistCommand(s)' = DistCommand(s)
  <2>1. slotOffset'[s] = slotOffset[s] /\ slotPoints'[s] = slotPoints[s]
    BY <1>2, <1>3
  <2> QED BY <1>2, <2>1 DEF CoordCommand, DistCommand
<1>4. ASSUME NEW s \in Slot, slotState'[s] # "EMPTY"
      PROVE  slotPoints'[s] = PointsAt(slotOffset[s])' /\ slotPoints'[s] >= 1
  <2>1. CASE P!CanReserve /\ s = P!CandidateSlot
    <3>1. slotOffset'[s] = P!LoadOffset /\ slotPoints'[s] = P!LoadPoints
      BY <1>2, <2>1
    <3>2. P!LoadPoints = IF bucket.points - P!LoadOffset < CHUNK_POINTS
                         THEN bucket.points - P!LoadOffset ELSE CHUNK_POINTS
      BY DEF P!LoadPoints, P!Remaining
    <3>3. P!LoadOffset \in 0 .. bucket.points - 1
      <4>1. bucket.points \in Nat /\ nextLoad \in Nat /\ nextLoad < P!TotalChunks(bucket.points)
        BY <1>2, <2>1, ChunkTypes DEF P!StreamInv, P!CountersInv
      <4> QED BY <4>1, Sizes, P!TotalFacts DEF P!LoadOffset
    <3> QED BY <1>2, <3>1, <3>2, <3>3, ChunkTypes, ChunksAssumption DEF PointsAt
  <2>2. CASE ~(P!CanReserve /\ s = P!CandidateSlot)
    <3>1. slotState[s] # "EMPTY"
      BY <1>2, <1>4, <2>2
    <3>2. slotPoints[s] = PointsAt(slotOffset[s]) /\ slotPoints[s] >= 1
      BY <3>1 DEF CommandsInv
    <3> QED BY <1>2, <1>3, <3>1, <3>2 DEF PointsAt
  <2> QED BY <2>1, <2>2
<1>5. load.active => coordCmd' = coordCmd /\ distCmd' = distCmd
  BY <1>2 DEF P!WorkWhen, P!Work, P!CommandStep
<1>6. load'.active => /\ coordCmd' = CoordCommand(load.slot)'
                      /\ distCmd' = DistCommand(load.slot)'
  <2>1. /\ load'.active <=> (P!CanReserve \/ (load.active /\ ~P!LoadDone(cd, dd)))
        /\ load'.slot = (IF P!CanReserve THEN P!CandidateSlot ELSE load.slot)
    BY ChunkTypes DEF P!WorkWhen, P!Work, P!LoadStep
  <2>2. CASE P!CanReserve
    <3>1. /\ coordCmd' = [addr  |-> bucket.coord + P!LoadOffset * COORD_BYTES,
                          bytes |-> P!LoadPoints * COORD_BYTES]
          /\ distCmd'  = [addr  |-> bucket.dist + P!LoadOffset * DIST_BYTES,
                          bytes |-> P!LoadPoints * DIST_BYTES]
      BY <2>2 DEF P!WorkWhen, P!Work, P!CommandStep
    <3>2. slotOffset'[load'.slot] = P!LoadOffset /\ slotPoints'[load'.slot] = P!LoadPoints
      BY <1>2, <2>1, <2>2
    <3> QED BY <1>2, <3>1, <3>2 DEF CoordCommand, DistCommand
  <2>3. CASE ~P!CanReserve /\ load'.active
    <3>1. load.active /\ load'.slot = load.slot /\ load.slot \in Slot
      BY <2>1, <2>3, ChunkTypes
    <3>2. slotState[load.slot] # "EMPTY"
      BY <3>1 DEF P!StreamInv, P!EnginesInv, P!Slot, Slot
    <3>3. coordCmd = CoordCommand(load.slot) /\ distCmd = DistCommand(load.slot)
      BY <3>1 DEF CommandsInv
    <3> QED BY <1>2, <1>3, <1>5, <3>1, <3>2, <3>3 DEF CoordCommand, DistCommand
  <2> QED BY <2>2, <2>3
<1>7. write'.pending \/ write'.inflight => write'.cmd = DistCommand(write.slot)'
  <2>1. /\ write'.pending <=> (P!CanQueue \/ (write.pending /\ ~wr))
        /\ write'.inflight => write.inflight \/ write.pending
        /\ write'.slot = (IF P!CanQueue THEN P!FirstOf("WRITEQ") ELSE write.slot)
        /\ write'.cmd = (IF P!CanQueue
                         THEN [addr  |-> bucket.dist + slotOffset[P!FirstOf("WRITEQ")] * DIST_BYTES,
                               bytes |-> slotPoints[P!FirstOf("WRITEQ")] * DIST_BYTES]
                         ELSE write.cmd)
    BY ChunkTypes DEF P!WorkWhen, P!Work, P!WriteStep
  <2>2. CASE P!CanQueue
    <3>1. P!FirstOf("WRITEQ") \in Slot /\ slotState[P!FirstOf("WRITEQ")] = "WRITEQ"
      BY <2>2 DEF P!CanQueue, P!FirstOf, P!InState, P!Slot, Slot
    <3> QED BY <1>2, <1>3, <2>1, <2>2, <3>1 DEF DistCommand
  <2>3. CASE ~P!CanQueue /\ (write'.pending \/ write'.inflight)
    <3>1. (write.pending \/ write.inflight) /\ write'.slot = write.slot /\ write.slot \in Slot
      BY <2>1, <2>3, ChunkTypes
    <3>2. slotState[write.slot] # "EMPTY" /\ write.cmd = DistCommand(write.slot)
      BY <3>1 DEF P!StreamInv, P!EnginesInv, P!Slot, Slot, CommandsInv
    <3> QED BY <1>2, <1>3, <2>1, <2>3, <3>1, <3>2 DEF DistCommand
  <2> QED BY <2>2, <2>3
<1>8. compute'.pending => compute'.points = slotPoints'[compute'.slot]
  <2>1. /\ compute'.pending <=> (P!CanOffer \/ (compute.pending /\ ~kr))
        /\ compute'.slot = (IF P!CanOffer THEN P!FirstOf("LOADED") ELSE compute.slot)
        /\ compute'.points = (IF P!CanOffer THEN slotPoints[P!FirstOf("LOADED")] ELSE compute.points)
    BY ChunkTypes DEF P!WorkWhen, P!Work, P!ComputeStep
  <2>2. CASE P!CanOffer
    <3>1. P!FirstOf("LOADED") \in Slot /\ slotState[P!FirstOf("LOADED")] = "LOADED"
      BY <2>2 DEF P!CanOffer, P!FirstOf, P!InState, P!Slot, Slot
    <3> QED BY <1>3, <2>1, <2>2, <3>1
  <2>3. CASE ~P!CanOffer /\ compute'.pending
    <3>1. compute.pending /\ compute'.slot = compute.slot /\ compute.slot \in Slot
      BY <2>1, <2>3, ChunkTypes
    <3>2. slotState[compute.slot] # "EMPTY" /\ compute.points = slotPoints[compute.slot]
      BY <3>1 DEF P!StreamInv, P!EnginesInv, CommandsInv
    <3> QED BY <1>3, <2>1, <2>3, <3>1, <3>2
  <2> QED BY <2>2, <2>3
<1>9. bucketDone' => ~busy'
  BY DEF P!WorkWhen, P!Work
<1>10. CommandsInv'
  BY <1>4, <1>6, <1>7, <1>8, <1>9 DEF CommandsInv
<1> QED BY <1>3, <1>5, <1>10


-----------------------------------------------------------------------------
(* The engines' part of an edge on which no slave makes a mistake.         *)

LEMMA CoordMoves ==
  ASSUME SubsystemInv, CommandsInv, CP!Progress(coordCmd), ~CP!Overrun,
         NEW cGo, NEW dGo, NEW wGo, Engines(cGo, dGo, wGo, Flawless),
         load.active => coordCmd' = coordCmd
  PROVE  /\ CP!Progress(coordCmd)' /\ ~CP!Overrun'
         /\ coordCmd.addr \in Nat /\ coordCmd.bytes \in Nat
         /\ ~load.active => /\ cdma.state = "IDLE" /\ ~cdma.done
                            /\ cdma'.state = "IDLE" /\ ~cdma'.done
         /\ cdma.state = "IDLE" /\ ~Chunks!CoordCmdValid => cdma'.state = "IDLE" /\ ~cdma'.done
         /\ cdma.state = "IDLE" /\ Chunks!CoordCmdValid =>
              cdma'.state # "IDLE" /\ ~cdma'.done /\ CP!Moved' = 0
         /\ cdma.state # "IDLE" /\ ~(cdma.state = "DATA" /\ cGo) =>
              cdma'.state # "IDLE" /\ ~cdma'.done /\ CP!Moved' = CP!Moved
         /\ cdma.state = "DATA" =>
              /\ CP!Moved \in Nat /\ BeatAddress(cdma) = coordCmd.addr + CP!Moved
              /\ C!OutLast(SlaveLast(cdma, Meets("coord", Flawless)))
                   <=> CP!Moved + BUS_BYTES >= coordCmd.bytes
         /\ cdma.state = "DATA" /\ cGo =>
              IF CP!Moved + BUS_BYTES >= coordCmd.bytes
              THEN cdma'.state = "IDLE" /\ cdma'.done
              ELSE cdma'.state # "IDLE" /\ ~cdma'.done /\ CP!Moved' = CP!Moved + BUS_BYTES
<1>1. P!StreamInv /\ AlignedInv /\ LinkInv /\ EnginesInv
  BY DEF SubsystemInv
<1>2. PICK v : v = Chunks!CoordCmdValid
  OBVIOUS
<1>3. PICK cmd : cmd = coordCmd
  OBVIOUS
<1>4. PICK last \in BOOLEAN : last = SlaveLast(cdma, Meets("coord", Flawless))
  BY SlaveLastIs
<1>5. PICK ok : ok = (Meets("coord", Flawless) # "error")
  OBVIOUS
<1>6. CP!ReaderEdge(v, cmd, cGo, last, ok)
  <2>1. C!ReaderEdge(v, cmd, cGo, last, ok)
    BY <1>2, <1>3, <1>4, <1>5 DEF Engines
  <2> QED BY <2>1, CEdge
<1>7. CP!GoodCommand(cmd)
  BY <1>1, <1>3, GoodCommands
<1>8. cmd.addr \in Nat /\ cmd.bytes \in Nat
  BY <1>7 DEF CP!GoodCommand
<1>9. CASE ~load.active
  <2>1. cdma.state = "IDLE" /\ ~cdma.done /\ ~v
    BY <1>1, <1>2, <1>9 DEF LinkInv, Engaged, Chunks!CoordAwaited, Chunks!CoordCmdValid
  <2>2. cdma'.state = "IDLE" /\ ~cdma'.done
    BY <1>1, <1>2, <2>1, EnginesKeep DEF C!CmdReady
  <2> QED BY <1>2, <1>3, <1>8, <1>9, <2>1, <2>2 DEF CP!Progress, CP!Overrun
<1>10. CASE load.active
  <2>1. cmd.bytes >= 1
    <3>1. cmd.bytes = slotPoints[load.slot] * COORD_BYTES /\ load.slot \in Slot
      BY <1>1, <1>3, <1>10, ChunkTypes DEF CommandsInv, CoordCommand
    <3>2. slotState[load.slot] # "EMPTY"
      BY <1>1, <1>10, <3>1 DEF P!StreamInv, P!EnginesInv, P!Slot, Slot
    <3>3. slotPoints[load.slot] \in Nat /\ slotPoints[load.slot] >= 1
      BY <1>1, <3>1, <3>2, ChunkTypes DEF CommandsInv
    <3> QED BY <3>1, <3>3, ChunksAssumption
  <2>2. last <=> cdma.beatCount >= cdma.len
    BY <1>4 DEF SlaveLast, Meets, Flawless
  <2>3. CP!Progress(cmd)
    BY <1>3 DEF CP!Progress
  <2>4. CP!ReaderInv
    BY <1>1 DEF EnginesInv
  <2>5. /\ CP!Progress(cmd)' /\ ~CP!Overrun'
        /\ CP!CmdReady /\ ~v => CP!CmdReady' /\ ~cdma'.done
        /\ CP!CmdReady /\ v => ~CP!CmdReady' /\ ~cdma'.done /\ CP!Moved' = 0
        /\ ~CP!CmdReady /\ ~(cdma.state = "DATA" /\ cGo) =>
             ~CP!CmdReady' /\ ~cdma'.done /\ CP!Moved' = CP!Moved
        /\ cdma.state = "DATA" =>
             /\ CP!Moved \in Nat /\ CP!Moved < cmd.bytes
             /\ cdma.addr + cdma.beatCount * BUS_BYTES = cmd.addr + CP!Moved
             /\ CP!OutLast(last) <=> CP!Moved + BUS_BYTES >= cmd.bytes
        /\ cdma.state = "DATA" /\ cGo /\ CP!Moved + BUS_BYTES < cmd.bytes =>
             ~CP!CmdReady' /\ ~cdma'.done /\ CP!Moved' = CP!Moved + BUS_BYTES
        /\ cdma.state = "DATA" /\ cGo /\ CP!Moved + BUS_BYTES >= cmd.bytes =>
             CP!CmdReady' /\ cdma'.done
    BY <1>6, <1>7, <2>1, <2>2, <2>3, <2>4, Sizes, CP!ReaderMoves
  <2>6. CP!Progress(coordCmd)'
    BY <1>3, <1>10, <2>5 DEF CP!Progress
  <2>7. CP!OutLast(last) <=> C!OutLast(SlaveLast(cdma, Meets("coord", Flawless)))
    BY <1>4 DEF CP!OutLast, C!OutLast, CP!LastBurst, C!LastBurst
  <2>8. (CP!CmdReady <=> cdma.state = "IDLE") /\ (CP!CmdReady' <=> cdma'.state = "IDLE")
    BY DEF CP!CmdReady
  <2>9. cdma.state = "DATA" => (CP!Moved + BUS_BYTES < cmd.bytes
                                <=> ~(CP!Moved + BUS_BYTES >= cmd.bytes))
    BY <1>8, <2>5, Sizes
  <2> HIDE DEF CP!Moved
  <2> QED BY <1>2, <1>3, <1>8, <1>10, <2>5, <2>6, <2>7, <2>8, <2>9 DEF BeatAddress
<1> QED BY <1>9, <1>10


LEMMA CoordTurns ==
  ASSUME SubsystemInv, CommandsInv, CP!Progress(coordCmd), ~CP!Overrun,
         coords \in Buffers(Nat), Stream(CoordSide, CoordWords),
         NEW cGo, NEW dGo, NEW wGo, Engines(cGo, dGo, wGo, Flawless),
         coords' = IF cdma.state = "DATA" /\ cGo
                   THEN Received(coords, Beat(cdma),
                                 C!OutLast(SlaveLast(cdma, Meets("coord", Flawless))))
                   ELSE coords,
         NEW cr, NEW cd, NEW dr, NEW dd, NEW kr, NEW kd, NEW wr, NEW wd,
         cd = cdma.done, P!WorkWhen(cr, cd, dr, dd, kr, kd, wr, wd)
  PROVE  /\ coords' \in Buffers(Nat) /\ Stream(CoordSide, CoordWords)'
         /\ \A t \in Slot : (load.active /\ ~(load.coordSeen \/ cdma.done) /\ t = load.slot)
                             \/ coords'.data[t] = coords.data[t]
<1> DEFINE ended == load.coordSeen \/ cdma.done
           loaded == P!LoadDone(cd, dd)
           reserved == P!CanReserve
           v == Chunks!CoordCmdValid
           beats == cdma.state = "DATA" /\ cGo
<1>1. P!StreamInv /\ LinkInv /\ EnginesInv
  BY DEF SubsystemInv
<1>2. /\ nextLoad \in Nat
      /\ load \in [active : BOOLEAN, slot : Slot, coordPending : BOOLEAN,
                   distPending : BOOLEAN, coordSeen : BOOLEAN, distSeen : BOOLEAN]
  BY <1>1, ChunkTypes
<1>3. /\ load'.active <=> (reserved \/ (load.active /\ ~loaded))
      /\ load'.slot = (IF reserved THEN P!CandidateSlot ELSE load.slot)
      /\ load'.coordSeen <=> (~reserved /\ ~loaded /\ (load.coordSeen \/ cd))
      /\ nextLoad' = IF loaded THEN nextLoad + 1 ELSE nextLoad
  BY <1>2 DEF P!WorkWhen, P!Work, P!LoadStep
<1>4. /\ loaded => load.active /\ ended
      /\ reserved => ~load.active /\ P!CandidateSlot = nextLoad % 2
      /\ v <=> load.active /\ load.coordPending
      /\ ended \in BOOLEAN
  BY <1>1 DEF P!LoadDone, P!CanReserve, P!CandidateSlot, Chunks!CoordCmdValid, EnginesInv,
     CP!ReaderInv, CP!EngineInv, CP!Engine
<1>5. load.active => coordCmd' = coordCmd
  BY <1>1, CommandsWork
<1>6. /\ coordCmd.addr \in Nat /\ coordCmd.bytes \in Nat
      /\ ~load.active => /\ cdma.state = "IDLE" /\ ~cdma.done
                         /\ cdma'.state = "IDLE" /\ ~cdma'.done
      /\ cdma.state = "IDLE" /\ ~v => cdma'.state = "IDLE" /\ ~cdma'.done
      /\ cdma.state = "IDLE" /\ v => cdma'.state # "IDLE" /\ ~cdma'.done /\ CP!Moved' = 0
      /\ cdma.state # "IDLE" /\ ~beats =>
           cdma'.state # "IDLE" /\ ~cdma'.done /\ CP!Moved' = CP!Moved
      /\ cdma.state = "DATA" =>
           /\ CP!Moved \in Nat /\ BeatAddress(cdma) = coordCmd.addr + CP!Moved
           /\ C!OutLast(SlaveLast(cdma, Meets("coord", Flawless)))
                <=> CP!Moved + BUS_BYTES >= coordCmd.bytes
      /\ beats =>
           IF CP!Moved + BUS_BYTES >= coordCmd.bytes
           THEN cdma'.state = "IDLE" /\ cdma'.done
           ELSE cdma'.state # "IDLE" /\ ~cdma'.done /\ CP!Moved' = CP!Moved + BUS_BYTES
  BY <1>5, CoordMoves
<1>7. load.active /\ ended => cdma.state = "IDLE" /\ ~v
  BY <1>1, <1>2, <1>4 DEF LinkInv, Engaged, Chunks!CoordAwaited, EnginesInv, CP!ReaderInv, CP!EngineInv
<1>8. PICK m \in Nat : m = IF cdma.state = "IDLE" THEN 0 ELSE CP!Moved
  <2>1. cdma \in CP!Engine
    BY <1>1 DEF EnginesInv, CP!ReaderInv, CP!EngineInv
  <2>2. /\ cdma.completed \in Nat /\ cdma.burstBeats * BUS_BYTES \in Nat
        /\ cdma.state \in {"IDLE", "ADDR", "DATA", "RESP"}
    BY <2>1, Sizes DEF CP!Engine
  <2> QED BY <1>6, <2>1, <2>2, CP!MovedIs
<1>9. PICK a : a = CoordSide
  OBVIOUS
<1>10. PICK b : b = CoordSide'
  OBVIOUS
<1>11. PICK beat \in [1..BUS_BYTES -> Nat] : cdma.state = "DATA" => beat = Beat(cdma)
  <2>1. CASE cdma.state = "DATA"
    <3>1. Beat(cdma) \in [1..BUS_BYTES -> Nat]
      BY <1>6, <2>1, Sizes DEF Beat
    <3> QED BY <3>1
  <2>2. CASE cdma.state # "DATA"
    <3>1. [k \in 1..BUS_BYTES |-> 0] \in [1..BUS_BYTES -> Nat]
      OBVIOUS
    <3> QED BY <2>2, <3>1
  <2> QED BY <2>1, <2>2
<1>12. /\ a.buffer = coords /\ a.cmd = coordCmd /\ a.active = load.active /\ a.slot = load.slot
       /\ a.next = nextLoad /\ a.ended = ended /\ a.moved = m
  BY <1>8, <1>9 DEF CoordSide
<1>13. /\ b.buffer = coords' /\ b.cmd = coordCmd' /\ b.active = load'.active /\ b.slot = load'.slot
       /\ b.next = nextLoad' /\ b.ended \in BOOLEAN
       /\ b.ended <=> load'.coordSeen \/ cdma'.done
       /\ b.moved = IF cdma'.state = "IDLE" THEN 0 ELSE CP!Moved'
  BY <1>10 DEF CoordSide
<1>14. beats \in BOOLEAN /\ beats => cdma.state = "DATA" /\ cdma.state # "IDLE"
  OBVIOUS
<1>15. PICK last \in BOOLEAN : last = C!OutLast(SlaveLast(cdma, Meets("coord", Flawless)))
  BY DEF C!OutLast
<1>16. coords' = IF beats THEN Received(coords, beat, last) ELSE coords
  BY <1>11, <1>15
<1>17. beats => \A k \in 1..BUS_BYTES :
                  m + k <= coordCmd.bytes => beat[k] = CoordWords[coordCmd.addr + m + k - 1]
  BY <1>6, <1>8, <1>11, <1>14, Sizes DEF Beat, CoordWords
<1> HIDE DEF ended, loaded, reserved, v, beats
<1>18. Reserves(a, b) \/ Stays(a, b) \/ Receives(a, b, beat, CoordWords) \/ Loads(a, b)
  <2>1. CASE ~load.active
    <3>1. CASE reserved
      BY <1>3, <1>4, <1>6, <1>12, <1>13, <1>14, <1>16, <2>1, <3>1 DEF Reserves
    <3>2. CASE ~reserved
      BY <1>3, <1>4, <1>6, <1>12, <1>13, <1>14, <1>16, <2>1, <3>2 DEF Stays
    <3> QED BY <3>1, <3>2
  <2>2. CASE load.active /\ ended
    <3>1. CASE loaded
      BY <1>3, <1>4, <1>7, <1>12, <1>13, <1>14, <1>16, <2>2, <3>1 DEF Loads
    <3>2. CASE ~loaded
      BY <1>3, <1>4, <1>5, <1>6, <1>7, <1>12, <1>13, <1>14, <1>16, <2>2, <3>2 DEF Stays, ended
    <3> QED BY <3>1, <3>2
  <2>3. CASE load.active /\ ~ended
    <3>1. /\ b.active /\ b.slot = a.slot /\ b.cmd = a.cmd /\ b.next = a.next
          /\ b.ended <=> cdma'.done
      BY <1>3, <1>4, <1>5, <1>12, <1>13, <2>3 DEF ended
    <3>2. CASE beats
      BY <1>6, <1>8, <1>12, <1>13, <1>14, <1>15, <1>16, <1>17, <2>3, <3>1, <3>2 DEF Receives, Filling
    <3>3. CASE ~beats
      BY <1>6, <1>8, <1>12, <1>13, <1>16, <2>3, <3>1, <3>3 DEF Stays
    <3> QED BY <3>2, <3>3
  <2> QED BY <2>1, <2>2, <2>3
<1>19. /\ a.active => a.slot = a.next % 2
       /\ b.active => b.slot = b.next % 2
  BY <1>1, <1>2, <1>3, <1>4, <1>12, <1>13 DEF P!StreamInv, P!EnginesInv
<1>20. Stream(a, CoordWords)
  BY <1>9
<1>21. /\ a.buffer \in Buffers(Nat) /\ a.next \in Nat /\ a.moved \in Nat /\ b.ended \in BOOLEAN
       /\ a.cmd.addr \in Nat /\ a.cmd.bytes \in Nat
  BY <1>2, <1>6, <1>8, <1>12, <1>13
<1>22. /\ Stream(b, CoordWords) /\ b.buffer \in Buffers(Nat)
       /\ \A t \in Slot : (Filling(a) /\ t = a.slot) \/ b.buffer.data[t] = a.buffer.data[t]
  <2>1. Turn(Nat, CoordWords, a, b, beat)
    BY <1>11, <1>18, <1>19, <1>20, <1>21 DEF Turn
  <2> QED BY <2>1, StreamTurns
<1>23. Stream(CoordSide, CoordWords)'
  BY <1>10, <1>22
<1> QED BY <1>12, <1>13, <1>22, <1>23 DEF Filling, ended

LEMMA DistMoves ==
  ASSUME SubsystemInv, CommandsInv, DP!Progress(distCmd), ~DP!Overrun,
         NEW cGo, NEW dGo, NEW wGo, Engines(cGo, dGo, wGo, Flawless),
         load.active => distCmd' = distCmd
  PROVE  /\ DP!Progress(distCmd)' /\ ~DP!Overrun'
         /\ distCmd.addr \in Nat /\ distCmd.bytes \in Nat
         /\ ~load.active => /\ ddma.state = "IDLE" /\ ~ddma.done
                            /\ ddma'.state = "IDLE" /\ ~ddma'.done
         /\ ddma.state = "IDLE" /\ ~Chunks!DistCmdValid => ddma'.state = "IDLE" /\ ~ddma'.done
         /\ ddma.state = "IDLE" /\ Chunks!DistCmdValid =>
              ddma'.state # "IDLE" /\ ~ddma'.done /\ DP!Moved' = 0
         /\ ddma.state # "IDLE" /\ ~(ddma.state = "DATA" /\ dGo) =>
              ddma'.state # "IDLE" /\ ~ddma'.done /\ DP!Moved' = DP!Moved
         /\ ddma.state = "DATA" =>
              /\ DP!Moved \in Nat /\ BeatAddress(ddma) = distCmd.addr + DP!Moved
              /\ D!OutLast(SlaveLast(ddma, Meets("dist", Flawless)))
                   <=> DP!Moved + BUS_BYTES >= distCmd.bytes
         /\ ddma.state = "DATA" /\ dGo =>
              IF DP!Moved + BUS_BYTES >= distCmd.bytes
              THEN ddma'.state = "IDLE" /\ ddma'.done
              ELSE ddma'.state # "IDLE" /\ ~ddma'.done /\ DP!Moved' = DP!Moved + BUS_BYTES
<1>1. P!StreamInv /\ AlignedInv /\ LinkInv /\ EnginesInv
  BY DEF SubsystemInv
<1>2. PICK v : v = Chunks!DistCmdValid
  OBVIOUS
<1>3. PICK cmd : cmd = distCmd
  OBVIOUS
<1>4. PICK last \in BOOLEAN : last = SlaveLast(ddma, Meets("dist", Flawless))
  BY SlaveLastIs
<1>5. PICK ok : ok = (Meets("dist", Flawless) # "error")
  OBVIOUS
<1>6. DP!ReaderEdge(v, cmd, dGo, last, ok)
  <2>1. D!ReaderEdge(v, cmd, dGo, last, ok)
    BY <1>2, <1>3, <1>4, <1>5 DEF Engines
  <2> QED BY <2>1, DEdge
<1>7. DP!GoodCommand(cmd)
  BY <1>1, <1>3, GoodCommands
<1>8. cmd.addr \in Nat /\ cmd.bytes \in Nat
  BY <1>7 DEF DP!GoodCommand
<1>9. CASE ~load.active
  <2>1. ddma.state = "IDLE" /\ ~ddma.done /\ ~v
    BY <1>1, <1>2, <1>9 DEF LinkInv, Engaged, Chunks!DistAwaited, Chunks!DistCmdValid
  <2>2. ddma'.state = "IDLE" /\ ~ddma'.done
    BY <1>1, <1>2, <2>1, EnginesKeep DEF D!CmdReady
  <2> QED BY <1>2, <1>3, <1>8, <1>9, <2>1, <2>2 DEF DP!Progress, DP!Overrun
<1>10. CASE load.active
  <2>1. cmd.bytes >= 1
    <3>1. cmd.bytes = slotPoints[load.slot] * DIST_BYTES /\ load.slot \in Slot
      BY <1>1, <1>3, <1>10, ChunkTypes DEF CommandsInv, DistCommand
    <3>2. slotState[load.slot] # "EMPTY"
      BY <1>1, <1>10, <3>1 DEF P!StreamInv, P!EnginesInv, P!Slot, Slot
    <3>3. slotPoints[load.slot] \in Nat /\ slotPoints[load.slot] >= 1
      BY <1>1, <3>1, <3>2, ChunkTypes DEF CommandsInv
    <3> QED BY <3>1, <3>3, ChunksAssumption
  <2>2. last <=> ddma.beatCount >= ddma.len
    BY <1>4 DEF SlaveLast, Meets, Flawless
  <2>3. DP!Progress(cmd)
    BY <1>3 DEF DP!Progress
  <2>4. DP!ReaderInv
    BY <1>1 DEF EnginesInv
  <2>5. /\ DP!Progress(cmd)' /\ ~DP!Overrun'
        /\ DP!CmdReady /\ ~v => DP!CmdReady' /\ ~ddma'.done
        /\ DP!CmdReady /\ v => ~DP!CmdReady' /\ ~ddma'.done /\ DP!Moved' = 0
        /\ ~DP!CmdReady /\ ~(ddma.state = "DATA" /\ dGo) =>
             ~DP!CmdReady' /\ ~ddma'.done /\ DP!Moved' = DP!Moved
        /\ ddma.state = "DATA" =>
             /\ DP!Moved \in Nat /\ DP!Moved < cmd.bytes
             /\ ddma.addr + ddma.beatCount * BUS_BYTES = cmd.addr + DP!Moved
             /\ DP!OutLast(last) <=> DP!Moved + BUS_BYTES >= cmd.bytes
        /\ ddma.state = "DATA" /\ dGo /\ DP!Moved + BUS_BYTES < cmd.bytes =>
             ~DP!CmdReady' /\ ~ddma'.done /\ DP!Moved' = DP!Moved + BUS_BYTES
        /\ ddma.state = "DATA" /\ dGo /\ DP!Moved + BUS_BYTES >= cmd.bytes =>
             DP!CmdReady' /\ ddma'.done
    BY <1>6, <1>7, <2>1, <2>2, <2>3, <2>4, Sizes, DP!ReaderMoves
  <2>6. DP!Progress(distCmd)'
    BY <1>3, <1>10, <2>5 DEF DP!Progress
  <2>7. DP!OutLast(last) <=> D!OutLast(SlaveLast(ddma, Meets("dist", Flawless)))
    BY <1>4 DEF DP!OutLast, D!OutLast, DP!LastBurst, D!LastBurst
  <2>8. (DP!CmdReady <=> ddma.state = "IDLE") /\ (DP!CmdReady' <=> ddma'.state = "IDLE")
    BY DEF DP!CmdReady
  <2>9. ddma.state = "DATA" => (DP!Moved + BUS_BYTES < cmd.bytes
                                <=> ~(DP!Moved + BUS_BYTES >= cmd.bytes))
    BY <1>8, <2>5, Sizes
  <2> HIDE DEF DP!Moved
  <2> QED BY <1>2, <1>3, <1>8, <1>10, <2>5, <2>6, <2>7, <2>8, <2>9 DEF BeatAddress
<1> QED BY <1>9, <1>10


LEMMA DistTurns ==
  ASSUME SubsystemInv, CommandsInv, DP!Progress(distCmd), ~DP!Overrun,
         dists \in Buffers(Word), Stream(DistSide, DistWords),
         NEW cGo, NEW dGo, NEW wGo, Engines(cGo, dGo, wGo, Flawless),
         dists' = IF ddma.state = "DATA" /\ dGo
                  THEN Received(dists, [k \in 1..BUS_BYTES |-> DistAt(Beat(ddma)[k])],
                                D!OutLast(SlaveLast(ddma, Meets("dist", Flawless))))
                  ELSE dists,
         \A x \in Nat : DistAt(x) \in Word,
         load.active => \A x \in Nat : x >= distCmd.addr => DistAt(x) = DistWords[x],
         NEW cr, NEW cd, NEW dr, NEW dd, NEW kr, NEW kd, NEW wr, NEW wd,
         dd = ddma.done, P!WorkWhen(cr, cd, dr, dd, kr, kd, wr, wd)
  PROVE  /\ dists' \in Buffers(Word) /\ Stream(DistSide, DistWords)'
         /\ \A t \in Slot : (load.active /\ ~(load.distSeen \/ ddma.done) /\ t = load.slot)
                             \/ dists'.data[t] = dists.data[t]
<1> DEFINE ended == load.distSeen \/ ddma.done
           loaded == P!LoadDone(cd, dd)
           reserved == P!CanReserve
           v == Chunks!DistCmdValid
           beats == ddma.state = "DATA" /\ dGo
<1>1. P!StreamInv /\ LinkInv /\ EnginesInv
  BY DEF SubsystemInv
<1>2. /\ nextLoad \in Nat
      /\ load \in [active : BOOLEAN, slot : Slot, coordPending : BOOLEAN,
                   distPending : BOOLEAN, coordSeen : BOOLEAN, distSeen : BOOLEAN]
  BY <1>1, ChunkTypes
<1>3. /\ load'.active <=> (reserved \/ (load.active /\ ~loaded))
      /\ load'.slot = (IF reserved THEN P!CandidateSlot ELSE load.slot)
      /\ load'.distSeen <=> (~reserved /\ ~loaded /\ (load.distSeen \/ dd))
      /\ nextLoad' = IF loaded THEN nextLoad + 1 ELSE nextLoad
  BY <1>2 DEF P!WorkWhen, P!Work, P!LoadStep
<1>4. /\ loaded => load.active /\ ended
      /\ reserved => ~load.active /\ P!CandidateSlot = nextLoad % 2
      /\ v <=> load.active /\ load.distPending
      /\ ended \in BOOLEAN
  BY <1>1 DEF P!LoadDone, P!CanReserve, P!CandidateSlot, Chunks!DistCmdValid, EnginesInv,
     DP!ReaderInv, DP!EngineInv, DP!Engine
<1>5. load.active => distCmd' = distCmd
  BY <1>1, CommandsWork
<1>6. /\ distCmd.addr \in Nat /\ distCmd.bytes \in Nat
      /\ ~load.active => /\ ddma.state = "IDLE" /\ ~ddma.done
                         /\ ddma'.state = "IDLE" /\ ~ddma'.done
      /\ ddma.state = "IDLE" /\ ~v => ddma'.state = "IDLE" /\ ~ddma'.done
      /\ ddma.state = "IDLE" /\ v => ddma'.state # "IDLE" /\ ~ddma'.done /\ DP!Moved' = 0
      /\ ddma.state # "IDLE" /\ ~beats =>
           ddma'.state # "IDLE" /\ ~ddma'.done /\ DP!Moved' = DP!Moved
      /\ ddma.state = "DATA" =>
           /\ DP!Moved \in Nat /\ BeatAddress(ddma) = distCmd.addr + DP!Moved
           /\ D!OutLast(SlaveLast(ddma, Meets("dist", Flawless)))
                <=> DP!Moved + BUS_BYTES >= distCmd.bytes
      /\ beats =>
           IF DP!Moved + BUS_BYTES >= distCmd.bytes
           THEN ddma'.state = "IDLE" /\ ddma'.done
           ELSE ddma'.state # "IDLE" /\ ~ddma'.done /\ DP!Moved' = DP!Moved + BUS_BYTES
  BY <1>5, DistMoves
<1>7. load.active /\ ended => ddma.state = "IDLE" /\ ~v
  BY <1>1, <1>2, <1>4 DEF LinkInv, Engaged, Chunks!DistAwaited, EnginesInv, DP!ReaderInv, DP!EngineInv
<1>8. PICK m \in Nat : m = IF ddma.state = "IDLE" THEN 0 ELSE DP!Moved
  <2>1. ddma \in DP!Engine
    BY <1>1 DEF EnginesInv, DP!ReaderInv, DP!EngineInv
  <2>2. /\ ddma.completed \in Nat /\ ddma.burstBeats * BUS_BYTES \in Nat
        /\ ddma.state \in {"IDLE", "ADDR", "DATA", "RESP"}
    BY <2>1, Sizes DEF DP!Engine
  <2> QED BY <1>6, <2>1, <2>2, DP!MovedIs
<1>9. PICK a : a = DistSide
  OBVIOUS
<1>10. PICK b : b = DistSide'
  OBVIOUS
<1>11. PICK beat \in [1..BUS_BYTES -> Word] :
         ddma.state = "DATA" => beat = [k \in 1..BUS_BYTES |-> DistAt(Beat(ddma)[k])]
  <2>1. CASE ddma.state = "DATA"
    <3>1. \A k \in 1..BUS_BYTES : Beat(ddma)[k] \in Nat
      BY <1>6, <2>1, Sizes DEF Beat
    <3>2. [k \in 1..BUS_BYTES |-> DistAt(Beat(ddma)[k])] \in [1..BUS_BYTES -> Word]
      BY <3>1
    <3> QED BY <3>2
  <2>2. CASE ddma.state # "DATA"
    <3>1. [k \in 1..BUS_BYTES |-> [of |-> 0, times |-> 0]] \in [1..BUS_BYTES -> Word]
      BY DEF Word
    <3> QED BY <2>2, <3>1
  <2> QED BY <2>1, <2>2
<1>12. /\ a.buffer = dists /\ a.cmd = distCmd /\ a.active = load.active /\ a.slot = load.slot
       /\ a.next = nextLoad /\ a.ended = ended /\ a.moved = m
  BY <1>8, <1>9 DEF DistSide
<1>13. /\ b.buffer = dists' /\ b.cmd = distCmd' /\ b.active = load'.active /\ b.slot = load'.slot
       /\ b.next = nextLoad' /\ b.ended \in BOOLEAN
       /\ b.ended <=> load'.distSeen \/ ddma'.done
       /\ b.moved = IF ddma'.state = "IDLE" THEN 0 ELSE DP!Moved'
  BY <1>10 DEF DistSide
<1>14. beats \in BOOLEAN /\ beats => ddma.state = "DATA" /\ ddma.state # "IDLE"
  OBVIOUS
<1>15. PICK last \in BOOLEAN : last = D!OutLast(SlaveLast(ddma, Meets("dist", Flawless)))
  BY DEF D!OutLast
<1>16. dists' = IF beats THEN Received(dists, beat, last) ELSE dists
  BY <1>11, <1>15
<1>17. beats => \A k \in 1..BUS_BYTES :
                  m + k <= distCmd.bytes => beat[k] = DistWords[distCmd.addr + m + k - 1]
  <2> SUFFICES ASSUME beats, NEW k \in 1..BUS_BYTES
               PROVE  beat[k] = DistWords[distCmd.addr + m + k - 1]
    OBVIOUS
  <2>1. Beat(ddma)[k] = distCmd.addr + m + k - 1
    BY <1>6, <1>8, <1>14, Sizes DEF Beat
  <2>2. distCmd.addr + m + k - 1 \in Nat /\ distCmd.addr + m + k - 1 >= distCmd.addr
    BY <1>6, Sizes
  <2>3. load.active
    BY <1>6, <1>14
  <2>4. beat[k] = DistAt(Beat(ddma)[k])
    BY <1>11, <1>14
  <2> QED BY <2>1, <2>2, <2>3, <2>4
<1> HIDE DEF ended, loaded, reserved, v, beats
<1>18. Reserves(a, b) \/ Stays(a, b) \/ Receives(a, b, beat, DistWords) \/ Loads(a, b)
  <2>1. CASE ~load.active
    <3>1. CASE reserved
      BY <1>3, <1>4, <1>6, <1>12, <1>13, <1>14, <1>16, <2>1, <3>1 DEF Reserves
    <3>2. CASE ~reserved
      BY <1>3, <1>4, <1>6, <1>12, <1>13, <1>14, <1>16, <2>1, <3>2 DEF Stays
    <3> QED BY <3>1, <3>2
  <2>2. CASE load.active /\ ended
    <3>1. CASE loaded
      BY <1>3, <1>4, <1>7, <1>12, <1>13, <1>14, <1>16, <2>2, <3>1 DEF Loads
    <3>2. CASE ~loaded
      BY <1>3, <1>4, <1>5, <1>6, <1>7, <1>12, <1>13, <1>14, <1>16, <2>2, <3>2 DEF Stays, ended
    <3> QED BY <3>1, <3>2
  <2>3. CASE load.active /\ ~ended
    <3>1. /\ b.active /\ b.slot = a.slot /\ b.cmd = a.cmd /\ b.next = a.next
          /\ b.ended <=> ddma'.done
      BY <1>3, <1>4, <1>5, <1>12, <1>13, <2>3 DEF ended
    <3>2. CASE beats
      BY <1>6, <1>8, <1>12, <1>13, <1>14, <1>15, <1>16, <1>17, <2>3, <3>1, <3>2 DEF Receives, Filling
    <3>3. CASE ~beats
      BY <1>6, <1>8, <1>12, <1>13, <1>16, <2>3, <3>1, <3>3 DEF Stays
    <3> QED BY <3>2, <3>3
  <2> QED BY <2>1, <2>2, <2>3
<1>19. /\ a.active => a.slot = a.next % 2
       /\ b.active => b.slot = b.next % 2
  BY <1>1, <1>2, <1>3, <1>4, <1>12, <1>13 DEF P!StreamInv, P!EnginesInv
<1>20. Stream(a, DistWords)
  BY <1>9
<1>21. /\ a.buffer \in Buffers(Word) /\ a.next \in Nat /\ a.moved \in Nat /\ b.ended \in BOOLEAN
       /\ a.cmd.addr \in Nat /\ a.cmd.bytes \in Nat
  BY <1>2, <1>6, <1>8, <1>12, <1>13
<1>22. /\ Stream(b, DistWords) /\ b.buffer \in Buffers(Word)
       /\ \A t \in Slot : (Filling(a) /\ t = a.slot) \/ b.buffer.data[t] = a.buffer.data[t]
  <2>1. Turn(Word, DistWords, a, b, beat)
    BY <1>11, <1>18, <1>19, <1>20, <1>21 DEF Turn
  <2> QED BY <2>1, StreamTurns
<1>23. Stream(DistSide, DistWords)'
  BY <1>10, <1>22
<1> QED BY <1>12, <1>13, <1>22, <1>23 DEF Filling, ended


(* A loaded slot keeps its chunk, and one becomes loaded when both streams *)
(* have brought it.                                                        *)
LEMMA ArrivalsWork ==
  ASSUME P!StreamInv, CommandsInv, StreamsInv,
         NEW cr, NEW cd, NEW dr, NEW dd, NEW kr, NEW kd, NEW wr, NEW wd,
         P!WorkWhen(cr, cd, dr, dd, kr, kd, wr, wd), cd = cdma.done, dd = ddma.done,
         \A t \in Slot : (load.active /\ ~(load.coordSeen \/ cdma.done) /\ t = load.slot)
                         \/ coords'.data[t] = coords.data[t],
         \A t \in Slot : (load.active /\ ~(load.distSeen \/ ddma.done) /\ t = load.slot)
                         \/ dists'.data[t] = dists.data[t],
         NEW s \in Slot, Arrived(s)'
  PROVE  /\ Full(coords'.data[s], CoordWords, CoordCommand(s)')
         /\ Full(dists'.data[s], DistWords, DistCommand(s)')
<1>1. /\ load.active /\ load.slot = s <=> slotState[s] = "LOADING"
      /\ load.slot \in Slot /\ slotState[s] \in P!SlotStates
  BY ChunkTypes DEF P!StreamInv, P!EnginesInv, P!Slot, Slot
<1>2. P!SlotMove(s, cd, dd, kr, kd, wr, wd)
  BY Sizes, P!SlotMoves DEF P!StreamInv, P!Slot, Slot
<1>3. Arrived(s) \/ (slotState[s] = "LOADING" /\ P!LoadDone(cd, dd))
  BY <1>1, <1>2 DEF P!SlotMove, Arrived, P!SlotStates
<1>4. CoordCommand(s)' = CoordCommand(s) /\ DistCommand(s)' = DistCommand(s)
  BY <1>3, CommandsWork DEF Arrived
<1>5. /\ Full(coords.data[s], CoordWords, CoordCommand(s)) /\ coords'.data[s] = coords.data[s]
      /\ Full(dists.data[s], DistWords, DistCommand(s)) /\ dists'.data[s] = dists.data[s]
  <2>1. CASE Arrived(s)
    BY <1>1, <2>1 DEF StreamsInv, Arrived
  <2>2. CASE slotState[s] = "LOADING" /\ P!LoadDone(cd, dd)
    <3>1. /\ load.active /\ load.slot = s
          /\ load.coordSeen \/ cdma.done
          /\ load.distSeen \/ ddma.done
      BY <1>1, <2>2 DEF P!LoadDone
    <3>2. coordCmd = CoordCommand(s) /\ distCmd = DistCommand(s)
      BY <3>1 DEF CommandsInv
    <3>3. Full(coords.data[s], CoordWords, coordCmd) /\ Full(dists.data[s], DistWords, distCmd)
      BY <3>1 DEF StreamsInv, Stream, CoordSide, DistSide
    <3> QED BY <3>1, <3>2, <3>3
  <2> QED BY <1>3, <2>1, <2>2
<1> QED BY <1>4, <1>5

(* The slot whose distances are written is that of the older chunk.        *)
LEMMA WritesOld ==
  ASSUME P!StreamInv, write.pending \/ write.inflight
  PROVE  /\ write.slot = P!Old /\ P!Old \in Slot /\ slotOffset[P!Old] = completeCount * CHUNK_POINTS
         /\ slotState[P!Old] = IF write.inflight THEN "WRITING" ELSE "WRITEQ"
<1>1. P!TypeOK /\ P!CountersInv /\ P!EnginesInv /\ P!SlotsInv /\ P!OrderInv
  BY DEF P!StreamInv
<1>2. /\ P!Old \in Slot /\ P!Young \in Slot /\ P!Old # P!Young
      /\ \A s \in Slot : s = P!Old \/ s = P!Young
  BY <1>1, Sizes, P!SlotFacts DEF P!Slot, Slot
<1>3. /\ write \in [pending : BOOLEAN, inflight : BOOLEAN, slot : Slot, cmd : P!Command]
      /\ load.active \in BOOLEAN /\ nextLoad \in Nat /\ completeCount \in Nat
  BY ChunkTypes
<1>4. P!OnChip \in {0, 1, 2}
  BY <1>1, <1>3 DEF P!CountersInv, P!Reserved, P!OnChip
<1>5. slotState[write.slot] = IF write.inflight THEN "WRITING" ELSE "WRITEQ"
  BY <1>1, <1>3 DEF P!EnginesInv, P!Slot, Slot
<1>6. ASSUME write.slot = P!Young PROVE FALSE
  <2>1. P!OnChip = 2
    BY <1>1, <1>4, <1>5, <1>6 DEF P!SlotsInv
  <2>2. P!Rank(slotState[P!Old]) >= P!Rank(slotState[P!Young]) /\ slotState[P!Old] \in P!SlotStates
    BY <1>1, <1>2, <2>1, ChunkTypes DEF P!OrderInv
  <2>3. CASE write.inflight
    <3>1. slotState[P!Old] = "WRITING"
      BY <1>5, <1>6, <2>2, <2>3 DEF P!Rank, P!SlotStates
    <3> QED BY <1>1, <1>2, <1>6, <3>1 DEF P!EnginesInv, P!Slot, Slot
  <2>4. CASE ~write.inflight
    <3>1. slotState[P!Young] = "WRITEQ" /\ write.pending
      BY <1>5, <1>6, <2>4
    <3>2. slotState[P!Old] \in {"WRITEQ", "WRITING"}
      BY <2>2, <3>1 DEF P!Rank, P!SlotStates
    <3>3. slotState[P!Old] # "WRITING"
      BY <1>1, <1>2, <2>4 DEF P!EnginesInv, P!Slot, Slot
    <3> QED BY <1>1, <1>2, <1>6, <2>1, <3>1, <3>2, <3>3 DEF P!OrderInv
  <2> QED BY <2>3, <2>4
<1>7. write.slot = P!Old
  BY <1>2, <1>3, <1>6
<1>8. slotState[P!Old] # "EMPTY"
  BY <1>5, <1>7
<1>9. slotOffset[P!Old] = completeCount * CHUNK_POINTS
  BY <1>1, <1>4, <1>8 DEF P!SlotsInv
<1> QED BY <1>2, <1>5, <1>7, <1>9


LEMMA TakenNat ==
  ASSUME EnginesInv
  PROVE  Taken \in Nat
<1>1. wdma \in WP!Engine
  BY DEF EnginesInv, WP!WriterInv, WP!EngineInv
<1>2. /\ wdma.completed \in Nat /\ wdma.burstBeats * BUS_BYTES \in Nat
      /\ wdma.beatCount * BUS_BYTES \in Nat /\ wdma.state \in {"IDLE", "ADDR", "DATA", "RESP"}
  BY <1>1, Sizes DEF WP!Engine
<1> QED BY <1>1, <1>2, WP!MovedIs DEF Taken

(* The command being written: it begins where the written chunks end.      *)
LEMMA WriteCommand ==
  ASSUME P!StreamInv, CommandsInv, write.pending \/ write.inflight
  PROVE  /\ write.cmd = DistCommand(P!Old)
         /\ write.cmd.addr = bucket.dist + (completeCount * CHUNK_POINTS) * DIST_BYTES
         /\ write.cmd.bytes = PointsAt(completeCount * CHUNK_POINTS) * DIST_BYTES
         /\ PointsAt(completeCount * CHUNK_POINTS) \in 1..CHUNK_POINTS
         /\ completeCount * CHUNK_POINTS \in 0 .. bucket.points - 1
         /\ bucket.dist \in Nat /\ bucket.points \in Nat /\ completeCount \in Nat
<1> DEFINE o == completeCount * CHUNK_POINTS
<1>1. /\ write.slot = P!Old /\ P!Old \in Slot /\ slotOffset[P!Old] = o
      /\ slotState[P!Old] # "EMPTY"
  BY WritesOld
<1>2. /\ bucket.dist \in Nat /\ bucket.points \in Nat /\ completeCount \in Nat /\ o \in Nat
      /\ CHUNK_POINTS \in Nat /\ CHUNK_POINTS >= 1
      /\ busy \in BOOLEAN
  BY ChunkTypes, ChunksAssumption DEF P!StreamInv, P!TypeOK
<1> HIDE DEF o
<1>3. write.cmd = DistCommand(P!Old) /\ slotPoints[P!Old] = PointsAt(o) /\ slotPoints[P!Old] >= 1
  BY <1>1 DEF CommandsInv
<1>4. PointsAt(o) \in 1..CHUNK_POINTS
  BY <1>2, <1>3 DEF PointsAt
<1>5. o \in 0 .. bucket.points - 1
  BY <1>2, <1>3 DEF PointsAt
<1>6. write.cmd.addr = bucket.dist + o * DIST_BYTES /\ write.cmd.bytes = PointsAt(o) * DIST_BYTES
  BY <1>1, <1>3 DEF DistCommand
<1> QED BY <1>2, <1>3, <1>4, <1>5, <1>6 DEF o

LEMMA LoadsNext ==
  ASSUME P!StreamInv, load.active
  PROVE  /\ load.slot \in Slot /\ slotOffset[load.slot] = nextLoad * CHUNK_POINTS
         /\ completeCount \in Nat /\ nextLoad \in Nat /\ completeCount <= nextLoad
         /\ write.inflight => completeCount + 1 <= nextLoad
<1>1. P!TypeOK /\ P!CountersInv /\ P!EnginesInv /\ P!SlotsInv
  BY DEF P!StreamInv
<1>2. completeCount \in Nat /\ nextLoad \in Nat /\ load.slot \in Slot
  BY ChunkTypes
<1>3. P!OnChip = nextLoad + 1 - completeCount /\ P!OnChip \in {1, 2}
  BY <1>1, <1>2 DEF P!CountersInv, P!Reserved, P!OnChip
<1>4. /\ slotState[load.slot] = "LOADING" /\ load.slot = nextLoad % 2
      /\ completeCount <= nextLoad
  BY <1>1, <1>2 DEF P!EnginesInv, P!CountersInv, P!Slot, Slot
<1>5. CASE P!OnChip = 1
  <2>1. nextLoad = completeCount
    BY <1>2, <1>3, <1>5
  <2>2. load.slot = P!Old
    BY <1>4, <2>1 DEF P!Old
  <2>3. slotOffset[P!Old] = completeCount * CHUNK_POINTS
    BY <1>1, <1>5 DEF P!SlotsInv
  <2>4. ~write.inflight
    BY <1>4, <2>2, WritesOld
  <2> QED BY <1>2, <1>4, <2>1, <2>2, <2>3, <2>4
<1>6. CASE P!OnChip = 2
  <2>1. nextLoad = completeCount + 1
    BY <1>2, <1>3, <1>6
  <2>2. load.slot = P!Young
    BY <1>2, <1>4, <2>1 DEF P!Old, P!Young
  <2>3. slotOffset[P!Young] = (completeCount + 1) * CHUNK_POINTS
    BY <1>1, <1>6 DEF P!SlotsInv
  <2> QED BY <1>2, <1>4, <2>1, <2>2, <2>3
<1> QED BY <1>3, <1>5, <1>6

(* What is being loaded is not yet written.                                *)
LEMMA WrittenBound ==
  ASSUME SubsystemInv, CommandsInv, load.active
  PROVE  Written <= slotOffset[load.slot] * DIST_BYTES /\ Written \in Nat
<1> DEFINE c == CHUNK_POINTS * DIST_BYTES
           w == (completeCount * CHUNK_POINTS) * DIST_BYTES
<1>1. P!StreamInv /\ LinkInv /\ EnginesInv
  BY DEF SubsystemInv
<1>2. /\ load.slot \in Slot /\ slotOffset[load.slot] = nextLoad * CHUNK_POINTS
      /\ completeCount \in Nat /\ nextLoad \in Nat /\ completeCount <= nextLoad
      /\ write.inflight => completeCount + 1 <= nextLoad
  BY <1>1, LoadsNext
<1>3. /\ CHUNK_POINTS \in Nat /\ DIST_BYTES \in Nat /\ bucket.points \in Nat
      /\ slotOffset[load.slot] * DIST_BYTES = nextLoad * c
      /\ w = completeCount * c /\ c \in Nat
  BY <1>1, <1>2, Sizes, ChunkTypes
<1> HIDE DEF c, w
<1>4. completeCount * c <= nextLoad * c /\ completeCount * c \in Nat /\ nextLoad * c \in Nat
  BY <1>2, <1>3
<1>5. CASE write.inflight
  <2>1. /\ slotOffset[write.slot] * DIST_BYTES = w
        /\ write.cmd.bytes = PointsAt(completeCount * CHUNK_POINTS) * DIST_BYTES
        /\ PointsAt(completeCount * CHUNK_POINTS) \in 1..CHUNK_POINTS
    BY <1>1, <1>5, WritesOld, WriteCommand DEF w
  <2>2. write.cmd.bytes <= c /\ write.cmd.bytes \in Nat
    BY <1>3, <2>1 DEF c
  <2>3. completeCount * c + c <= nextLoad * c
    <3>1. (completeCount + 1) * c <= nextLoad * c
      BY <1>2, <1>3, <1>5
    <3> QED BY <1>2, <1>3, <3>1
  <2>4. Taken \in Nat
    BY <1>1, TakenNat
  <2>5. Smaller(Taken, write.cmd.bytes) <= c /\ Smaller(Taken, write.cmd.bytes) \in Nat
    BY <1>3, <2>2, <2>4 DEF Smaller
  <2>6. Smaller(completeCount * CHUNK_POINTS, bucket.points) * DIST_BYTES <= w
        /\ Smaller(completeCount * CHUNK_POINTS, bucket.points) * DIST_BYTES \in Nat
    BY <1>2, <1>3 DEF Smaller, w
  <2> QED BY <1>3, <1>4, <2>1, <2>2, <2>3, <2>5, <2>6 DEF Written
<1>6. CASE ~write.inflight
  <2>1. wdma.state = "IDLE"
    BY <1>1, <1>6 DEF LinkInv, Engaged, Chunks!WriteAwaited
  <2>2. Smaller(completeCount * CHUNK_POINTS, bucket.points) * DIST_BYTES <= w
        /\ Smaller(completeCount * CHUNK_POINTS, bucket.points) * DIST_BYTES \in Nat
    BY <1>2, <1>3 DEF Smaller, w
  <2> QED BY <1>3, <1>4, <1>6, <2>1, <2>2 DEF Written
<1> QED BY <1>5, <1>6

LEMMA Unread ==
  ASSUME SubsystemInv, CommandsInv, dram = Memory(Written), load.active
  PROVE  \A x \in Nat : x >= distCmd.addr => DistAt(x) = DistWords[x]
<1>1. /\ distCmd.addr = bucket.dist + slotOffset[load.slot] * DIST_BYTES
      /\ bucket.dist \in Nat
  BY ChunkTypes DEF SubsystemInv, CommandsInv, DistCommand
<1>2. Written <= slotOffset[load.slot] * DIST_BYTES /\ Written \in Nat
  BY WrittenBound
<1>3. slotOffset[load.slot] * DIST_BYTES \in Nat
  BY Sizes, LoadsNext DEF SubsystemInv
<1> HIDE DEF Written
<1> SUFFICES ASSUME NEW x \in Nat, x >= distCmd.addr PROVE DistAt(x) = DistWords[x]
  OBVIOUS
<1>4. x \notin bucket.dist .. bucket.dist + Written - 1
  BY <1>1, <1>2, <1>3
<1>5. x \in DistAddresses => dram[x] = [of |-> x, times |-> 0]
  BY <1>4 DEF Memory
<1> QED BY <1>5 DEF DistAt, DistWords

LEMMA DistIsWord ==
  ASSUME NEW n, dram = Memory(n)
  PROVE  \A x \in Nat : DistAt(x) \in Word
BY ChunksAssumption DEF Memory, DistAt, Word


LEMMA StreamsWork ==
  ASSUME SubsystemInv, CommandsInv, ProgressInv, StreamsInv, dram = Memory(Written),
         NEW cGo, NEW dGo, NEW kGo, NEW wGo, Engines(cGo, dGo, wGo, Flawless),
         Environment(cGo, dGo, kGo, wGo, Flawless),
         NEW cr, NEW cd, NEW dr, NEW dd, NEW kr, NEW kd, NEW wr, NEW wd,
         cd = cdma.done, dd = ddma.done, P!WorkWhen(cr, cd, dr, dd, kr, kd, wr, wd)
  PROVE  /\ StreamsInv'
         /\ CP!Progress(coordCmd)' /\ ~CP!Overrun'
         /\ DP!Progress(distCmd)' /\ ~DP!Overrun'
<1>1. /\ CP!Progress(coordCmd) /\ ~CP!Overrun /\ DP!Progress(distCmd) /\ ~DP!Overrun
      /\ coords \in Buffers(Nat) /\ Stream(CoordSide, CoordWords)
      /\ dists \in Buffers(Word) /\ Stream(DistSide, DistWords)
      /\ P!StreamInv
  BY DEF ProgressInv, StreamsInv, SubsystemInv
<1>2. load.active => coordCmd' = coordCmd /\ distCmd' = distCmd
  BY <1>1, CommandsWork
<1>3. CP!Progress(coordCmd)' /\ ~CP!Overrun'
  BY <1>1, <1>2, CoordMoves
<1>4. DP!Progress(distCmd)' /\ ~DP!Overrun'
  BY <1>1, <1>2, DistMoves
<1>5. /\ coords' \in Buffers(Nat) /\ Stream(CoordSide, CoordWords)'
      /\ \A t \in Slot : (load.active /\ ~(load.coordSeen \/ cdma.done) /\ t = load.slot)
                          \/ coords'.data[t] = coords.data[t]
  <2>1. coords' = IF cdma.state = "DATA" /\ cGo
                  THEN Received(coords, Beat(cdma),
                                C!OutLast(SlaveLast(cdma, Meets("coord", Flawless))))
                  ELSE coords
    BY DEF Environment
  <2> QED BY <1>1, <2>1, CoordTurns
<1>6. /\ dists' \in Buffers(Word) /\ Stream(DistSide, DistWords)'
      /\ \A t \in Slot : (load.active /\ ~(load.distSeen \/ ddma.done) /\ t = load.slot)
                          \/ dists'.data[t] = dists.data[t]
  <2>1. dists' = IF ddma.state = "DATA" /\ dGo
                 THEN Received(dists, [k \in 1..BUS_BYTES |-> DistAt(Beat(ddma)[k])],
                               D!OutLast(SlaveLast(ddma, Meets("dist", Flawless))))
                 ELSE dists
    BY DEF Environment
  <2>2. \A x \in Nat : DistAt(x) \in Word
    BY DistIsWord
  <2>3. load.active => \A x \in Nat : x >= distCmd.addr => DistAt(x) = DistWords[x]
    BY Unread
  <2> QED BY <1>1, <2>1, <2>2, <2>3, DistTurns
<1>7. ASSUME NEW s \in Slot, Arrived(s)'
      PROVE  /\ Full(coords.data[s], CoordWords, CoordCommand(s))'
             /\ Full(dists.data[s], DistWords, DistCommand(s))'
  <2>1. /\ Full(coords'.data[s], CoordWords, CoordCommand(s)')
        /\ Full(dists'.data[s], DistWords, DistCommand(s)')
    BY <1>1, <1>5, <1>6, <1>7, ArrivalsWork
  <2> QED BY <2>1
<1> QED BY <1>3, <1>4, <1>5, <1>6, <1>7 DEF StreamsInv


-----------------------------------------------------------------------------
(* The results and the memory. *)

LEMMA WriteMoves ==
  ASSUME SubsystemInv, CommandsInv, WP!Progress(write.cmd),
         NEW cGo, NEW dGo, NEW wGo, Engines(cGo, dGo, wGo, Flawless),
         write.pending \/ write.inflight => write'.cmd = write.cmd
  PROVE  /\ WP!Progress(write.cmd)'
         /\ wdma.state # "IDLE" \/ wdma.done => write.inflight /\ ~write.pending
         /\ wdma.state = "IDLE" /\ ~write.pending => wdma'.state = "IDLE" /\ ~wdma'.done
         /\ wdma.state = "IDLE" /\ write.pending =>
              wdma'.state # "IDLE" /\ ~wdma'.done /\ WP!Moved' = 0
         /\ wdma.state # "IDLE" /\ ~WriteFires(wGo) =>
              IF wdma'.state = "IDLE" THEN wdma'.done /\ WP!Moved >= write.cmd.bytes
                                      ELSE ~wdma'.done /\ WP!Moved' = WP!Moved
         /\ wdma.state = "DATA" =>
              /\ WP!Moved \in Nat /\ WP!Moved < write.cmd.bytes
              /\ BeatAddress(wdma) = write.cmd.addr + WP!Moved
              /\ \A k \in Int : k \in W!Strobes
                                <=> k \in 0..BUS_BYTES - 1 /\ WP!Moved + k < write.cmd.bytes
         /\ WriteFires(wGo) =>
              wdma'.state # "IDLE" /\ ~wdma'.done /\ WP!Moved' = WP!Moved + BUS_BYTES
<1>1. P!StreamInv /\ AlignedInv /\ LinkInv /\ EnginesInv
  BY DEF SubsystemInv
<1>2. PICK v : v = write.pending
  OBVIOUS
<1>3. PICK cmd : cmd = write.cmd
  OBVIOUS
<1>4. PICK go : go = (wGo /\ (wdma.state = "DATA" => ResultsReady))
  OBVIOUS
<1>5. PICK ok : ok = (Meets("write", Flawless) # "error")
  OBVIOUS
<1>6. WP!WriterEdge(v, cmd, go, ok)
  <2>1. W!WriterEdge(v, cmd, go, ok)
    BY <1>2, <1>3, <1>4, <1>5 DEF Engines
  <2> QED BY <2>1, WEdge
<1>7. WP!GoodCommand(cmd)
  BY <1>1, <1>3, GoodCommands
<1>8. /\ write.pending \in BOOLEAN
      /\ wdma.state # "IDLE" \/ wdma.done => write.inflight /\ ~write.pending
  BY <1>1 DEF LinkInv, Engaged, Chunks!WriteAwaited, P!StreamInv, P!TypeOK, P!EnginesInv
<1>9. wdma.state = "DATA" /\ go <=> WriteFires(wGo)
  BY <1>4 DEF WriteFires
<1>10. CASE ~(write.pending \/ write.inflight)
  <2>1. wdma.state = "IDLE" /\ ~v
    BY <1>2, <1>8, <1>10
  <2>2. wdma'.state = "IDLE" /\ ~wdma'.done
    BY <1>1, <1>2, <2>1, EnginesKeep DEF W!CmdReady
  <2> QED BY <1>2, <1>8, <1>9, <1>10, <2>1, <2>2 DEF WP!Progress
<1>11. CASE write.pending \/ write.inflight
  <2>1. cmd.bytes \in Nat /\ cmd.bytes >= 1
    <3>1. /\ cmd.bytes = PointsAt(completeCount * CHUNK_POINTS) * DIST_BYTES
          /\ PointsAt(completeCount * CHUNK_POINTS) \in 1..CHUNK_POINTS
      BY <1>1, <1>3, <1>11, WriteCommand
    <3> QED BY <3>1, ChunksAssumption
  <2>2. WP!Progress(cmd)
    BY <1>3 DEF WP!Progress
  <2>3. WP!WriterInv
    BY <1>1 DEF EnginesInv
  <2>4. /\ WP!Progress(cmd)'
        /\ WP!CmdReady /\ ~v => WP!CmdReady' /\ ~wdma'.done
        /\ WP!CmdReady /\ v => ~WP!CmdReady' /\ ~wdma'.done /\ WP!Moved' = 0
        /\ ~WP!CmdReady /\ ~(wdma.state = "DATA" /\ go) =>
             IF WP!CmdReady' THEN wdma'.done /\ WP!Moved >= cmd.bytes
                             ELSE ~wdma'.done /\ WP!Moved' = WP!Moved
        /\ wdma.state = "DATA" =>
             /\ WP!Moved \in Nat /\ WP!Moved < cmd.bytes
             /\ wdma.addr + wdma.beatCount * BUS_BYTES = cmd.addr + WP!Moved
             /\ \A k \in Int : k \in WP!Strobes
                               <=> k \in 0..BUS_BYTES - 1 /\ WP!Moved + k < cmd.bytes
        /\ wdma.state = "DATA" /\ go =>
             ~WP!CmdReady' /\ ~wdma'.done /\ WP!Moved' = WP!Moved + BUS_BYTES
    BY <1>6, <1>7, <2>1, <2>2, <2>3, Sizes, WP!WriterMoves
  <2>5. WP!Progress(write.cmd)'
    BY <1>3, <1>11, <2>4 DEF WP!Progress
  <2>6. WP!Strobes = W!Strobes
    BY DEF WP!Strobes, W!Strobes, WP!WriteLast, W!WriteLast, WP!BytesBeforeLast, W!BytesBeforeLast
  <2>7. (WP!CmdReady <=> wdma.state = "IDLE") /\ (WP!CmdReady' <=> wdma'.state = "IDLE")
    BY DEF WP!CmdReady
  <2> HIDE DEF WP!Moved
  <2> QED BY <1>2, <1>3, <1>8, <1>9, <2>4, <2>5, <2>6, <2>7 DEF BeatAddress
<1> QED BY <1>10, <1>11


LEMMA WriteWork ==
  ASSUME P!StreamInv,
         NEW cr, NEW cd, NEW dr, NEW dd, NEW kr, NEW kd, NEW wr, NEW wd,
         P!WorkWhen(cr, cd, dr, dd, kr, kd, wr, wd)
  PROVE  /\ write.pending \in BOOLEAN /\ write.inflight \in BOOLEAN
         /\ write.pending => ~write.inflight
         /\ write.pending \/ write.inflight =>
              /\ write'.cmd = write.cmd /\ write'.slot = write.slot
              /\ slotOffset'[write.slot] = slotOffset[write.slot]
         /\ write'.inflight <=> (write.inflight \/ (write.pending /\ wr)) /\ ~(write.inflight /\ wd)
         /\ completeCount' = (IF write.inflight /\ wd THEN completeCount + 1 ELSE completeCount)
         /\ bucket' = bucket /\ busy
         /\ wd => write.inflight
<1>1. /\ write \in [pending : BOOLEAN, inflight : BOOLEAN, slot : Slot, cmd : P!Command]
      /\ write.pending => ~write.inflight
  BY ChunkTypes DEF P!StreamInv, P!EnginesInv
<1>2. /\ write'.slot = (IF P!CanQueue THEN P!FirstOf("WRITEQ") ELSE write.slot)
      /\ write'.cmd = (IF P!CanQueue
                       THEN [addr  |-> bucket.dist + slotOffset[P!FirstOf("WRITEQ")] * DIST_BYTES,
                             bytes |-> slotPoints[P!FirstOf("WRITEQ")] * DIST_BYTES]
                       ELSE write.cmd)
      /\ write'.inflight <=> (write.inflight \/ (write.pending /\ wr)) /\ ~(write.inflight /\ wd)
      /\ completeCount' = (IF write.inflight /\ wd THEN completeCount + 1 ELSE completeCount)
      /\ busy
      /\ wd => write.inflight
  BY <1>1 DEF P!WorkWhen, P!Work, P!WriteStep, P!WriteAwaited
<1>3. P!CanQueue => ~write.pending /\ ~write.inflight
  BY DEF P!CanQueue
<1>4. write.pending \/ write.inflight => slotState[write.slot] # "EMPTY"
  BY <1>1 DEF P!StreamInv, P!EnginesInv, P!Slot, Slot
<1>5. /\ bucket' = bucket
      /\ write.pending \/ write.inflight => slotOffset'[write.slot] = slotOffset[write.slot]
  BY <1>1, <1>4, SlotsWork
<1> QED BY <1>1, <1>2, <1>3, <1>5

(* The written part of the bucket grows by the beats that are written and  *)
(* by nothing else: not when a command begins, nor when it ends, nor when  *)
(* the controller counts the chunk.                                        *)
LEMMA WrittenWork ==
  ASSUME SubsystemInv, CommandsInv, WP!Progress(write.cmd),
         NEW cGo, NEW dGo, NEW wGo, Engines(cGo, dGo, wGo, Flawless),
         NEW cr, NEW cd, NEW dr, NEW dd, NEW kr, NEW kd, NEW wr, NEW wd,
         wr = W!CmdReady, wd = wdma.done, P!WorkWhen(cr, cd, dr, dd, kr, kd, wr, wd)
  PROVE  /\ ~WriteFires(wGo) => Written' = Written
         /\ WriteFires(wGo) =>
              LET o == slotOffset[write.slot] * DIST_BYTES
              IN  /\ Written = o + WP!Moved
                  /\ Written' = o + Smaller(WP!Moved + BUS_BYTES, write.cmd.bytes)
<1> DEFINE o == slotOffset[write.slot] * DIST_BYTES
           n == completeCount * CHUNK_POINTS
<1>1. P!StreamInv /\ LinkInv /\ EnginesInv
  BY DEF SubsystemInv
<1>2. /\ write.pending \in BOOLEAN /\ write.inflight \in BOOLEAN
      /\ write.pending => ~write.inflight
      /\ write.pending \/ write.inflight =>
           /\ write'.cmd = write.cmd /\ write'.slot = write.slot
           /\ slotOffset'[write.slot] = slotOffset[write.slot]
      /\ write'.inflight <=> (write.inflight \/ (write.pending /\ wr)) /\ ~(write.inflight /\ wd)
      /\ completeCount' = (IF write.inflight /\ wd THEN completeCount + 1 ELSE completeCount)
      /\ bucket' = bucket
      /\ wd => write.inflight
  BY <1>1, WriteWork
<1>3. /\ wdma.state # "IDLE" \/ wdma.done => write.inflight /\ ~write.pending
      /\ wdma.state = "IDLE" /\ ~write.pending => wdma'.state = "IDLE" /\ ~wdma'.done
      /\ wdma.state = "IDLE" /\ write.pending =>
           wdma'.state # "IDLE" /\ ~wdma'.done /\ WP!Moved' = 0
      /\ wdma.state # "IDLE" /\ ~WriteFires(wGo) =>
           IF wdma'.state = "IDLE" THEN wdma'.done /\ WP!Moved >= write.cmd.bytes
                                   ELSE ~wdma'.done /\ WP!Moved' = WP!Moved
      /\ wdma.state = "DATA" => WP!Moved \in Nat /\ WP!Moved < write.cmd.bytes
      /\ WriteFires(wGo) =>
           wdma'.state # "IDLE" /\ ~wdma'.done /\ WP!Moved' = WP!Moved + BUS_BYTES
  BY <1>2, WriteMoves
<1>4. WriteFires(wGo) => wdma.state = "DATA"
  BY DEF WriteFires
<1>5. write.pending \/ write.inflight =>
        /\ slotOffset[write.slot] = n /\ write.cmd.bytes = PointsAt(n) * DIST_BYTES
        /\ PointsAt(n) \in 1..CHUNK_POINTS /\ n \in 0 .. bucket.points - 1
        /\ bucket.points \in Nat /\ completeCount \in Nat
  BY <1>1, WritesOld, WriteCommand
<1>6. wr <=> wdma.state = "IDLE"
  BY DEF W!CmdReady
<1>7. /\ wdma.done => wdma.state = "IDLE"
      /\ wdma.done \in BOOLEAN
  BY <1>1 DEF EnginesInv, WP!WriterInv, WP!EngineInv, WP!Engine
<1>8. Taken \in Nat /\ (wdma.state # "IDLE" => Taken = WP!Moved)
  BY <1>1, TakenNat DEF Taken
<1>9. /\ CHUNK_POINTS \in Nat /\ DIST_BYTES \in Nat /\ CHUNK_POINTS >= 1
  BY ChunksAssumption
<1>10. Written' = IF write'.inflight /\ wdma'.done
                  THEN slotOffset'[write'.slot] * DIST_BYTES + write'.cmd.bytes
                  ELSE IF wdma'.state # "IDLE"
                  THEN slotOffset'[write'.slot] * DIST_BYTES + Smaller(Taken', write'.cmd.bytes)
                  ELSE Smaller(completeCount' * CHUNK_POINTS, bucket'.points) * DIST_BYTES
  BY DEF Written, Smaller
<1>11. wdma'.state # "IDLE" => Taken' = WP!Moved'
  BY DEF Taken
<1> HIDE DEF Taken, WP!Moved, n
<1>12. CASE wdma.state = "IDLE" /\ wdma.done
  <2>1. Written = n * DIST_BYTES + PointsAt(n) * DIST_BYTES
    BY <1>3, <1>5, <1>12 DEF Written
  <2>2. Written' = Smaller((completeCount + 1) * CHUNK_POINTS, bucket.points) * DIST_BYTES
    BY <1>2, <1>3, <1>10, <1>12
  <2>3. (completeCount + 1) * CHUNK_POINTS = n + CHUNK_POINTS /\ n \in Nat
    BY <1>3, <1>5, <1>9, <1>12 DEF n
  <2>4. Smaller(n + CHUNK_POINTS, bucket.points) = n + PointsAt(n)
    BY <1>3, <1>5, <1>9, <1>12 DEF Smaller, PointsAt
  <2>5. (n + PointsAt(n)) * DIST_BYTES = n * DIST_BYTES + PointsAt(n) * DIST_BYTES
    BY <1>3, <1>5, <1>9, <1>12
  <2> QED BY <1>4, <1>12, <2>1, <2>2, <2>3, <2>4, <2>5
<1>13. CASE wdma.state = "IDLE" /\ ~wdma.done /\ ~write.pending
  <2>1. Written = Smaller(n, bucket.points) * DIST_BYTES
    BY <1>13 DEF Written, n
  <2>2. Written' = Smaller(n, bucket.points) * DIST_BYTES
    BY <1>2, <1>3, <1>10, <1>13 DEF n
  <2> QED BY <1>4, <1>13, <2>1, <2>2
<1>14. CASE wdma.state = "IDLE" /\ ~wdma.done /\ write.pending
  <2>1. Written = n * DIST_BYTES
    BY <1>5, <1>14 DEF Written, Smaller, n
  <2>2. Written' = n * DIST_BYTES + Smaller(0, write.cmd.bytes)
    BY <1>2, <1>3, <1>5, <1>10, <1>11, <1>14
  <2>3. Smaller(0, write.cmd.bytes) = 0
    BY <1>5, <1>9, <1>14 DEF Smaller
  <2>4. n * DIST_BYTES \in Nat
    BY <1>5, <1>9, <1>14
  <2> QED BY <1>4, <1>14, <2>1, <2>2, <2>3, <2>4
<1>15. CASE wdma.state # "IDLE" /\ ~WriteFires(wGo)
  <2>1. Written = o + Smaller(WP!Moved, write.cmd.bytes)
    BY <1>7, <1>8, <1>15 DEF Written
  <2>2. CASE wdma'.state = "IDLE"
    <3>1. Written' = o + write.cmd.bytes
      BY <1>2, <1>3, <1>7, <1>10, <1>15, <2>2
    <3>2. Smaller(WP!Moved, write.cmd.bytes) = write.cmd.bytes
      <4>1. WP!Moved >= write.cmd.bytes /\ WP!Moved \in Nat
        BY <1>3, <1>8, <1>15, <2>2
      <4>2. write.cmd.bytes \in Nat
        BY <1>3, <1>5, <1>9, <1>15
      <4> QED BY <4>1, <4>2 DEF Smaller
    <3> QED BY <1>15, <2>1, <3>1, <3>2
  <2>3. CASE wdma'.state # "IDLE"
    <3>1. Written' = o + Smaller(WP!Moved, write.cmd.bytes)
      BY <1>2, <1>3, <1>10, <1>11, <1>15, <2>3
    <3> QED BY <1>15, <2>1, <3>1
  <2> QED BY <2>2, <2>3
<1>16. CASE WriteFires(wGo)
  <2>1. Written = o + Smaller(WP!Moved, write.cmd.bytes)
    BY <1>4, <1>7, <1>8, <1>16 DEF Written
  <2>2. Smaller(WP!Moved, write.cmd.bytes) = WP!Moved
    BY <1>3, <1>4, <1>16 DEF Smaller
  <2>3. Written' = o + Smaller(WP!Moved + BUS_BYTES, write.cmd.bytes)
    BY <1>2, <1>3, <1>4, <1>10, <1>11, <1>16
  <2> QED BY <1>16, <2>1, <2>2, <2>3
<1> QED BY <1>4, <1>7, <1>12, <1>13, <1>14, <1>15, <1>16


LEMMA QueueAppends ==
  ASSUME NEW r, NEW old \in BOOLEAN, NEW young \in BOOLEAN, NEW oldCmd, NEW n, NEW youngCmd,
         Queue(r, old, young, oldCmd, n, youngCmd), ~young, NEW d \in Seq(Word)
  PROVE  /\ Remains(d, youngCmd, 0) => Queue(Append(r, d), old, TRUE, oldCmd, n, youngCmd)
         /\ ~old /\ Remains(d, oldCmd, 0) => Queue(Append(r, d), TRUE, FALSE, oldCmd, 0, youngCmd)
<1>1. r \in Seq(Seq(Word)) /\ Len(r) = (IF old THEN 1 ELSE 0)
      /\ (old => Remains(r[1], oldCmd, n))
  BY DEF Queue
<1>2. PICK q : q = Append(r, d)
  OBVIOUS
<1>3. /\ q \in Seq(Seq(Word)) /\ Len(q) = Len(r) + 1 /\ q[Len(q)] = d
      /\ \A i \in 1..Len(r) : q[i] = r[i]
  <2>1. \A V : \A s \in Seq(V), e \in V :
          /\ Append(s, e) \in Seq(V) /\ Len(Append(s, e)) = Len(s) + 1
          /\ \A i \in 1..Len(s) : Append(s, e)[i] = s[i]
          /\ Append(s, e)[Len(s) + 1] = e
    BY AppendProperties
  <2>2. PICK V : V = Seq(Word)
    OBVIOUS
  <2>3. r \in Seq(V) /\ d \in V
    BY <1>1, <2>2
  <2>4. /\ q \in Seq(V) /\ Len(q) = Len(r) + 1 /\ q[Len(r) + 1] = d
        /\ \A i \in 1..Len(r) : q[i] = r[i]
    BY <1>2, <2>1, <2>3
  <2> QED BY <2>2, <2>4
<1>4. old => q[1] = r[1]
  BY <1>1, <1>3
<1> QED BY <1>1, <1>2, <1>3, <1>4 DEF Queue

LEMMA QueueSends ==
  ASSUME NEW r, NEW young \in BOOLEAN, NEW oldCmd, NEW n \in Nat, NEW youngCmd,
         oldCmd.addr \in Nat, oldCmd.bytes \in Nat, n < oldCmd.bytes,
         Queue(r, TRUE, young, oldCmd, n, youngCmd), NEW rest,
         rest = SubSeq(r[1], BUS_BYTES + 1, Len(r[1])),
         NEW more \in BOOLEAN, more <=> n + BUS_BYTES < oldCmd.bytes
  PROVE  Queue((IF rest = <<>> THEN <<>> ELSE <<rest>>) \o Tail(r), more, young, oldCmd,
               n + BUS_BYTES, youngCmd)
<1>1. /\ r \in Seq(Seq(Word)) /\ Len(r) = 1 + (IF young THEN 1 ELSE 0)
      /\ Remains(r[1], oldCmd, n)
      /\ young => Remains(r[Len(r)], youngCmd, 0)
  BY DEF Queue
<1>2. PICK sent \in Seq(Word) : sent = r[1]
  BY <1>1
<1>3. /\ Len(sent) = oldCmd.bytes - n
      /\ \A i \in 1..Len(sent) : sent[i] = [of |-> oldCmd.addr + n + i - 1, times |-> 1]
  BY <1>1, <1>2 DEF Remains
<1>4. BUS_BYTES \in Nat /\ BUS_BYTES >= 1
  BY BurstAssumption
<1>5. /\ rest \in Seq(Word)
      /\ Len(rest) = IF BUS_BYTES + 1 <= Len(sent) THEN Len(sent) - BUS_BYTES ELSE 0
      /\ \A i \in 1..Len(rest) : rest[i] = sent[BUS_BYTES + i]
  <2>1. BUS_BYTES + 1 \in Int /\ Len(sent) \in Int
        /\ \A i \in BUS_BYTES + 1 .. Len(sent) : sent[i] \in Word
    BY <1>2, <1>4, ElementOfSeq
  <2>2. \A m, l \in Int : (\A i \in m..l : sent[i] \in Word) =>
          /\ SubSeq(sent, m, l) \in Seq(Word)
          /\ Len(SubSeq(sent, m, l)) = IF m <= l THEN l - m + 1 ELSE 0
          /\ \A i \in 1..l - m + 1 : SubSeq(sent, m, l)[i] = sent[m + i - 1]
    BY SubSeqProperties
  <2>3. rest = SubSeq(sent, BUS_BYTES + 1, Len(sent))
    BY <1>2
  <2>4. /\ rest \in Seq(Word)
        /\ Len(rest) = IF BUS_BYTES + 1 <= Len(sent) THEN Len(sent) - (BUS_BYTES + 1) + 1 ELSE 0
        /\ \A i \in 1..Len(sent) - (BUS_BYTES + 1) + 1 : rest[i] = sent[BUS_BYTES + 1 + i - 1]
    <3>1. PICK m, l \in Int : m = BUS_BYTES + 1 /\ l = Len(sent)
      BY <2>1
    <3>2. \A i \in m..l : sent[i] \in Word
      BY <2>1, <3>1
    <3>3. rest = SubSeq(sent, m, l)
      BY <2>3, <3>1
    <3>4. /\ rest \in Seq(Word)
          /\ Len(rest) = IF m <= l THEN l - m + 1 ELSE 0
          /\ \A i \in 1..l - m + 1 : rest[i] = sent[m + i - 1]
      BY <2>2, <3>2, <3>3
    <3> QED BY <3>1, <3>4
  <2>5. Len(sent) \in Nat /\ Len(sent) - (BUS_BYTES + 1) + 1 = Len(sent) - BUS_BYTES
    BY <1>2, <1>4, LenProperties
  <2>6. Len(rest) = IF BUS_BYTES + 1 <= Len(sent) THEN Len(sent) - BUS_BYTES ELSE 0
    BY <2>4, <2>5
  <2>7. ASSUME NEW i \in 1..Len(rest) PROVE rest[i] = sent[BUS_BYTES + i]
    <3>1. i \in 1..Len(sent) - BUS_BYTES /\ BUS_BYTES + 1 + i - 1 = BUS_BYTES + i
      BY <1>4, <2>5, <2>6, <2>7
    <3> QED BY <2>4, <2>5, <3>1
  <2> QED BY <2>4, <2>6, <2>7
<1>6. more <=> rest # <<>>
  <2>1. rest = <<>> <=> Len(rest) = 0
    BY <1>5, EmptySeq
  <2> QED BY <1>3, <1>4, <1>5, <2>1
<1>7. more => Remains(rest, oldCmd, n + BUS_BYTES)
  <2> SUFFICES ASSUME more PROVE Remains(rest, oldCmd, n + BUS_BYTES)
    OBVIOUS
  <2>1. Len(rest) = oldCmd.bytes - (n + BUS_BYTES) /\ Len(rest) = Len(sent) - BUS_BYTES
    BY <1>3, <1>4, <1>5
  <2>2. ASSUME NEW i \in 1..Len(rest)
        PROVE  rest[i] = [of |-> oldCmd.addr + (n + BUS_BYTES) + i - 1, times |-> 1]
    <3>1. BUS_BYTES + i \in 1..Len(sent)
      BY <1>3, <1>4, <2>1
    <3>2. rest[i] = [of |-> oldCmd.addr + n + (BUS_BYTES + i) - 1, times |-> 1]
      BY <1>3, <1>5, <3>1
    <3>3. oldCmd.addr + n + (BUS_BYTES + i) - 1 = oldCmd.addr + (n + BUS_BYTES) + i - 1
      <4>1. i \in Int /\ oldCmd.addr \in Int
        BY <1>4, <1>5, LenProperties
      <4>2. PICK a \in Int : a = oldCmd.addr
        BY <4>1
      <4>3. PICK j \in Int : j = i
        BY <4>1
      <4>4. a + n + (BUS_BYTES + j) - 1 = a + (n + BUS_BYTES) + j - 1
        BY <1>4
      <4> QED BY <4>2, <4>3, <4>4
    <3> QED BY <3>2, <3>3
  <2> QED BY <2>1, <2>2 DEF Remains
<1>8. PICK t : t = Tail(r)
  OBVIOUS
<1>9. /\ t \in Seq(Seq(Word)) /\ Len(t) = Len(r) - 1
      /\ young => t[1] = r[2]
  <2>1. \A V : \A s \in Seq(V) : s # <<>> =>
          /\ Tail(s) \in Seq(V) /\ Len(Tail(s)) = Len(s) - 1
          /\ \A i \in 1..Len(Tail(s)) : Tail(s)[i] = s[i + 1]
    BY HeadTailProperties
  <2>2. r # <<>>
    BY <1>1, EmptySeq
  <2>3. /\ t \in Seq(Seq(Word)) /\ Len(t) = Len(r) - 1
        /\ \A i \in 1..Len(t) : t[i] = r[i + 1]
    BY <1>1, <1>8, <2>1, <2>2
  <2> QED BY <1>1, <2>3
<1>10. CASE more
  <2>1. PICK q : q = <<rest>> \o t
    OBVIOUS
  <2>2. /\ q \in Seq(Seq(Word)) /\ Len(q) = 1 + Len(t) /\ q[1] = rest
        /\ young => q[2] = t[1]
    <3>1. \A V : \A s1, s2 \in Seq(V) :
            /\ s1 \o s2 \in Seq(V) /\ Len(s1 \o s2) = Len(s1) + Len(s2)
            /\ \A i \in 1..Len(s1) + Len(s2) :
                 (s1 \o s2)[i] = IF i <= Len(s1) THEN s1[i] ELSE s2[i - Len(s1)]
      BY ConcatProperties
    <3>2. PICK one : one = <<rest>>
      OBVIOUS
    <3>3. one \in Seq(Seq(Word)) /\ Len(one) = 1 /\ one[1] = rest
      <4>1. PICK V : V = Seq(Word)
        OBVIOUS
      <4>2. rest \in V
        BY <1>5, <4>1
      <4>3. Len(one) = 1 /\ one[1] = rest
        BY <3>2
      <4>4. one \in Seq(V)
        BY <3>2, <4>2
      <4> QED BY <4>1, <4>3, <4>4
    <3>4. /\ q \in Seq(Seq(Word)) /\ Len(q) = Len(one) + Len(t)
          /\ \A i \in 1..Len(one) + Len(t) : q[i] = IF i <= Len(one) THEN one[i] ELSE t[i - Len(one)]
      BY <1>9, <2>1, <3>1, <3>2, <3>3
    <3>5. Len(q) = 1 + Len(t) /\ Len(t) \in Nat
      BY <1>9, <3>3, <3>4, LenProperties
    <3>6. q[1] = rest
      <4>1. 1 \in 1..Len(one) + Len(t) /\ 1 <= Len(one)
        BY <3>3, <3>5
      <4>2. q[1] = one[1]
        BY <3>4, <4>1
      <4> QED BY <3>3, <4>2
    <3>7. ASSUME young PROVE q[2] = t[1]
      <4>1. Len(t) = 1
        BY <1>1, <1>9, <3>7
      <4>2. 2 \in 1..Len(one) + Len(t) /\ ~(2 <= Len(one)) /\ 2 - Len(one) = 1
        BY <3>3, <4>1
      <4> QED BY <3>4, <4>2
    <3> QED BY <3>4, <3>5, <3>6, <3>7
  <2>3. young => q[Len(q)] = r[Len(r)]
    BY <1>1, <1>9, <2>2
  <2>4. Len(q) = 1 + (IF young THEN 1 ELSE 0)
    BY <1>1, <1>9, <2>2
  <2>5. Queue(q, more, young, oldCmd, n + BUS_BYTES, youngCmd)
    BY <1>1, <1>7, <1>10, <2>2, <2>3, <2>4 DEF Queue
  <2> QED BY <1>6, <1>8, <1>10, <2>1, <2>5
<1>11. CASE ~more
  <2>1. PICK q : q = <<>> \o t
    OBVIOUS
  <2>2. q = t
    BY <1>9, <2>1, ConcatEmptySeq
  <2>3. young => t[Len(t)] = r[Len(r)]
    BY <1>1, <1>9
  <2>4. Len(t) = (IF young THEN 1 ELSE 0)
    BY <1>1, <1>9
  <2>5. Queue(t, more, young, oldCmd, n + BUS_BYTES, youngCmd)
    BY <1>1, <1>9, <1>11, <2>3, <2>4 DEF Queue
  <2> QED BY <1>6, <1>8, <1>11, <2>1, <2>2, <2>5
<1> QED BY <1>10, <1>11


(* While the writer takes results, those at the front are the ones of its  *)
(* command.                                                                *)
LEMMA FrontIsWritten ==
  ASSUME SubsystemInv, CommandsInv, ResultsInv, wdma.state = "DATA",
         WP!Moved < write.cmd.bytes
  PROVE  /\ OldQueued /\ Taken = WP!Moved /\ write.inflight
         /\ Remains(results[1], write.cmd, WP!Moved)
         /\ Head(results) = results[1]
         /\ write.cmd.addr \in Nat /\ write.cmd.bytes \in Nat
<1>1. P!StreamInv /\ LinkInv /\ EnginesInv
  BY DEF SubsystemInv
<1>2. write.inflight /\ ~wdma.done
  BY <1>1 DEF LinkInv, Engaged, Chunks!WriteAwaited, EnginesInv, WP!WriterInv, WP!EngineInv
<1>3. write.slot = P!Old /\ slotState[P!Old] = "WRITING" /\ write.cmd = DistCommand(P!Old)
  BY <1>1, <1>2, WritesOld, WriteCommand
<1>4. write.cmd.addr \in Nat /\ write.cmd.bytes \in Nat
  BY <1>1, ChunkTypes DEF P!Command
<1>5. Taken = WP!Moved /\ Taken \in Nat
  BY <1>1, TakenNat DEF Taken
<1>6. ~AllTaken
  BY <1>2, <1>4, <1>5 DEF AllTaken
<1>7. OldQueued
  BY <1>3, <1>6 DEF OldQueued, Chunks!IsComputed
<1>8. Remains(results[1], write.cmd, WP!Moved)
  BY <1>3, <1>5, <1>7 DEF ResultsInv, Queue
<1> QED BY <1>2, <1>4, <1>5, <1>7, <1>8

(* A beat at place p of a command adds the bytes of its lanes that belong  *)
(* to the command to the ones in front of it.                              *)
LEMMA BeatGrows ==
  ASSUME NEW base \in Nat, NEW o \in Nat, NEW p \in Nat, NEW bytes \in Nat, p < bytes,
         NEW a \in Nat, NEW k \in Int, k = a - (base + o + p)
  PROVE  a \in base .. base + (o + Smaller(p + BUS_BYTES, bytes)) - 1
         <=> \/ a \in base .. base + (o + p) - 1
             \/ k \in 0..BUS_BYTES - 1 /\ p + k < bytes
<1>1. BUS_BYTES \in Nat /\ BUS_BYTES >= 1
  BY BurstAssumption
<1>2. PICK m \in Nat : m = Smaller(p + BUS_BYTES, bytes)
  BY <1>1 DEF Smaller
<1>3. m = (IF p + BUS_BYTES < bytes THEN p + BUS_BYTES ELSE bytes)
  BY <1>2 DEF Smaller
<1>4. a \in base .. base + (o + m) - 1 <=> (a \in base .. base + (o + p) - 1) \/ (0 <= k /\ p + k < m)
  BY <1>1, <1>3
<1>5. p + k < m <=> k <= BUS_BYTES - 1 /\ p + k < bytes
  BY <1>1, <1>3
<1> QED BY <1>1, <1>2, <1>4, <1>5

LEMMA DramWork ==
  ASSUME SubsystemInv, CommandsInv, WP!Progress(write.cmd), ResultsInv, dram = Memory(Written),
         NEW cGo, NEW dGo, NEW kGo, NEW wGo, Engines(cGo, dGo, wGo, Flawless),
         Environment(cGo, dGo, kGo, wGo, Flawless),
         NEW cr, NEW cd, NEW dr, NEW dd, NEW kr, NEW kd, NEW wr, NEW wd,
         wr = W!CmdReady, wd = wdma.done, P!WorkWhen(cr, cd, dr, dd, kr, kd, wr, wd)
  PROVE  dram' = Memory(Written)'
<1> DEFINE o == slotOffset[write.slot] * DIST_BYTES
<1>1. P!StreamInv
  BY DEF SubsystemInv
<1>2. /\ ~WriteFires(wGo) => Written' = Written
      /\ WriteFires(wGo) => /\ Written = o + WP!Moved
                            /\ Written' = o + Smaller(WP!Moved + BUS_BYTES, write.cmd.bytes)
  BY WrittenWork
<1>3. bucket' = bucket
  BY <1>1, WriteWork
<1>4. PICK n : n = Written
  OBVIOUS
<1>5. PICK m : m = Written'
  OBVIOUS
<1>6. dram = [a \in DistAddresses |->
                [of |-> a, times |-> IF a \in bucket.dist .. bucket.dist + n - 1 THEN 1 ELSE 0]]
  BY <1>4 DEF Memory
<1>7. Memory(Written)' =
        [a \in DistAddresses |->
           [of |-> a, times |-> IF a \in bucket.dist .. bucket.dist + m - 1 THEN 1 ELSE 0]]
  BY <1>3, <1>5 DEF Memory
<1> HIDE DEF Written
<1>8. CASE ~WriteFires(wGo)
  <2>1. dram' = dram
    BY <1>8 DEF Environment
  <2> QED BY <1>2, <1>4, <1>5, <1>6, <1>7, <1>8, <2>1
<1>9. CASE WriteFires(wGo)
  <2>1. wdma.state = "DATA"
    BY <1>9 DEF WriteFires
  <2>2. /\ WP!Moved \in Nat /\ WP!Moved < write.cmd.bytes
        /\ BeatAddress(wdma) = write.cmd.addr + WP!Moved
        /\ \A k \in Int : k \in W!Strobes
                          <=> k \in 0..BUS_BYTES - 1 /\ WP!Moved + k < write.cmd.bytes
    <3>1. write.pending \/ write.inflight => write'.cmd = write.cmd
      BY <1>1, WriteWork
    <3> QED BY <2>1, <3>1, WriteMoves
  <2>3. /\ write.inflight /\ Remains(results[1], write.cmd, WP!Moved)
        /\ Head(results) = results[1]
        /\ write.cmd.addr \in Nat /\ write.cmd.bytes \in Nat
    BY <2>1, <2>2, FrontIsWritten
  <2>4. write.cmd.addr = bucket.dist + o /\ bucket.dist \in Nat /\ o \in Nat
    <3>1. /\ slotOffset[write.slot] = completeCount * CHUNK_POINTS
          /\ write.cmd.addr = bucket.dist + (completeCount * CHUNK_POINTS) * DIST_BYTES
          /\ bucket.dist \in Nat /\ completeCount \in Nat
      BY <1>1, <2>3, WritesOld, WriteCommand
    <3> QED BY <3>1, Sizes
  <2>5. PICK p \in Nat : p = WP!Moved
    BY <2>2
  <2>6. PICK cmd : cmd = write.cmd
    OBVIOUS
  <2>7. PICK sent : sent = Head(results)
    OBVIOUS
  <2> HIDE DEF o
  <2>8. /\ p < cmd.bytes /\ cmd.addr \in Nat /\ cmd.bytes \in Nat /\ cmd.addr = bucket.dist + o
        /\ BeatAddress(wdma) = cmd.addr + p
        /\ \A k \in Int : k \in W!Strobes <=> k \in 0..BUS_BYTES - 1 /\ p + k < cmd.bytes
        /\ Len(sent) = cmd.bytes - p
        /\ \A i \in 1..Len(sent) : sent[i] = [of |-> cmd.addr + p + i - 1, times |-> 1]
        /\ n = o + p /\ m = o + Smaller(p + BUS_BYTES, cmd.bytes)
    BY <1>2, <1>4, <1>5, <1>9, <2>2, <2>3, <2>4, <2>5, <2>6, <2>7 DEF Remains
  <2>9. dram' = [a \in DistAddresses |->
                   LET k == a - BeatAddress(wdma)
                   IN  IF k \in W!Strobes THEN ResultLane(sent, k) ELSE dram[a]]
    BY <1>9, <2>7 DEF Environment
  <2>10. BUS_BYTES \in Nat /\ BUS_BYTES >= 1
    BY BurstAssumption
  <2>11. ASSUME NEW a \in DistAddresses
         PROVE  (IF a - BeatAddress(wdma) \in W!Strobes
                 THEN ResultLane(sent, a - BeatAddress(wdma)) ELSE dram[a])
                = [of |-> a, times |-> IF a \in bucket.dist .. bucket.dist + m - 1 THEN 1 ELSE 0]
    <3>1. a \in Nat
      BY ChunksAssumption
    <3>2. PICK k \in Int : k = a - (cmd.addr + p)
      BY <2>8, <3>1
    <3>5. a \in bucket.dist .. bucket.dist + m - 1
          <=> \/ a \in bucket.dist .. bucket.dist + n - 1
              \/ k \in 0..BUS_BYTES - 1 /\ p + k < cmd.bytes
      <4>1. /\ cmd.bytes \in Nat /\ bucket.dist \in Nat /\ o \in Nat /\ p < cmd.bytes
            /\ cmd.addr = bucket.dist + o /\ n = o + p
            /\ m = o + Smaller(p + BUS_BYTES, cmd.bytes)
        BY <2>4, <2>8
      <4>2. PICK base \in Nat : base = bucket.dist
        BY <4>1
      <4>3. PICK first \in Nat : first = o
        BY <4>1
      <4>4. k = a - (base + first + p)
        BY <3>2, <4>1, <4>2, <4>3
      <4>5. PICK bytes \in Nat : bytes = cmd.bytes
        BY <4>1
      <4>6. p < bytes
        BY <4>1, <4>5
      <4>7. a \in base .. base + (first + Smaller(p + BUS_BYTES, bytes)) - 1
            <=> \/ a \in base .. base + (first + p) - 1
                \/ k \in 0..BUS_BYTES - 1 /\ p + k < bytes
        BY <3>1, <4>4, <4>6, BeatGrows
      <4>8. m = first + Smaller(p + BUS_BYTES, bytes) /\ n = first + p
        BY <4>1, <4>3, <4>5
      <4> QED BY <4>2, <4>5, <4>7, <4>8
    <3>3. CASE k \in W!Strobes
      <4>1. k \in 0..BUS_BYTES - 1 /\ p + k < cmd.bytes
        BY <2>8, <3>3
      <4>2. k < Len(sent) /\ k + 1 \in 1..Len(sent)
        BY <2>8, <2>10, <4>1
      <4>3. ResultLane(sent, k) = [of |-> cmd.addr + p + (k + 1) - 1, times |-> 1]
        BY <2>8, <4>2 DEF ResultLane
      <4>4. cmd.addr + p + (k + 1) - 1 = a
        BY <2>8, <3>1, <3>2
      <4>5. a \in bucket.dist .. bucket.dist + m - 1
        BY <3>5, <4>1
      <4> QED BY <2>8, <3>2, <3>3, <4>3, <4>4, <4>5
    <3>4. CASE k \notin W!Strobes
      <4>1. ~(k \in 0..BUS_BYTES - 1 /\ p + k < cmd.bytes)
        BY <2>8, <3>4
      <4>2. a \in bucket.dist .. bucket.dist + m - 1 <=> a \in bucket.dist .. bucket.dist + n - 1
        BY <3>5, <4>1
      <4> QED BY <1>6, <2>8, <3>2, <3>4, <4>2
    <3> QED BY <3>3, <3>4
  <2> QED BY <1>7, <2>9, <2>11
<1> QED BY <1>8, <1>9


(* What the computation makes of a slot.                                   *)
LEMMA ComputesSlot ==
  ASSUME P!StreamInv, StreamsInv, NEW s \in Slot, slotState[s] = "COMPUTE", NEW d,
         d = Recomputed(dists.data[s], slotPoints[s] * DIST_BYTES)
  PROVE  d \in Seq(Word) /\ Remains(d, DistCommand(s), 0)
<1>1. PICK n \in Nat : n = slotPoints[s] * DIST_BYTES
  BY ChunkTypes, Sizes
<1>2. PICK data : data = dists.data[s]
  OBVIOUS
<1>3. PICK first \in Nat : first = bucket.dist + slotOffset[s] * DIST_BYTES
  <2>1. bucket.dist \in Nat /\ slotOffset[s] \in Nat /\ DIST_BYTES \in Nat
    BY ChunkTypes, Sizes
  <2>2. slotOffset[s] * DIST_BYTES \in Nat
    BY <2>1
  <2> QED BY <2>1, <2>2
<1>4. DistCommand(s) = [addr |-> first, bytes |-> n]
  BY <1>1, <1>3 DEF DistCommand
<1>5. data \in Seq(Word) /\ Full(data, DistWords, [addr |-> first, bytes |-> n])
  BY <1>2, <1>4 DEF StreamsInv, Arrived, Buffers
<1>6. /\ Len(data) >= n /\ Len(data) \in Nat /\ DOMAIN data = 1..Len(data)
      /\ \A i \in 1..n : data[i] = DistWords[first + i - 1]
  BY <1>5, LenProperties DEF Full
<1>7. ASSUME NEW i \in 1..n
      PROVE  /\ i \in DOMAIN data /\ data[i] = [of |-> first + i - 1, times |-> 0]
             /\ first + i - 1 \in Nat
  <2>1. i \in DOMAIN data /\ first + i - 1 \in Nat
    BY <1>6
  <2> QED BY <1>6, <2>1 DEF DistWords
<1>8. d = [i \in 1..n |-> IF i \in DOMAIN data THEN [data[i] EXCEPT !.times = @ + 1]
                          ELSE Padding]
  BY <1>1, <1>2 DEF Recomputed
<1>9. ASSUME NEW i \in 1..n
      PROVE  d[i] = [of |-> first + i - 1, times |-> 1] /\ d[i] \in Word
  <2>1. d[i] = [data[i] EXCEPT !.times = @ + 1]
    BY <1>7, <1>8
  <2>2. d[i] = [of |-> first + i - 1, times |-> 1]
    <3>1. PICK at : at = first + i - 1
      OBVIOUS
    <3>2. PICK e : e = [of |-> at, times |-> 0]
      OBVIOUS
    <3>3. [e EXCEPT !.times = @ + 1] = [of |-> at, times |-> 1]
      BY <3>2
    <3>4. data[i] = e
      BY <1>7, <3>1, <3>2
    <3> QED BY <2>1, <3>1, <3>3, <3>4
  <2> QED BY <1>7, <2>2 DEF Word
<1>10. d \in Seq(Word) /\ Len(d) = n
  <2>1. d \in [1..n -> Word] /\ DOMAIN d = 1..n
    BY <1>8, <1>9
  <2>2. d \in Seq(Word)
    BY <2>1, SeqDef
  <2> QED BY <2>1, <2>2, LenProperties
<1>11. ASSUME NEW i \in 1..Len(d) PROVE d[i] = [of |-> first + 0 + i - 1, times |-> 1]
  BY <1>9, <1>10
<1> QED BY <1>4, <1>10, <1>11 DEF Remains

(* The chunks whose results wait change with the answer of the computation *)
(* and that of the writer.                                                 *)
LEMMA ComputedWork ==
  ASSUME P!StreamInv,
         NEW cr, NEW cd, NEW dr, NEW dd, NEW kr, NEW kd, NEW wr, NEW wd,
         P!WorkWhen(cr, cd, dr, dd, kr, kd, wr, wd)
  PROVE  /\ kd => compute.activeSlot \in Slot /\ slotState[compute.activeSlot] = "COMPUTE"
         /\ \A s \in Slot :
              slotState'[s] \in {"WRITEQ", "WRITING"}
              <=> \/ slotState[s] \in {"WRITEQ", "WRITING"} /\ ~(slotState[s] = "WRITING" /\ wd)
                  \/ kd /\ s = compute.activeSlot
         /\ kd /\ compute.activeSlot = P!Old => slotState[P!Young] \notin {"WRITEQ", "WRITING"}
<1>1. P!TypeOK /\ P!CountersInv /\ P!EnginesInv /\ P!SlotsInv /\ P!OrderInv
  BY DEF P!StreamInv
<1>2. compute.activeSlot \in Slot /\ slotState \in [Slot -> P!SlotStates]
  BY ChunkTypes
<1>3. kd => compute.inflight
  BY DEF P!WorkWhen, P!ComputeAwaited
<1>4. \A s \in Slot : slotState[s] = "COMPUTE" <=> compute.inflight /\ compute.activeSlot = s
  BY <1>1 DEF P!EnginesInv, P!Slot, Slot
<1>5. kd => slotState[compute.activeSlot] = "COMPUTE"
  BY <1>2, <1>3, <1>4
<1>6. ASSUME NEW s \in Slot
      PROVE  slotState'[s] \in {"WRITEQ", "WRITING"}
             <=> \/ slotState[s] \in {"WRITEQ", "WRITING"} /\ ~(slotState[s] = "WRITING" /\ wd)
                 \/ kd /\ s = compute.activeSlot
  <2>1. P!SlotMove(s, cd, dd, kr, kd, wr, wd)
    BY <1>1, Sizes, P!SlotMoves DEF P!Slot, Slot
  <2>2. slotState[s] \in P!SlotStates
    BY <1>2
  <2>3. kd /\ s = compute.activeSlot => slotState[s] = "COMPUTE"
    BY <1>5
  <2>4. slotState[s] = "COMPUTE" => s = compute.activeSlot
    BY <1>4
  <2> QED BY <2>1, <2>2, <2>3, <2>4 DEF P!SlotMove, P!SlotStates
<1>7. ASSUME kd, compute.activeSlot = P!Old
      PROVE  slotState[P!Young] \notin {"WRITEQ", "WRITING"}
  <2>1. slotState[P!Old] = "COMPUTE"
    BY <1>5, <1>7
  <2>2. CASE P!OnChip = 2
    BY <1>1, <2>1, <2>2 DEF P!OrderInv, P!Rank
  <2>3. CASE P!OnChip <= 1
    BY <1>1, <2>3 DEF P!SlotsInv
  <2>4. P!OnChip \in {0, 1, 2}
    <3>1. load.active \in BOOLEAN /\ nextLoad \in Nat /\ completeCount \in Nat
      BY ChunkTypes
    <3> QED BY <1>1, <3>1 DEF P!CountersInv, P!Reserved, P!OnChip
  <2> QED BY <2>2, <2>3, <2>4
<1> QED BY <1>2, <1>5, <1>6, <1>7

(* What the writer has taken, and whether that is all. *)
LEMMA TakenWork ==
  ASSUME SubsystemInv, CommandsInv, WP!Progress(write.cmd),
         NEW cGo, NEW dGo, NEW wGo, Engines(cGo, dGo, wGo, Flawless),
         NEW cr, NEW cd, NEW dr, NEW dd, NEW kr, NEW kd, NEW wr, NEW wd,
         wr = W!CmdReady, wd = wdma.done, P!WorkWhen(cr, cd, dr, dd, kr, kd, wr, wd)
  PROVE  /\ wd => AllTaken /\ ~AllTaken' /\ Taken' = 0 /\ ~WriteFires(wGo)
         /\ WriteFires(wGo) => /\ Taken' = Taken + BUS_BYTES
                               /\ AllTaken' <=> Taken + BUS_BYTES >= write.cmd.bytes
         /\ ~wd /\ ~WriteFires(wGo) => /\ AllTaken' <=> AllTaken
                                       /\ ~AllTaken => Taken' = Taken
<1>1. P!StreamInv /\ LinkInv /\ EnginesInv
  BY DEF SubsystemInv
<1>2. /\ write.pending \in BOOLEAN /\ write.inflight \in BOOLEAN
      /\ write.pending => ~write.inflight
      /\ write.pending \/ write.inflight => write'.cmd = write.cmd
      /\ write'.inflight <=> (write.inflight \/ (write.pending /\ wr)) /\ ~(write.inflight /\ wd)
      /\ wd => write.inflight
  BY <1>1, WriteWork
<1>3. /\ wdma.state # "IDLE" \/ wdma.done => write.inflight /\ ~write.pending
      /\ wdma.state = "IDLE" /\ ~write.pending => wdma'.state = "IDLE" /\ ~wdma'.done
      /\ wdma.state = "IDLE" /\ write.pending =>
           wdma'.state # "IDLE" /\ ~wdma'.done /\ WP!Moved' = 0
      /\ wdma.state # "IDLE" /\ ~WriteFires(wGo) =>
           IF wdma'.state = "IDLE" THEN wdma'.done /\ WP!Moved >= write.cmd.bytes
                                   ELSE ~wdma'.done /\ WP!Moved' = WP!Moved
      /\ WriteFires(wGo) =>
           wdma'.state # "IDLE" /\ ~wdma'.done /\ WP!Moved' = WP!Moved + BUS_BYTES
  BY <1>2, WriteMoves
<1>4. wdma.done \in BOOLEAN /\ wdma.done => wdma.state = "IDLE"
  BY <1>1 DEF EnginesInv, WP!WriterInv, WP!EngineInv, WP!Engine
<1>5. WriteFires(wGo) => wdma.state = "DATA"
  BY DEF WriteFires
<1>6. write.pending \/ write.inflight => ~(0 >= write.cmd.bytes)
  <2>1. write.pending \/ write.inflight =>
          /\ write.cmd.bytes = PointsAt(completeCount * CHUNK_POINTS) * DIST_BYTES
          /\ PointsAt(completeCount * CHUNK_POINTS) \in 1..CHUNK_POINTS
    BY <1>1, WriteCommand
  <2> QED BY <2>1, ChunksAssumption
<1>7. /\ Taken = IF wdma.state = "IDLE" THEN 0 ELSE WP!Moved
      /\ Taken' = IF wdma'.state = "IDLE" THEN 0 ELSE WP!Moved'
  BY DEF Taken
<1>8. /\ AllTaken <=> write.inflight /\ (wdma.done \/ Taken >= write.cmd.bytes)
      /\ AllTaken' <=> write'.inflight /\ (wdma'.done \/ Taken' >= write'.cmd.bytes)
  BY DEF AllTaken
<1>9. wr <=> wdma.state = "IDLE"
  BY DEF W!CmdReady
<1> HIDE DEF WP!Moved
<1>10. CASE wd
  BY <1>2, <1>3, <1>4, <1>5, <1>7, <1>8, <1>10
<1>11. CASE ~wd /\ wdma.state = "IDLE"
  BY <1>2, <1>3, <1>5, <1>6, <1>7, <1>8, <1>9, <1>11
<1>12. CASE ~wd /\ wdma.state # "IDLE" /\ ~WriteFires(wGo)
  <2>1. Taken = WP!Moved /\ write.inflight /\ write'.inflight /\ write'.cmd = write.cmd
    BY <1>2, <1>3, <1>7, <1>12
  <2> QED BY <1>3, <1>7, <1>8, <1>12, <2>1
<1>13. CASE ~wd /\ WriteFires(wGo)
  <2>1. Taken = WP!Moved /\ write.inflight /\ write'.inflight /\ write'.cmd = write.cmd
    BY <1>2, <1>3, <1>5, <1>7, <1>13
  <2> QED BY <1>3, <1>7, <1>8, <1>13, <2>1
<1> QED BY <1>4, <1>5, <1>10, <1>11, <1>12, <1>13


(* Only what waits says what a queue holds; when the older chunk is done   *)
(* with, the younger one is the older of two.                              *)
LEMMA QueueSame ==
  ASSUME NEW r, NEW old, NEW young, NEW oldCmd, NEW n, NEW youngCmd,
         Queue(r, old, young, oldCmd, n, youngCmd),
         NEW old2, old2 <=> old, NEW young2, young2 <=> young, NEW oldCmd2, NEW n2, NEW youngCmd2,
         old => oldCmd2 = oldCmd /\ n2 = n, young => youngCmd2 = youngCmd
  PROVE  Queue(r, old2, young2, oldCmd2, n2, youngCmd2)
BY DEF Queue

LEMMA QueueShifts ==
  ASSUME NEW r, NEW young \in BOOLEAN, NEW oldCmd, NEW n, NEW youngCmd,
         Queue(r, FALSE, young, oldCmd, n, youngCmd), NEW cmd
  PROVE  Queue(r, young, FALSE, youngCmd, 0, cmd)
BY DEF Queue

(* The computation ends: its results are behind those that wait.           *)
LEMMA ResultsGrow ==
  ASSUME P!StreamInv, CommandsInv, EnginesInv, LinkInv, StreamsInv, ResultsInv,
         NEW cr, NEW cd, NEW dr, NEW dd, NEW kr, NEW kd, NEW wr, NEW wd,
         P!WorkWhen(cr, cd, dr, dd, kr, kd, wr, wd),
         NEW out, out = IF kd THEN Append(results, Recomputed(dists.data[compute.activeSlot],
                                       slotPoints[compute.activeSlot] * DIST_BYTES))
                        ELSE results
  PROVE  /\ Queue(out, OldQueued \/ (kd /\ compute.activeSlot = P!Old),
                  YoungQueued \/ (kd /\ compute.activeSlot = P!Young),
                  DistCommand(P!Old), Taken, DistCommand(P!Young))
         /\ OldQueued => out[1] = results[1]
<1>1. PICK old \in BOOLEAN : old <=> OldQueued
  OBVIOUS
<1>2. PICK young \in BOOLEAN : young <=> YoungQueued
  OBVIOUS
<1>3. PICK oldCmd : oldCmd = DistCommand(P!Old)
  OBVIOUS
<1>4. PICK youngCmd : youngCmd = DistCommand(P!Young)
  OBVIOUS
<1>5. PICK s : s = compute.activeSlot
  OBVIOUS
<1>6. PICK n : n = Taken
  OBVIOUS
<1>7. Queue(results, old, young, oldCmd, n, youngCmd)
  BY <1>1, <1>2, <1>3, <1>4, <1>6, QueueSame DEF ResultsInv
<1>8. /\ P!Old \in Slot /\ P!Young \in Slot /\ P!Old # P!Young
      /\ \A t \in Slot : t = P!Old \/ t = P!Young
  BY Sizes, P!SlotFacts DEF P!StreamInv, P!Slot, Slot
<1>9. SUFFICES /\ Queue(out, old \/ (kd /\ s = P!Old), young \/ (kd /\ s = P!Young),
                        oldCmd, n, youngCmd)
               /\ old => out[1] = results[1]
  BY <1>1, <1>2, <1>3, <1>4, <1>5, <1>6, QueueSame
<1>10. CASE ~kd
  <2>1. out = results
    BY <1>10
  <2> QED BY <1>7, <1>10, <2>1, QueueSame
<1>11. CASE kd
  <2>1. /\ s \in Slot /\ slotState[s] = "COMPUTE"
        /\ s = P!Old => slotState[P!Young] \notin {"WRITEQ", "WRITING"}
    <3>1. /\ kd => compute.activeSlot \in Slot /\ slotState[compute.activeSlot] = "COMPUTE"
          /\ kd /\ compute.activeSlot = P!Old => slotState[P!Young] \notin {"WRITEQ", "WRITING"}
      BY ComputedWork
    <3> QED BY <1>5, <1>11, <3>1
  <2>2. PICK d : d = Recomputed(dists.data[s], slotPoints[s] * DIST_BYTES)
    OBVIOUS
  <2>3. d \in Seq(Word) /\ Remains(d, DistCommand(s), 0)
    BY <2>1, <2>2, ComputesSlot
  <2>4. out = Append(results, d)
    BY <1>5, <1>11, <2>2
  <2>5. CASE s = P!Young
    <3>1. ~young
      BY <1>2, <2>1, <2>5 DEF YoungQueued, Chunks!IsComputed
    <3>2. Queue(out, old, TRUE, oldCmd, n, youngCmd)
      BY <1>4, <1>7, <2>3, <2>4, <2>5, <3>1, QueueAppends
    <3>3. Queue(out, old \/ (kd /\ s = P!Old), young \/ (kd /\ s = P!Young), oldCmd, n, youngCmd)
      BY <1>8, <1>11, <2>5, <3>2, QueueSame
    <3>4. old => out[1] = results[1]
      <4>1. \A V : \A q \in Seq(V), e \in V : \A i \in 1..Len(q) : Append(q, e)[i] = q[i]
        BY AppendProperties
      <4>2. results \in Seq(Seq(Word)) /\ (old => 1 \in 1..Len(results))
        BY <1>7, <3>1 DEF Queue
      <4> QED BY <2>3, <2>4, <4>1, <4>2
    <3> QED BY <3>3, <3>4
  <2>6. CASE s = P!Old
    <3>1. ~young /\ ~old
      BY <1>1, <1>2, <2>1, <2>6 DEF YoungQueued, OldQueued, Chunks!IsComputed
    <3>2. n = 0
      <4>1. write.inflight => slotState[P!Old] = "WRITING"
        BY WritesOld
      <4>2. ~write.inflight
        BY <2>1, <2>6, <4>1
      <4>3. wdma.state = "IDLE"
        BY <4>2 DEF LinkInv, Engaged, Chunks!WriteAwaited
      <4> QED BY <1>6, <4>3 DEF Taken
    <3>3. Queue(out, TRUE, FALSE, oldCmd, n, youngCmd)
      <4>1. Remains(d, oldCmd, 0)
        BY <1>3, <2>3, <2>6
      <4>2. Queue(out, TRUE, FALSE, oldCmd, 0, youngCmd)
        BY <1>7, <2>3, <2>4, <3>1, <4>1, QueueAppends
      <4> QED BY <3>2, <4>2
    <3>4. Queue(out, old \/ (kd /\ s = P!Old), young \/ (kd /\ s = P!Young), oldCmd, n, youngCmd)
      BY <1>8, <1>11, <2>6, <3>1, <3>3, QueueSame
    <3> QED BY <3>1, <3>4
  <2> QED BY <1>8, <2>1, <2>5, <2>6
<1> QED BY <1>10, <1>11

LEMMA ResultsWork ==
  ASSUME SubsystemInv, CommandsInv, WP!Progress(write.cmd), StreamsInv, ResultsInv,
         NEW cGo, NEW dGo, NEW kGo, NEW wGo, Engines(cGo, dGo, wGo, Flawless),
         Environment(cGo, dGo, kGo, wGo, Flawless),
         NEW cr, NEW cd, NEW dr, NEW dd, NEW kr, NEW kd, NEW wr, NEW wd,
         wr = W!CmdReady, wd = wdma.done, kd = (compute.inflight /\ kGo),
         P!WorkWhen(cr, cd, dr, dd, kr, kd, wr, wd)
  PROVE  ResultsInv'
<1> DEFINE out == IF kd THEN Append(results, Recomputed(dists.data[compute.activeSlot],
                                       slotPoints[compute.activeSlot] * DIST_BYTES))
                  ELSE results
<1>1. P!StreamInv /\ LinkInv /\ EnginesInv
  BY DEF SubsystemInv
<1>2. PICK old \in BOOLEAN : old <=> OldQueued \/ (kd /\ compute.activeSlot = P!Old)
  OBVIOUS
<1>3. PICK young \in BOOLEAN : young <=> YoungQueued \/ (kd /\ compute.activeSlot = P!Young)
  OBVIOUS
<1>4. PICK oldCmd : oldCmd = DistCommand(P!Old)
  OBVIOUS
<1>5. PICK youngCmd : youngCmd = DistCommand(P!Young)
  OBVIOUS
<1>6. PICK n : n = Taken
  OBVIOUS
<1>7. PICK r : r = out
  OBVIOUS
<1>8. Queue(r, old, young, oldCmd, n, youngCmd) /\ (OldQueued => r[1] = results[1])
  <2>1. /\ Queue(r, OldQueued \/ (kd /\ compute.activeSlot = P!Old),
                 YoungQueued \/ (kd /\ compute.activeSlot = P!Young),
                 DistCommand(P!Old), Taken, DistCommand(P!Young))
        /\ OldQueued => r[1] = results[1]
    BY <1>1, <1>7, ResultsGrow
  <2> QED BY <1>2, <1>3, <1>4, <1>5, <1>6, <2>1, QueueSame
<1>9. results' = IF WriteFires(wGo)
                 THEN (IF SubSeq(Head(results), BUS_BYTES + 1, Len(Head(results))) = <<>> THEN <<>>
                       ELSE <<SubSeq(Head(results), BUS_BYTES + 1, Len(Head(results)))>>) \o Tail(r)
                 ELSE r
  BY <1>7 DEF Environment
<1> HIDE DEF out
<1>10. /\ P!Old \in Slot /\ P!Young \in Slot /\ P!Old # P!Young
       /\ \A t \in Slot : t = P!Old \/ t = P!Young
       /\ P!Young = 1 - P!Old /\ P!Old \in {0, 1}
  BY <1>1, Sizes, P!SlotFacts DEF P!StreamInv, P!Slot, Slot, P!Young
<1>11. \A s \in Slot : slotState[s] # "EMPTY" => DistCommand(s)' = DistCommand(s)
  BY <1>1, CommandsWork
<1>12. /\ kd => compute.activeSlot \in Slot /\ slotState[compute.activeSlot] = "COMPUTE"
       /\ \A s \in Slot :
            slotState'[s] \in {"WRITEQ", "WRITING"}
            <=> \/ slotState[s] \in {"WRITEQ", "WRITING"} /\ ~(slotState[s] = "WRITING" /\ wd)
                \/ kd /\ s = compute.activeSlot
  BY <1>1, ComputedWork
<1>13. /\ wd => AllTaken /\ ~AllTaken' /\ Taken' = 0 /\ ~WriteFires(wGo)
       /\ WriteFires(wGo) => /\ Taken' = Taken + BUS_BYTES
                             /\ AllTaken' <=> Taken + BUS_BYTES >= write.cmd.bytes
       /\ ~wd /\ ~WriteFires(wGo) => /\ AllTaken' <=> AllTaken
                                     /\ ~AllTaken => Taken' = Taken
  BY TakenWork
<1>14. /\ wd => write.inflight
       /\ completeCount' = (IF write.inflight /\ wd THEN completeCount + 1 ELSE completeCount)
       /\ completeCount \in Nat
  BY <1>1, WriteWork, ChunkTypes
<1>15. /\ YoungQueued <=> slotState[P!Young] \in {"WRITEQ", "WRITING"}
       /\ OldQueued <=> slotState[P!Old] \in {"WRITEQ", "WRITING"} /\ ~AllTaken
  BY DEF YoungQueued, OldQueued, Chunks!IsComputed
<1>16. write.inflight => slotState[P!Old] = "WRITING" /\ write.slot = P!Old
  BY <1>1, WritesOld
<1>17. ~(slotState[P!Young] = "WRITING")
  <2>1. slotState[P!Young] = "WRITING" => write.inflight /\ write.slot = P!Young
    BY <1>1, <1>10 DEF P!StreamInv, P!EnginesInv, P!Slot, Slot
  <2> QED BY <1>10, <1>16, <2>1
<1>18. /\ young <=> slotState'[P!Young] \in {"WRITEQ", "WRITING"}
       /\ young => youngCmd = DistCommand(P!Young) /\ slotState[P!Young] # "EMPTY"
  BY <1>3, <1>5, <1>10, <1>12, <1>15, <1>17
<1>19. CASE wd
  <2>1. P!Old' = P!Young /\ P!Young' = P!Old
    BY <1>14, <1>19 DEF P!Old, P!Young
  <2>2. ~old
    BY <1>2, <1>12, <1>13, <1>14, <1>15, <1>16, <1>19
  <2>3. Queue(r, young, FALSE, youngCmd, 0, oldCmd)
    BY <1>8, <2>2, QueueShifts
  <2>4. OldQueued' <=> young
    BY <1>13, <1>18, <1>19, <2>1 DEF OldQueued, Chunks!IsComputed
  <2>5. YoungQueued' <=> FALSE
    BY <1>10, <1>12, <1>14, <1>16, <1>19, <2>1 DEF YoungQueued, Chunks!IsComputed
  <2>6. results' = r /\ Taken' = 0
    BY <1>9, <1>13, <1>19
  <2>7. young => DistCommand(P!Old)' = youngCmd
    BY <1>10, <1>11, <1>18, <2>1
  <2>8. Queue(results', OldQueued', YoungQueued', DistCommand(P!Old)', Taken', DistCommand(P!Young)')
    <3>1. PICK no \in BOOLEAN : no = FALSE
      OBVIOUS
    <3>2. Queue(r, young, no, youngCmd, 0, oldCmd)
      BY <2>3, <3>1
    <3>3. /\ young => DistCommand(P!Old)' = youngCmd /\ Taken' = 0
          /\ no => DistCommand(P!Young)' = oldCmd
          /\ YoungQueued' <=> no
      BY <2>5, <2>6, <2>7, <3>1
    <3>4. Queue(r, OldQueued', YoungQueued', DistCommand(P!Old)', Taken', DistCommand(P!Young)')
      BY <2>4, <3>2, <3>3, QueueSame
    <3> QED BY <2>6, <3>4
  <2> QED BY <2>8 DEF ResultsInv
<1>20. CASE ~wd
  <2>1. P!Old' = P!Old /\ P!Young' = P!Young
    BY <1>14, <1>20 DEF P!Old, P!Young
  <2>2. YoungQueued' <=> young
    BY <1>18, <2>1 DEF YoungQueued, Chunks!IsComputed
  <2>3. young => DistCommand(P!Young)' = youngCmd
    BY <1>10, <1>11, <1>18, <2>1
  <2>4. OldQueued' <=> /\ \/ slotState[P!Old] \in {"WRITEQ", "WRITING"}
                          \/ kd /\ P!Old = compute.activeSlot
                       /\ ~AllTaken'
    BY <1>10, <1>12, <1>20, <2>1 DEF OldQueued, Chunks!IsComputed
  <2>5. slotState[P!Old] # "EMPTY" => DistCommand(P!Old)' = oldCmd
    BY <1>4, <1>10, <1>11, <2>1
  <2>6. old => slotState[P!Old] # "EMPTY"
    BY <1>2, <1>12, <1>15
  <2>7. CASE ~WriteFires(wGo)
    <3>1. OldQueued' <=> old
      <4>1. kd /\ P!Old = compute.activeSlot => ~AllTaken
        BY <1>12, <1>16 DEF AllTaken
      <4> QED BY <1>2, <1>13, <1>15, <1>20, <2>4, <2>7, <4>1
    <3>2. old => Taken' = n
      <4>1. old => ~AllTaken
        BY <1>2, <1>12, <1>15, <1>16 DEF AllTaken
      <4> QED BY <1>6, <1>13, <1>20, <2>7, <4>1
    <3>3. results' = r
      BY <1>9, <2>7
    <3>4. Queue(results', OldQueued', YoungQueued', DistCommand(P!Old)', Taken', DistCommand(P!Young)')
      BY <1>8, <2>2, <2>3, <2>5, <2>6, <3>1, <3>2, <3>3, QueueSame
    <3> QED BY <3>4 DEF ResultsInv
  <2>8. CASE WriteFires(wGo)
    <3>1. /\ OldQueued /\ Taken = WP!Moved /\ write.inflight
          /\ Head(results) = results[1]
          /\ write.cmd.addr \in Nat /\ write.cmd.bytes \in Nat
          /\ n \in Nat /\ n < write.cmd.bytes
      <4>1. wdma.state = "DATA"
        BY <2>8 DEF WriteFires
      <4>2. write.pending \/ write.inflight => write'.cmd = write.cmd
        BY <1>1, WriteWork
      <4>3. WP!Moved \in Nat /\ WP!Moved < write.cmd.bytes
        BY <4>1, <4>2, WriteMoves
      <4> QED BY <1>6, <4>1, <4>3, FrontIsWritten
    <3>2. write.cmd = oldCmd
      BY <1>1, <1>4, <3>1, WriteCommand
    <3>3. Queue(r, TRUE, young, oldCmd, n, youngCmd)
      <4>1. old
        BY <1>2, <3>1
      <4> QED BY <1>8, <4>1, QueueSame
    <3>4. PICK more \in BOOLEAN : more <=> n + BUS_BYTES < oldCmd.bytes
      OBVIOUS
    <3>5. PICK rest : rest = SubSeq(r[1], BUS_BYTES + 1, Len(r[1]))
      OBVIOUS
    <3>6. results' = (IF rest = <<>> THEN <<>> ELSE <<rest>>) \o Tail(r)
      BY <1>8, <1>9, <2>8, <3>1, <3>5
    <3>7. Queue((IF rest = <<>> THEN <<>> ELSE <<rest>>) \o Tail(r), more, young, oldCmd,
                n + BUS_BYTES, youngCmd)
      BY <3>1, <3>2, <3>3, <3>4, <3>5, QueueSends
    <3>8. OldQueued' <=> more
      <4>1. AllTaken' <=> n + BUS_BYTES >= oldCmd.bytes
        BY <1>6, <1>13, <2>8, <3>2
      <4>2. BUS_BYTES \in Nat /\ oldCmd.bytes \in Nat
        BY <3>1, <3>2, Sizes
      <4>3. AllTaken' <=> ~more
        BY <3>1, <3>4, <4>1, <4>2
      <4> QED BY <1>16, <2>4, <3>1, <4>3
    <3>9. Taken' = n + BUS_BYTES /\ DistCommand(P!Old)' = oldCmd
      BY <1>6, <1>13, <1>16, <2>5, <2>8, <3>1
    <3>10. Queue(results', OldQueued', YoungQueued', DistCommand(P!Old)', Taken', DistCommand(P!Young)')
      BY <2>2, <2>3, <3>6, <3>7, <3>8, <3>9, QueueSame
    <3> QED BY <3>10 DEF ResultsInv
  <2> QED BY <2>7, <2>8
<1> QED BY <1>19, <1>20


-----------------------------------------------------------------------------
(* Every step keeps the data. *)

LEMMA WorkEdge ==
  ASSUME SubsystemInv, NEW cGo, NEW dGo, NEW kGo \in BOOLEAN, NEW wGo, NEW mistake,
         WorkWith(cGo, dGo, kGo, wGo, mistake),
         NEW cr, cr = C!CmdReady, NEW cd, cd = cdma.done, NEW dr, dr = D!CmdReady,
         NEW dd, dd = ddma.done, NEW kd, kd = (compute.inflight /\ kGo),
         NEW wr, wr = W!CmdReady, NEW wd, wd = wdma.done
  PROVE  P!WorkWhen(cr, cd, dr, dd, kGo, kd, wr, wd)
<1>1. Chunks!Work(cr, cd, dr, dd, kGo, kd, wr, wd)
  BY DEF WorkWith
<1>2. /\ cd => Chunks!CoordAwaited
      /\ dd => Chunks!DistAwaited
      /\ wd => Chunks!WriteAwaited
      /\ kd => Chunks!ComputeAwaited
  BY DEF SubsystemInv, LinkInv, Engaged, Chunks!ComputeAwaited
<1>3. Chunks!WorkWhen(cr, cd, dr, dd, kGo, kd, wr, wd)
  BY <1>1, <1>2 DEF Chunks!WorkWhen
<1> QED BY <1>3, ChunksEdge

(* After a mistake only the commands are still known. *)
LEMMA DataWork ==
  ASSUME SubsystemInv, DataInv,
         NEW cGo, NEW dGo, NEW kGo \in BOOLEAN, NEW wGo, NEW mistake,
         WorkWith(cGo, dGo, kGo, wGo, mistake),
         IF mistake = Flawless THEN mistakes' = mistakes ELSE mistakes' = mistakes + 1
  PROVE  DataInv'
<1>1. P!StreamInv /\ CommandsInv /\ mistakes \in Nat
  BY DEF SubsystemInv, DataInv
<1>2. PICK cr : cr = C!CmdReady
  OBVIOUS
<1>3. PICK dr : dr = D!CmdReady
  OBVIOUS
<1>4. PICK wr : wr = W!CmdReady
  OBVIOUS
<1>5. PICK cd : cd = cdma.done
  OBVIOUS
<1>6. PICK dd : dd = ddma.done
  OBVIOUS
<1>7. PICK wd : wd = wdma.done
  OBVIOUS
<1>8. PICK kd : kd = (compute.inflight /\ kGo)
  OBVIOUS
<1>9. P!WorkWhen(cr, cd, dr, dd, kGo, kd, wr, wd)
  BY <1>2, <1>3, <1>4, <1>5, <1>6, <1>7, <1>8, WorkEdge
<1>10. CommandsInv' /\ mistakes' \in Nat
  BY <1>1, <1>9, CommandsWork
<1>11. CASE mistakes' # 0
  BY <1>10, <1>11 DEF DataInv
<1>12. CASE mistakes' = 0
  <2>1. mistakes = 0 /\ mistake = Flawless
    BY <1>1, <1>12
  <2>2. ProgressInv /\ StreamsInv /\ ResultsInv /\ dram = Memory(Written)
    BY <2>1 DEF DataInv
  <2>3. Engines(cGo, dGo, wGo, Flawless) /\ Environment(cGo, dGo, kGo, wGo, Flawless)
    BY <2>1 DEF WorkWith
  <2>4. WP!Progress(write.cmd)
    BY <2>2 DEF ProgressInv
  <2>5. /\ StreamsInv'
        /\ CP!Progress(coordCmd)' /\ ~CP!Overrun'
        /\ DP!Progress(distCmd)' /\ ~DP!Overrun'
    BY <1>1, <1>5, <1>6, <1>9, <2>2, <2>3, StreamsWork
  <2>6. WP!Progress(write.cmd)'
    <3>1. write.pending \/ write.inflight => write'.cmd = write.cmd
      BY <1>1, <1>9, WriteWork
    <3> QED BY <1>1, <2>3, <2>4, <3>1, WriteMoves
  <2>7. ResultsInv'
    BY <1>1, <1>4, <1>7, <1>8, <1>9, <2>2, <2>3, <2>4, ResultsWork
  <2>8. dram' = Memory(Written)'
    BY <1>1, <1>4, <1>7, <1>9, <2>2, <2>3, <2>4, DramWork
  <2> QED BY <1>10, <2>5, <2>6, <2>7, <2>8 DEF DataInv, ProgressInv
<1> QED BY <1>11, <1>12

(* A bucket begins with nothing on chip and the memory as it was. *)
Fresh ==
  /\ ~load.active /\ ~compute.pending /\ ~write.pending /\ ~write.inflight
  /\ \A s \in Slot : slotState[s] = "EMPTY"
  /\ ~Engaged(cdma) /\ ~Engaged(ddma) /\ ~Engaged(wdma)
  /\ nextLoad = 0 /\ completeCount = 0 /\ bucket.dist \in Nat /\ bucket.points \in Nat
  /\ bucketDone => ~busy
  /\ dram = Untouched /\ coords = EmptyBuffer /\ dists = EmptyBuffer
  /\ results = <<>> /\ mistakes = 0

LEMMA FreshData == Fresh => DataInv
<1> SUFFICES ASSUME Fresh PROVE DataInv
  OBVIOUS
<1>1. /\ cdma.state = "IDLE" /\ ~cdma.done
      /\ ddma.state = "IDLE" /\ ~ddma.done
      /\ wdma.state = "IDLE" /\ ~wdma.done
  BY DEF Fresh, Engaged
<1>2. CommandsInv
  BY DEF Fresh, CommandsInv
<1>3. ProgressInv
  BY <1>1 DEF ProgressInv, CP!Progress, DP!Progress, WP!Progress, CP!Overrun, DP!Overrun
<1>4. /\ EmptyBuffer.data \in [Slot -> Seq(Nat)] /\ EmptyBuffer.data \in [Slot -> Seq(Word)]
      /\ EmptyBuffer.slot = 0 /\ EmptyBuffer.fresh = TRUE
      /\ EmptyBuffer \in Buffers(Nat) /\ EmptyBuffer \in Buffers(Word)
  BY EmptySeq DEF EmptyBuffer, Buffers, Slot
<1>5. StreamsInv
  <2>1. Stream(CoordSide, CoordWords)
    <3>1. PICK x : x = CoordSide
      OBVIOUS
    <3>2. x.buffer = EmptyBuffer /\ x.active = load.active /\ x.next = 0
      BY <3>1 DEF CoordSide, Fresh
    <3>3. 0 % 2 = 0
      OBVIOUS
    <3>4. Stream(x, CoordWords)
      BY <1>4, <3>2, <3>3 DEF Stream, Filling, Fresh
    <3> QED BY <3>1, <3>4
  <2>2. Stream(DistSide, DistWords)
    <3>1. PICK x : x = DistSide
      OBVIOUS
    <3>2. x.buffer = EmptyBuffer /\ x.active = load.active /\ x.next = 0
      BY <3>1 DEF DistSide, Fresh
    <3>3. 0 % 2 = 0
      OBVIOUS
    <3>4. Stream(x, DistWords)
      BY <1>4, <3>2, <3>3 DEF Stream, Filling, Fresh
    <3> QED BY <3>1, <3>4
  <2> QED BY <1>4, <2>1, <2>2 DEF StreamsInv, Arrived, Fresh
<1>6. ResultsInv
  <2>1. P!Old \in Slot /\ P!Young \in Slot
    BY DEF P!Old, P!Young, Slot, Fresh
  <2>2. ~OldQueued /\ ~YoungQueued
    BY <2>1 DEF OldQueued, YoungQueued, Chunks!IsComputed, Fresh
  <2>3. results \in Seq(Seq(Word)) /\ Len(results) = 0
    BY EmptySeq DEF Fresh
  <2> QED BY <2>2, <2>3 DEF ResultsInv, Queue
<1>7. dram = Memory(Written)
  <2>1. Written = 0
    <3>1. Written = Smaller(0 * CHUNK_POINTS, bucket.points) * DIST_BYTES
      BY <1>1 DEF Written, Fresh
    <3>2. Smaller(0 * CHUNK_POINTS, bucket.points) = 0
      BY Sizes DEF Smaller, Fresh
    <3> QED BY <3>1, <3>2, Sizes
  <2>2. ASSUME NEW a \in DistAddresses
        PROVE  [of |-> a, times |-> 0]
               = [of |-> a, times |-> IF a \in bucket.dist .. bucket.dist + 0 - 1 THEN 1 ELSE 0]
    <3>1. a \notin bucket.dist .. bucket.dist + 0 - 1
      BY DEF Fresh
    <3> QED BY <3>1
  <2> QED BY <2>1, <2>2 DEF Fresh, Untouched, Memory
<1> QED BY <1>2, <1>3, <1>5, <1>6, <1>7 DEF DataInv, Fresh

LEMMA FreshNext == Fresh' => DataInv'
BY FreshData, PTL

(* Between two buckets nothing moves. *)
LEMMA DataStays ==
  ASSUME DataInv, UNCHANGED <<bucket, nextLoad, completeCount, slotState, slotOffset, slotPoints,
                              load, coordCmd, distCmd, compute, write, external, mistakes>>,
         bucketDone' => ~busy',
         \/ UNCHANGED <<cdma, ddma, wdma>>
         \/ /\ ~Engaged(cdma) /\ ~Engaged(ddma) /\ ~Engaged(wdma)
            /\ ~Engaged(cdma)' /\ ~Engaged(ddma)' /\ ~Engaged(wdma)'
  PROVE  DataInv'
<1>1. CommandsInv' /\ mistakes' = mistakes /\ mistakes \in Nat
  BY DEF DataInv, CommandsInv, CoordCommand, DistCommand, PointsAt
<1>2. SUFFICES ASSUME mistakes = 0
               PROVE  ProgressInv' /\ StreamsInv' /\ ResultsInv' /\ dram' = Memory(Written)'
  BY <1>1 DEF DataInv
<1>3. ProgressInv /\ StreamsInv /\ ResultsInv /\ dram = Memory(Written)
  BY <1>2 DEF DataInv
<1>4. /\ cdma' = cdma \/ (cdma'.state = "IDLE" /\ cdma.state = "IDLE" /\ ~cdma'.done /\ ~cdma.done)
      /\ ddma' = ddma \/ (ddma'.state = "IDLE" /\ ddma.state = "IDLE" /\ ~ddma'.done /\ ~ddma.done)
      /\ wdma' = wdma \/ (wdma'.state = "IDLE" /\ wdma.state = "IDLE" /\ ~wdma'.done /\ ~wdma.done)
  BY DEF Engaged
<1>5. ProgressInv'
  BY <1>3, <1>4 DEF ProgressInv, CP!Progress, DP!Progress, WP!Progress, CP!Overrun, DP!Overrun,
     CP!Raised, DP!Raised, WP!Raised
<1>6. CoordSide' = CoordSide
  BY <1>4 DEF CoordSide, CP!Moved, external
<1>7. DistSide' = DistSide
  BY <1>4 DEF DistSide, DP!Moved, external
<1>8. StreamsInv'
  <2>1. PICK x : x = CoordSide
    OBVIOUS
  <2>2. PICK y : y = DistSide
    OBVIOUS
  <2>3. Stream(x, CoordWords) /\ Stream(y, DistWords)
    BY <1>3, <2>1, <2>2 DEF StreamsInv
  <2>4. x = CoordSide' /\ y = DistSide'
    BY <1>6, <1>7, <2>1, <2>2
  <2>5. Stream(CoordSide, CoordWords)' /\ Stream(DistSide, DistWords)'
    BY <2>3, <2>4
  <2>6. coords' = coords /\ dists' = dists
    BY DEF external
  <2> QED BY <1>3, <2>5, <2>6 DEF StreamsInv, Arrived, CoordCommand, DistCommand
<1>9. Taken' = Taken
  BY <1>4 DEF Taken, WP!Moved
<1>10. AllTaken' <=> AllTaken
  BY <1>4, <1>9 DEF AllTaken
<1>11. ResultsInv'
  <2>1. P!Old' = P!Old /\ P!Young' = P!Young
    BY DEF P!Old, P!Young
  <2>2. (OldQueued' <=> OldQueued) /\ (YoungQueued' <=> YoungQueued)
    BY <1>10, <2>1 DEF OldQueued, YoungQueued, Chunks!IsComputed
  <2>3. DistCommand(P!Old)' = DistCommand(P!Old) /\ DistCommand(P!Young)' = DistCommand(P!Young)
    BY <2>1 DEF DistCommand
  <2>4. results' = results
    BY DEF external
  <2>5. Queue(results', OldQueued', YoungQueued', DistCommand(P!Old)', Taken', DistCommand(P!Young)')
    BY <1>3, <1>9, <2>2, <2>3, <2>4, QueueSame DEF ResultsInv
  <2> QED BY <2>5 DEF ResultsInv
<1>12. Written' = Written
  BY <1>4, <1>9 DEF Written
<1>13. dram' = Memory(Written)'
  BY <1>3, <1>12 DEF Memory, external
<1> QED BY <1>5, <1>8, <1>11, <1>13

LEMMA DataNext ==
  ASSUME SubsystemInv, DataInv, [Next]_vars
  PROVE  DataInv'
<1>1. CASE Rest
  <2>1. ~load.active /\ ~write.pending /\ ~write.inflight
    BY <1>1, QuietWhenIdle DEF SubsystemInv, Rest, Chunks!Rest
  <2>2. ~Engaged(cdma) /\ ~Engaged(ddma) /\ ~Engaged(wdma)
    BY <2>1 DEF SubsystemInv, LinkInv, Chunks!CoordAwaited, Chunks!DistAwaited,
                Chunks!WriteAwaited
  <2>3. ~Engaged(cdma)' /\ ~Engaged(ddma)' /\ ~Engaged(wdma)'
    BY <1>1, QuietEdge DEF Rest, Chunks!Rest, history
  <2> QED BY <1>1, <2>2, <2>3, DataStays DEF Rest, Chunks!Rest, Chunks!chunks, Chunks!slots,
             Chunks!engines, history
<1>2. CASE Reset
  <2>1. Fresh'
    <3>1. ~Engaged(cdma)' /\ ~Engaged(ddma)' /\ ~Engaged(wdma)'
      BY <1>2 DEF Reset, Engaged, C!InitialDma, D!InitialDma, W!InitialDma
    <3> QED BY <1>2, <3>1 DEF Reset, Chunks!Reset, Fresh, Chunks!NoLoad, Chunks!NoCompute,
               Chunks!NoWrite, Chunks!Slot, Slot
  <2> QED BY <2>1, FreshNext
<1>3. ASSUME NEW request \in Requests, Accept(request)
      PROVE  DataInv'
  <2>1. Fresh'
    <3>1. ~Engaged(cdma)' /\ ~Engaged(ddma)' /\ ~Engaged(wdma)'
      BY <1>3, QuietEdge DEF Accept, Chunks!Accept
    <3>2. request.dist \in Nat /\ request.points \in Nat
      BY ChunksAssumption
    <3>3. ~load'.active /\ ~compute'.pending /\ ~write'.pending /\ ~write'.inflight
      BY <1>3 DEF Accept, Chunks!Accept, SubsystemInv, P!StreamInv, P!TypeOK
    <3> QED BY <1>3, <3>1, <3>2, <3>3 DEF Accept, Chunks!Accept, Fresh, Chunks!Slot, Slot
  <2> QED BY <2>1, FreshNext
<1>4. ASSUME NEW cGo \in Willing(cdma), NEW dGo \in Willing(ddma), NEW wGo \in Willing(wdma),
             NEW kGo \in Computing, Work(cGo, dGo, kGo, wGo)
      PROVE  DataInv'
  <2>1. kGo \in BOOLEAN
    BY DEF Computing, Choice
  <2>2. CASE WorkWith(cGo, dGo, kGo, wGo, Flawless) /\ UNCHANGED mistakes
    BY <2>1, <2>2, DataWork
  <2>3. ASSUME NEW mistake \in Mistakes, WorkWith(cGo, dGo, kGo, wGo, mistake),
               mistakes' = mistakes + 1
        PROVE  DataInv'
    <3>1. mistake # Flawless
      <4>1. mistake.by # "none" /\ Flawless.by = "none"
        BY DEF Mistakes, Flawless
      <4> QED BY <4>1
    <3> QED BY <2>1, <2>3, <3>1, DataWork
  <2> QED BY <1>4, <2>2, <2>3 DEF Work
<1>5. CASE UNCHANGED vars
  <2>1. bucketDone' => ~busy'
    BY <1>5 DEF vars, control, DataInv, CommandsInv
  <2> QED BY <1>5, <2>1, DataStays DEF vars, control, history
<1> QED BY <1>1, <1>2, <1>3, <1>4, <1>5 DEF Next

LEMMA DataInvariant == Spec => []DataInv
<1>1. Init => DataInv
  <2>1. Init => Fresh
    BY DEF Init, Fresh, Chunks!Init, Chunks!NoLoad, Chunks!NoCompute, Chunks!NoWrite,
           Chunks!Slot, Slot, Engaged, C!InitialDma, D!InitialDma, W!InitialDma
  <2> QED BY <2>1, FreshData
<1>2. SubsystemInv /\ DataInv /\ [Next]_vars => DataInv'
  BY DataNext
<1> QED BY <1>1, <1>2, SubsystemInvariant, PTL DEF Spec

(* Whatever is offered to the computation, or computed, is in its slot in  *)
(* full and of its own chunk, although neither stream names a slot and the *)
(* two arrive at their own speed in bursts cut at pages and beats.         *)
THEOREM ChunksArrive == Spec => []ComputesItsChunk
<1>1. SubsystemInv /\ DataInv => ComputesItsChunk
  <2> SUFFICES ASSUME SubsystemInv, DataInv, mistakes = 0
               PROVE  /\ compute.pending =>
                           Holds(compute.slot) /\ compute.points = slotPoints[compute.slot]
                      /\ compute.inflight => Holds(compute.activeSlot)
    BY DEF ComputesItsChunk
  <2>1. P!StreamInv /\ StreamsInv /\ CommandsInv
    BY DEF SubsystemInv, DataInv
  <2>2. compute.slot \in Slot /\ compute.activeSlot \in Slot
    BY <2>1, ChunkTypes
  <2>3. ASSUME NEW s \in Slot, Arrived(s) PROVE Holds(s)
    <3>1. PICK n \in Nat : n = slotPoints[s]
      BY <2>1, ChunkTypes
    <3>2. PICK o \in Nat : o = slotOffset[s]
      BY <2>1, ChunkTypes
    <3>3. /\ Full(coords.data[s], CoordWords, [addr  |-> bucket.coord + o * COORD_BYTES,
                                               bytes |-> n * COORD_BYTES])
          /\ Full(dists.data[s], DistWords, [addr  |-> bucket.dist + o * DIST_BYTES,
                                             bytes |-> n * DIST_BYTES])
      BY <2>1, <2>3, <3>1, <3>2 DEF StreamsInv, CoordCommand, DistCommand
    <3>4. bucket.coord \in Nat /\ bucket.dist \in Nat /\ COORD_BYTES \in Nat /\ DIST_BYTES \in Nat
      BY <2>1, ChunkTypes, Sizes
    <3>5. PICK c \in Nat : c = bucket.coord + o * COORD_BYTES
      <4>1. o * COORD_BYTES \in Nat
        BY <3>4
      <4> QED BY <3>4, <4>1
    <3>6. PICK d \in Nat : d = bucket.dist + o * DIST_BYTES
      <4>1. o * DIST_BYTES \in Nat
        BY <3>4
      <4> QED BY <3>4, <4>1
    <3>7. PICK k \in Nat : k = n * COORD_BYTES
      BY <3>4
    <3>8. PICK l \in Nat : l = n * DIST_BYTES
      BY <3>4
    <3>9. /\ Len(coords.data[s]) >= k
          /\ \A i \in 1..k : coords.data[s][i] = c + i - 1
      <4>1. Full(coords.data[s], CoordWords, [addr |-> c, bytes |-> k])
        BY <3>3, <3>5, <3>7
      <4>2. /\ Len(coords.data[s]) >= k
            /\ \A i \in 1..k : coords.data[s][i] = CoordWords[c + i - 1]
        BY <4>1 DEF Full
      <4>3. \A i \in 1..k : c + i - 1 \in Nat
        OBVIOUS
      <4> QED BY <4>2, <4>3 DEF CoordWords
    <3>10. /\ Len(dists.data[s]) >= l
           /\ \A i \in 1..l : dists.data[s][i] = [of |-> d + i - 1, times |-> 0]
      <4>1. Full(dists.data[s], DistWords, [addr |-> d, bytes |-> l])
        BY <3>3, <3>6, <3>8
      <4>2. /\ Len(dists.data[s]) >= l
            /\ \A i \in 1..l : dists.data[s][i] = DistWords[d + i - 1]
        BY <4>1 DEF Full
      <4>3. \A i \in 1..l : d + i - 1 \in Nat
        OBVIOUS
      <4> QED BY <4>2, <4>3 DEF DistWords
    <3> QED BY <3>1, <3>2, <3>5, <3>6, <3>7, <3>8, <3>9, <3>10 DEF Holds
  <2>4. compute.pending => slotState[compute.slot] = "LOADED"
    BY <2>1 DEF P!StreamInv, P!EnginesInv
  <2>5. compute.inflight => slotState[compute.activeSlot] = "COMPUTE"
    BY <2>1, <2>2 DEF P!StreamInv, P!EnginesInv, P!Slot, Slot
  <2> QED BY <2>1, <2>2, <2>3, <2>4, <2>5 DEF Arrived, CommandsInv
<1> QED BY <1>1, SubsystemInvariant, DataInvariant, PTL

(* The chunks of a bucket cover its points. *)
LEMMA ChunksCover ==
  ASSUME NEW p \in Nat, NEW n \in Nat, n >= P!TotalChunks(p)
  PROVE  Smaller(n * CHUNK_POINTS, p) = p
<1> DEFINE d == CHUNK_POINTS
           q == (p + d - 1) \div d
<1>1. d \in Nat /\ d >= 1
  BY ChunksAssumption
<1>2. q \in Int /\ d * q <= p + d - 1 /\ p + d - 1 < d * (q + 1)
  BY <1>1
<1>3. n >= q
  BY DEF P!TotalChunks
<1> HIDE DEF q, d
<1>4. d * (q + 1) = d * q + d /\ d * q \in Int /\ n * d \in Nat
  BY <1>1, <1>2
<1>5. p <= d * q
  BY <1>1, <1>2, <1>4
<1>6. d * q <= n * d
  BY <1>1, <1>2, <1>3
<1>7. n * d >= p
  BY <1>4, <1>5, <1>6
<1> QED BY <1>4, <1>7 DEF Smaller, d

(* When a bucket is done, each of its distances was recomputed exactly     *)
(* once and is back where it came from, and nothing else was written,      *)
(* whatever the timing of the streams, the computation and the writer.     *)
THEOREM DistancesReturn == Spec => []EachDistanceUpdatedOnce
<1>1. SubsystemInv /\ DataInv => EachDistanceUpdatedOnce
  <2> SUFFICES ASSUME SubsystemInv, DataInv, bucketDone, mistakes = 0
               PROVE  \A a \in DistAddresses :
                        LET mine == a \in bucket.dist .. bucket.dist + bucket.points * DIST_BYTES - 1
                        IN  dram[a] = [of |-> a, times |-> IF mine THEN 1 ELSE 0]
    BY DEF EachDistanceUpdatedOnce
  <2>1. P!StreamInv /\ LinkInv /\ CommandsInv /\ dram = Memory(Written)
    BY DEF SubsystemInv, DataInv
  <2>2. ~busy
    BY <2>1 DEF CommandsInv
  <2>3. ~write.pending /\ ~write.inflight
    BY <2>1, <2>2, QuietWhenIdle
  <2>4. wdma.state = "IDLE"
    BY <2>1, <2>3 DEF LinkInv, Engaged, Chunks!WriteAwaited
  <2>5. Written = Smaller(completeCount * CHUNK_POINTS, bucket.points) * DIST_BYTES
    BY <2>3, <2>4 DEF Written
  <2>6. completeCount \in Nat /\ bucket.points \in Nat /\ totalChunks \in Nat
        /\ totalChunks = P!TotalChunks(bucket.points)
        /\ (busy <=> completeCount < totalChunks)
    BY <2>1, ChunkTypes DEF P!StreamInv, P!CountersInv
  <2>7. completeCount >= P!TotalChunks(bucket.points)
    BY <2>2, <2>6
  <2>8. Written = bucket.points * DIST_BYTES
    BY <2>5, <2>6, <2>7, ChunksCover
  <2> QED BY <2>1, <2>8 DEF Memory
<1> QED BY <1>1, SubsystemInvariant, DataInvariant, PTL
=============================================================================
