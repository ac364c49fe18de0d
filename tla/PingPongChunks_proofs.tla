------------------------ MODULE PingPongChunks_proofs ------------------------
(***************************************************************************)
(* Theorems about PingPongChunks, for every chunk size, every set of       *)
(* buckets and every timing of the engines around the controller.          *)
(***************************************************************************)
EXTENDS PingPongChunks, TLAPS

(* The chunks on chip are the ones reserved and not yet written back.      *)
Reserved == nextLoad + (IF load.active THEN 1 ELSE 0)
OnChip   == Reserved - completeCount
Old      == completeCount % 2
Young    == 1 - Old

(* The counters of a bucket. *)
CountersInv ==
  /\ totalChunks = TotalChunks(bucket.points)
  /\ completeCount <= nextLoad
  /\ Reserved <= totalChunks
  /\ Reserved <= completeCount + 2
  /\ busy <=> completeCount < totalChunks

(* A slot's state says what its engine is doing. *)
EnginesInv ==
  /\ load.active => load.slot = nextLoad % 2
  /\ \A s \in Slot :
       /\ slotState[s] = "LOADING" <=> (load.active /\ load.slot = s)
       /\ slotState[s] = "COMPUTE" <=> (compute.inflight /\ compute.activeSlot = s)
       /\ slotState[s] = "WRITING" <=> (write.inflight /\ write.slot = s)
  /\ compute.pending => ~compute.inflight /\ slotState[compute.slot] = "LOADED"
  /\ write.pending => ~write.inflight /\ slotState[write.slot] = "WRITEQ"

(* The slots hold the chunks on chip. *)
SlotsInv ==
  /\ OnChip = 0 => slotState[Old] = "EMPTY"
  /\ OnChip >= 1 => slotState[Old] # "EMPTY"
                    /\ slotOffset[Old] = completeCount * CHUNK_POINTS
  /\ OnChip <= 1 => slotState[Young] = "EMPTY"
  /\ OnChip = 2 => slotState[Young] # "EMPTY"
                   /\ slotOffset[Young] = (completeCount + 1) * CHUNK_POINTS

(* The older of two chunks is ahead.  When it could be offered or queued,  *)
(* and the younger might be before it is done, it already has been.        *)
OrderInv ==
  OnChip = 2 =>
    /\ Rank(slotState[Old]) >= Rank(slotState[Young])
    /\ slotState[Old] = "LOADED" => compute.pending /\ compute.slot = Old
    /\ slotState[Old] = "WRITEQ"
         /\ (compute.pending \/ slotState[Young] \in {"COMPUTE", "WRITEQ"})
       => write.pending /\ write.slot = Old

StreamInv == TypeOK /\ CountersInv /\ EnginesInv /\ SlotsInv /\ OrderInv

-----------------------------------------------------------------------------
(* A bucket has a chunk exactly if it has a point, and every chunk begins  *)
(* inside the bucket: the size of the last one is never negative.          *)
LEMMA TotalFacts ==
  ASSUME NEW p \in Nat
  PROVE  /\ TotalChunks(p) \in Nat
         /\ TotalChunks(p) = 0 <=> p = 0
         /\ \A n \in Nat : n < TotalChunks(p) => n * CHUNK_POINTS \in 0 .. p - 1
<1> DEFINE d == CHUNK_POINTS
           q == (p + d - 1) \div d
<1>1. d \in Nat /\ d >= 1
  BY SizesAssumption
<1>2. q \in Int /\ d * q <= p + d - 1 /\ p + d - 1 < d * (q + 1)
  BY <1>1
<1> HIDE DEF q, d
<1>3. q \in Nat
  BY <1>1, <1>2
<1>4. q = 0 <=> p = 0
  BY <1>1, <1>2, <1>3
<1>5. ASSUME NEW n \in Nat, n < q PROVE n * d \in 0 .. p - 1
  <2>1. d * (n + 1) <= d * q
    BY <1>1, <1>3, <1>5
  <2> QED BY <2>1, <1>1, <1>2, <1>3
<1> QED BY <1>3, <1>4, <1>5 DEF q, d, TotalChunks

(* The registers a reservation writes. *)
LEMMA LoadFacts ==
  ASSUME TypeOK, CountersInv, nextLoad < totalChunks
  PROVE  LoadOffset \in Nat /\ LoadPoints \in Nat
<1>1. bucket.points \in Nat /\ nextLoad \in Nat /\ CHUNK_POINTS \in Nat
  BY SizesAssumption DEF TypeOK
<1>2. LoadOffset \in 0 .. bucket.points - 1
  BY <1>1, TotalFacts DEF CountersInv, LoadOffset
<1> QED BY <1>1, <1>2 DEF LoadPoints, Remaining

(* The two slots. *)
LEMMA SlotFacts ==
  ASSUME TypeOK
  PROVE  /\ Old \in Slot /\ Young \in Slot /\ Old # Young
         /\ \A s \in Slot : s = Old \/ s = Young
         /\ (completeCount + 1) % 2 = Young
         /\ (completeCount + 2) % 2 = Old
         /\ CandidateSlot \in Slot
BY DEF TypeOK, Slot, Old, Young, CandidateSlot

-----------------------------------------------------------------------------
(* What one edge does to a slot, by its state: each assignment of the code *)
(* meets a slot in the one state it is meant for.                          *)
SlotMove(s, cd, dd, kr, kd, wr, wd) ==
  /\ slotState[s] = "EMPTY" =>
       slotState'[s] = (IF CanReserve /\ s = CandidateSlot THEN "LOADING" ELSE "EMPTY")
  /\ slotState[s] = "LOADING" =>
       slotState'[s] = (IF LoadDone(cd, dd) THEN "LOADED" ELSE "LOADING")
  /\ slotState[s] = "LOADED" =>
       slotState'[s] = (IF compute.pending /\ compute.slot = s /\ kr THEN "COMPUTE" ELSE "LOADED")
  /\ slotState[s] = "COMPUTE" =>
       slotState'[s] = (IF kd THEN "WRITEQ" ELSE "COMPUTE")
  /\ slotState[s] = "WRITEQ" =>
       slotState'[s] = (IF write.pending /\ write.slot = s /\ wr THEN "WRITING" ELSE "WRITEQ")
  /\ slotState[s] = "WRITING" =>
       slotState'[s] = (IF wd THEN "EMPTY" ELSE "WRITING")

LEMMA SlotMoves ==
  ASSUME TypeOK, EnginesInv,
         NEW cr, NEW cd, NEW dr, NEW dd, NEW kr, NEW kd, NEW wr, NEW wd,
         WorkWhen(cr, cd, dr, dd, kr, kd, wr, wd), NEW s \in Slot
  PROVE  SlotMove(s, cd, dd, kr, kd, wr, wd)
<1> DEFINE f1 == Updated(slotState, LoadDone(cd, dd), load.slot, "LOADED")
           f2 == Updated(f1, compute.pending /\ kr, compute.slot, "COMPUTE")
           f3 == Updated(f2, compute.inflight /\ kd, compute.activeSlot, "WRITEQ")
           f4 == Updated(f3, write.pending /\ wr, write.slot, "WRITING")
           f5 == Updated(f4, write.inflight /\ wd, write.slot, "EMPTY")
<1>1. slotState' = Updated(f5, CanReserve, CandidateSlot, "LOADING")
  BY DEF WorkWhen, Work, SlotStep
<1>2. slotState \in [Slot -> SlotStates]
  BY DEF TypeOK
<1>3. DOMAIN slotState = Slot
  BY <1>2
<1>4. DOMAIN f1 = Slot /\ f1[s] = (IF LoadDone(cd, dd) /\ s = load.slot THEN "LOADED" ELSE slotState[s])
  BY <1>3 DEF Updated
<1> HIDE DEF f1
<1>5. DOMAIN f2 = Slot /\ f2[s] = (IF compute.pending /\ kr /\ s = compute.slot THEN "COMPUTE" ELSE f1[s])
  BY <1>4 DEF Updated
<1> HIDE DEF f2
<1>6. DOMAIN f3 = Slot /\ f3[s] = (IF compute.inflight /\ kd /\ s = compute.activeSlot THEN "WRITEQ" ELSE f2[s])
  BY <1>5 DEF Updated
<1> HIDE DEF f3
<1>7. DOMAIN f4 = Slot /\ f4[s] = (IF write.pending /\ wr /\ s = write.slot THEN "WRITING" ELSE f3[s])
  BY <1>6 DEF Updated
<1> HIDE DEF f4
<1>8. DOMAIN f5 = Slot /\ f5[s] = (IF write.inflight /\ wd /\ s = write.slot THEN "EMPTY" ELSE f4[s])
  BY <1>7 DEF Updated
<1> HIDE DEF f5
<1>9. slotState'[s] = (IF CanReserve /\ s = CandidateSlot THEN "LOADING" ELSE f5[s])
  BY <1>1, <1>8 DEF Updated
<1>10. /\ (LoadDone(cd, dd) /\ s = load.slot) <=> (LoadDone(cd, dd) /\ slotState[s] = "LOADING")
       /\ (kd /\ compute.inflight /\ s = compute.activeSlot) <=> (kd /\ slotState[s] = "COMPUTE")
       /\ (wd /\ write.inflight /\ s = write.slot) <=> (wd /\ slotState[s] = "WRITING")
       /\ compute.pending /\ s = compute.slot => slotState[s] = "LOADED"
       /\ write.pending /\ s = write.slot => slotState[s] = "WRITEQ"
       /\ CanReserve /\ s = CandidateSlot => slotState[s] = "EMPTY"
  BY DEF EnginesInv, LoadDone, CanReserve, WorkWhen, ComputeAwaited, WriteAwaited
<1> QED
  BY <1>4, <1>5, <1>6, <1>7, <1>8, <1>9, <1>10 DEF SlotMove

(* The registers of the three engines after an edge. *)
LEMMA EngineMoves ==
  ASSUME TypeOK, CountersInv, EnginesInv,
         NEW cr, NEW cd, NEW dr, NEW dd, NEW kr, NEW kd, NEW wr, NEW wd,
         WorkWhen(cr, cd, dr, dd, kr, kd, wr, wd)
  PROVE  TypeOK' /\ EnginesInv'
<1>1. ASSUME NEW s \in Slot PROVE SlotMove(s, cd, dd, kr, kd, wr, wd)
  BY SlotMoves
<1>2. CanReserve => CandidateSlot \in Slot /\ LoadOffset \in Nat /\ LoadPoints \in Nat
  BY LoadFacts, SlotFacts DEF CanReserve
<1>3. CanOffer => FirstOf("LOADED") \in Slot /\ slotState[FirstOf("LOADED")] = "LOADED"
  BY DEF CanOffer, FirstOf, InState, Slot
<1>4. CanQueue => FirstOf("WRITEQ") \in Slot /\ slotState[FirstOf("WRITEQ")] = "WRITEQ"
  BY DEF CanQueue, FirstOf, InState, Slot
<1>5. TypeOK'
  <2>1. slotState' \in [Slot -> SlotStates]
    BY <1>2 DEF WorkWhen, Work, SlotStep, Updated, TypeOK, SlotStates
  <2>2. slotOffset' \in [Slot -> Nat] /\ slotPoints' \in [Slot -> Nat]
    BY <1>2 DEF WorkWhen, Work, SlotStep, Updated, TypeOK
  <2>3. load' \in [active : BOOLEAN, slot : Slot, coordPending : BOOLEAN,
                   distPending : BOOLEAN, coordSeen : BOOLEAN, distSeen : BOOLEAN]
    BY <1>2 DEF WorkWhen, Work, LoadStep, TypeOK, CanReserve, LoadDone, CoordCmdValid, DistCmdValid
  <2>4. coordCmd' \in Command /\ distCmd' \in Command
    BY <1>2, SizesAssumption DEF WorkWhen, Work, CommandStep, Command, TypeOK
  <2>5. compute' \in [pending : BOOLEAN, inflight : BOOLEAN, slot : Slot,
                      activeSlot : Slot, points : Nat, merge : Nat]
    BY <1>3 DEF WorkWhen, Work, ComputeStep, TypeOK, CanOffer
  <2>6. write' \in [pending : BOOLEAN, inflight : BOOLEAN, slot : Slot, cmd : Command]
    BY <1>4, SizesAssumption DEF WorkWhen, Work, WriteStep, TypeOK, CanQueue, Command
  <2>7. /\ nextLoad' \in Nat /\ completeCount' \in Nat
        /\ busy' \in BOOLEAN /\ bucketDone' \in BOOLEAN
    BY DEF WorkWhen, Work, TypeOK, LastWrite
  <2> QED
    BY <2>1, <2>2, <2>3, <2>4, <2>5, <2>6, <2>7 DEF WorkWhen, Work, TypeOK
<1>6. load'.active => load'.slot = nextLoad' % 2
  <2>1. /\ load'.active <=> (CanReserve \/ (load.active /\ ~LoadDone(cd, dd)))
        /\ load'.slot = (IF CanReserve THEN CandidateSlot ELSE load.slot)
    BY DEF WorkWhen, Work, LoadStep
  <2>2. nextLoad' = (IF LoadDone(cd, dd) THEN nextLoad + 1 ELSE nextLoad)
    BY DEF WorkWhen, Work
  <2>3. CASE CanReserve
    BY <2>1, <2>2, <2>3 DEF CanReserve, LoadDone, CandidateSlot
  <2>4. CASE ~CanReserve
    BY <2>1, <2>2, <2>4 DEF EnginesInv
  <2> QED
    BY <2>3, <2>4
<1>7. ASSUME NEW s \in Slot
      PROVE  slotState'[s] = "LOADING" <=> (load'.active /\ load'.slot = s)
  <2>1. slotState[s] \in SlotStates
    BY DEF TypeOK
  <2>2. /\ load'.active <=> (CanReserve \/ (load.active /\ ~LoadDone(cd, dd)))
        /\ load'.slot = (IF CanReserve THEN CandidateSlot ELSE load.slot)
    BY DEF WorkWhen, Work, LoadStep
  <2> QED
    BY <2>1, <2>2, <1>1 DEF SlotMove, SlotStates, EnginesInv, CanReserve, LoadDone
<1>8. /\ compute'.pending <=> (CanOffer \/ (compute.pending /\ ~kr))
      /\ compute'.inflight <=> ((compute.inflight \/ (compute.pending /\ kr)) /\ ~(compute.inflight /\ kd))
      /\ compute'.slot = (IF CanOffer THEN FirstOf("LOADED") ELSE compute.slot)
      /\ compute'.activeSlot = (IF compute.pending /\ kr THEN compute.slot ELSE compute.activeSlot)
  BY DEF WorkWhen, Work, ComputeStep, TypeOK
<1>9. ASSUME NEW s \in Slot
      PROVE  slotState'[s] = "COMPUTE" <=> (compute'.inflight /\ compute'.activeSlot = s)
  <2>1. slotState[s] \in SlotStates
    BY DEF TypeOK
  <2> QED
    BY <2>1, <1>8, <1>1 DEF SlotMove, SlotStates, EnginesInv
<1>10. /\ write'.pending <=> (CanQueue \/ (write.pending /\ ~wr))
       /\ write'.inflight <=> ((write.inflight \/ (write.pending /\ wr)) /\ ~(write.inflight /\ wd))
       /\ write'.slot = (IF CanQueue THEN FirstOf("WRITEQ") ELSE write.slot)
  BY DEF WorkWhen, Work, WriteStep, TypeOK
<1>11. ASSUME NEW s \in Slot
       PROVE  slotState'[s] = "WRITING" <=> (write'.inflight /\ write'.slot = s)
  <2>1. slotState[s] \in SlotStates
    BY DEF TypeOK
  <2>2. CASE CanQueue
    BY <2>1, <2>2, <1>10, <1>1 DEF SlotMove, SlotStates, EnginesInv, CanQueue
  <2>3. CASE ~CanQueue
    <3>1. /\ write'.slot = write.slot /\ (write'.pending <=> (write.pending /\ ~wr))
          /\ SlotMove(s, cd, dd, kr, kd, wr, wd)
      BY <2>3, <1>10, <1>1
    <3> QED
      BY <2>1, <3>1, <1>10 DEF SlotMove, SlotStates, EnginesInv
  <2> QED
    BY <2>2, <2>3
<1>12. compute'.pending => ~compute'.inflight /\ slotState'[compute'.slot] = "LOADED"
  <2>1. compute.slot \in Slot
    BY DEF TypeOK
  <2> QED
    BY <2>1, <1>3, <1>8, <1>1 DEF SlotMove, EnginesInv, CanOffer
<1>13. write'.pending => ~write'.inflight /\ slotState'[write'.slot] = "WRITEQ"
  <2>1. write.slot \in Slot
    BY DEF TypeOK
  <2>2. CASE CanQueue
    BY <2>2, <1>4, <1>10, <1>1 DEF SlotMove, CanQueue
  <2>3. CASE ~CanQueue
    <3>1. SlotMove(write.slot, cd, dd, kr, kd, wr, wd)
      BY <2>1, <1>1
    <3> QED
      BY <2>3, <3>1, <1>10 DEF SlotMove, EnginesInv
  <2> QED
    BY <2>2, <2>3
<1> QED
  BY <1>5, <1>6, <1>7, <1>9, <1>11, <1>12, <1>13 DEF EnginesInv

(* What an edge reserves and retires, and where.  Chunks leave from the    *)
(* older slot, and a reservation takes the slot that comes after the       *)
(* chunks on chip.                                                         *)
LEMMA CounterMoves ==
  ASSUME StreamInv,
         NEW cr, NEW cd, NEW dr, NEW dd, NEW kr, NEW kd, NEW wr, NEW wd,
         WorkWhen(cr, cd, dr, dd, kr, kd, wr, wd)
  PROVE  /\ Reserved' = Reserved + (IF CanReserve THEN 1 ELSE 0)
         /\ completeCount' = completeCount + (IF wd THEN 1 ELSE 0)
         /\ OnChip \in 0 .. 2
         /\ CanReserve => /\ nextLoad = completeCount + OnChip
                          /\ \/ OnChip = 0 /\ CandidateSlot = Old
                             \/ OnChip = 1 /\ CandidateSlot = Young
         /\ wd => OnChip >= 1 /\ slotState[Old] = "WRITING" /\ completeCount < nextLoad
         /\ CountersInv'
<1> USE DEF StreamInv
<1>1. nextLoad \in Nat /\ completeCount \in Nat /\ load.active \in BOOLEAN /\ totalChunks \in Nat
  BY DEF TypeOK
<1>2. OnChip \in 0 .. 2 /\ Reserved \in Nat
  BY <1>1 DEF CountersInv, OnChip, Reserved
<1>3. /\ nextLoad' = (IF LoadDone(cd, dd) THEN nextLoad + 1 ELSE nextLoad)
      /\ load'.active <=> (CanReserve \/ (load.active /\ ~LoadDone(cd, dd)))
      /\ completeCount' = completeCount + (IF wd THEN 1 ELSE 0)
  <2>1. nextLoad' = (IF LoadDone(cd, dd) THEN nextLoad + 1 ELSE nextLoad)
    BY DEF WorkWhen, Work
  <2>2. load'.active <=> (CanReserve \/ (load.active /\ ~LoadDone(cd, dd)))
    BY DEF WorkWhen, Work, LoadStep
  <2>3. completeCount' = completeCount + (IF wd THEN 1 ELSE 0)
    BY <1>1 DEF WorkWhen, Work, WriteAwaited
  <2> QED
    BY <2>1, <2>2, <2>3
<1>4. Reserved' = Reserved + (IF CanReserve THEN 1 ELSE 0)
  BY <1>1, <1>3 DEF Reserved, CanReserve, LoadDone
<1>5. CanReserve => /\ nextLoad = completeCount + OnChip
                    /\ (OnChip = 0 /\ CandidateSlot = Old) \/ (OnChip = 1 /\ CandidateSlot = Young)
  <2> SUFFICES ASSUME CanReserve
               PROVE  /\ nextLoad = completeCount + OnChip
                      /\ (OnChip = 0 /\ CandidateSlot = Old) \/ (OnChip = 1 /\ CandidateSlot = Young)
    OBVIOUS
  <2>1. nextLoad = completeCount + OnChip /\ slotState[CandidateSlot] = "EMPTY"
    BY <1>1 DEF CanReserve, OnChip, Reserved
  <2>2. CASE OnChip = 0
    <3>1. nextLoad = completeCount
      BY <2>1, <2>2, <1>1
    <3> QED
      BY <2>1, <2>2, <3>1 DEF CandidateSlot, Old
  <2>3. CASE OnChip = 1
    BY <2>1, <2>3, <1>1, SlotFacts DEF CandidateSlot
  <2>4. OnChip # 2
    BY <2>1, <1>1, SlotFacts DEF CandidateSlot, SlotsInv
  <2> QED
    BY <1>2, <2>1, <2>2, <2>3, <2>4
<1>6. wd => OnChip >= 1 /\ slotState[Old] = "WRITING" /\ completeCount < nextLoad
  <2> SUFFICES ASSUME wd
               PROVE  OnChip >= 1 /\ slotState[Old] = "WRITING" /\ completeCount < nextLoad
    OBVIOUS
  <2>1. write.inflight /\ write.slot \in Slot /\ slotState[write.slot] = "WRITING"
    BY DEF WorkWhen, WriteAwaited, EnginesInv, TypeOK
  <2>2. OnChip >= 1
    BY <2>1, <1>2, SlotFacts DEF SlotsInv
  <2>3. slotState[Old] = "WRITING"
    <3>1. CASE OnChip = 1
      BY <3>1, <2>1, SlotFacts DEF SlotsInv
    <3>2. CASE OnChip = 2
      <4>1. slotState[Old] \in SlotStates
        BY SlotFacts DEF TypeOK
      <4>2. slotState[Young] = "WRITING" => slotState[Old] = "WRITING"
        BY <3>2, <4>1 DEF OrderInv, Rank, SlotStates
      <4> QED
        BY <4>2, <2>1, SlotFacts
    <3> QED
      BY <1>2, <2>2, <3>1, <3>2
  <2>4. completeCount < nextLoad
    <3>1. SUFFICES ASSUME completeCount >= nextLoad PROVE FALSE
      BY <1>1
    <3>2. nextLoad = completeCount /\ load.active /\ OnChip = 1
      BY <3>1, <2>2, <1>1 DEF CountersInv, OnChip, Reserved
    <3>3. slotState[Old] = "LOADING"
      BY <3>2, SlotFacts DEF EnginesInv, Old
    <3> QED
      BY <3>3, <2>3
  <2> QED
    BY <2>2, <2>3, <2>4
<1>7. CountersInv'
  <2>1. bucket' = bucket /\ totalChunks' = totalChunks /\ completeCount < totalChunks
    BY DEF WorkWhen, Work, CountersInv
  <2>2. completeCount' <= nextLoad'
    BY <1>1, <1>3, <1>6 DEF CountersInv
  <2>3. CanReserve => Reserved < totalChunks /\ Reserved < completeCount + 2
    BY <1>1, <1>2, <1>5 DEF CanReserve, Reserved
  <2>4. Reserved' <= totalChunks' /\ Reserved' <= completeCount' + 2
    BY <1>1, <1>2, <1>3, <1>4, <2>1, <2>3 DEF CountersInv
  <2>5. busy' <=> completeCount' < totalChunks'
    <3>1. busy' <=> ~(wd /\ LastWrite)
      BY DEF WorkWhen, Work, WriteAwaited
    <3> QED
      BY <3>1, <1>1, <1>3, <2>1 DEF LastWrite
  <2>6. TotalChunks(bucket.points)' = TotalChunks(bucket.points)
    BY <2>1 DEF TotalChunks
  <2> QED
    BY <2>1, <2>2, <2>4, <2>5, <2>6 DEF CountersInv
<1> QED
  BY <1>2, <1>3, <1>4, <1>5, <1>6, <1>7

(* The chunks on chip move to the older slot as it is written back.        *)
LEMMA WorkSlots ==
  ASSUME StreamInv,
         NEW cr, NEW cd, NEW dr, NEW dd, NEW kr, NEW kd, NEW wr, NEW wd,
         WorkWhen(cr, cd, dr, dd, kr, kd, wr, wd)
  PROVE  SlotsInv'
<1>1. TypeOK /\ SlotsInv /\ EnginesInv
  BY DEF StreamInv
<1>2. /\ SlotMove(Old, cd, dd, kr, kd, wr, wd)
      /\ SlotMove(Young, cd, dd, kr, kd, wr, wd)
  BY <1>1, SlotMoves, SlotFacts
<1>3. /\ Reserved' = Reserved + (IF CanReserve THEN 1 ELSE 0)
      /\ completeCount' = completeCount + (IF wd THEN 1 ELSE 0)
      /\ OnChip \in 0 .. 2
      /\ CanReserve => nextLoad = completeCount + OnChip
      /\ CanReserve => (OnChip = 0 /\ CandidateSlot = Old) \/ (OnChip = 1 /\ CandidateSlot = Young)
      /\ wd => OnChip >= 1 /\ slotState[Old] = "WRITING"
  BY CounterMoves
<1>4. /\ Reserved \in Nat /\ completeCount \in Nat
      /\ OnChip' = OnChip + (IF CanReserve THEN 1 ELSE 0) - (IF wd THEN 1 ELSE 0)
  BY <1>1, <1>3 DEF OnChip, Reserved, TypeOK
<1>5. /\ Old' = (IF wd THEN Young ELSE Old)
      /\ Young' = (IF wd THEN Old ELSE Young)
  BY <1>1, <1>3, <1>4, SlotFacts DEF Old, Young
<1>6. slotState[Old] \in SlotStates /\ slotState[Young] \in SlotStates
  BY <1>1, SlotFacts DEF TypeOK
<1>7. ASSUME NEW s \in Slot
      PROVE  slotOffset'[s] = (IF CanReserve /\ s = CandidateSlot
                               THEN (completeCount + OnChip) * CHUNK_POINTS ELSE slotOffset[s])
  BY <1>1, <1>3 DEF WorkWhen, Work, SlotStep, Updated, TypeOK, LoadOffset
<1>8. CASE ~wd
  <2>1. Old' = Old /\ Young' = Young /\ completeCount' = completeCount
    BY <1>3, <1>4, <1>5, <1>8
  <2>2. OnChip' = OnChip + (IF CanReserve THEN 1 ELSE 0)
    BY <1>3, <1>4, <1>8
  <2>3. /\ slotState'[Old] = "EMPTY" <=> (slotState[Old] = "EMPTY" /\ ~(CanReserve /\ CandidateSlot = Old))
        /\ slotState'[Young] = "EMPTY" <=> (slotState[Young] = "EMPTY" /\ ~(CanReserve /\ CandidateSlot = Young))
    BY <1>2, <1>6, <1>8 DEF SlotMove, SlotStates
  <2>4. Old \in Slot /\ Young \in Slot /\ Old # Young
    BY <1>1, SlotFacts
  <2>5. /\ OnChip' = 0 => slotState'[Old] = "EMPTY"
        /\ OnChip' >= 1 => slotState'[Old] # "EMPTY"
        /\ OnChip' <= 1 => slotState'[Young] = "EMPTY"
        /\ OnChip' = 2 => slotState'[Young] # "EMPTY"
    BY <1>1, <1>3, <2>2, <2>3, <2>4 DEF SlotsInv
  <2>6. /\ OnChip' >= 1 => slotOffset'[Old] = completeCount * CHUNK_POINTS
        /\ OnChip' = 2 => slotOffset'[Young] = (completeCount + 1) * CHUNK_POINTS
    BY <1>1, <1>3, <1>4, <1>7, <2>2, <2>4 DEF SlotsInv
  <2> QED
    BY <2>1, <2>5, <2>6 DEF SlotsInv
<1>9. CASE wd
  <2>1. Old' = Young /\ Young' = Old /\ completeCount' = completeCount + 1
    BY <1>3, <1>4, <1>5, <1>9
  <2>2. OnChip' = OnChip - 1 + (IF CanReserve THEN 1 ELSE 0)
    BY <1>3, <1>4, <1>9
  <2>3. Old \in Slot /\ Young \in Slot /\ Old # Young
    BY <1>1, SlotFacts
  <2>4. slotState'[Old] = "EMPTY" /\ slotState[Young] # "WRITING"
    <3>1. write.inflight /\ write.slot = Old
      BY <1>1, <1>3, <1>9, <2>3 DEF EnginesInv
    <3> QED
      BY <1>1, <1>2, <1>3, <1>9, <2>3, <3>1 DEF SlotMove, EnginesInv
  <2>5. slotState'[Young] = "EMPTY" <=> (slotState[Young] = "EMPTY" /\ ~(CanReserve /\ CandidateSlot = Young))
    BY <1>2, <1>6, <2>4 DEF SlotMove, SlotStates
  <2>6. OnChip = 1 \/ OnChip = 2
    BY <1>3, <1>9
  <2>7. /\ OnChip' = 0 => slotState'[Young] = "EMPTY"
        /\ OnChip' >= 1 => slotState'[Young] # "EMPTY"
        /\ OnChip' <= 1
    BY <1>1, <1>3, <2>2, <2>5, <2>6, <2>3 DEF SlotsInv
  <2>8. OnChip' >= 1 => slotOffset'[Young] = (completeCount + 1) * CHUNK_POINTS
    BY <1>1, <1>3, <1>4, <1>7, <2>2, <2>6, <2>3 DEF SlotsInv
  <2> QED
    BY <2>1, <2>2, <2>4, <2>7, <2>8, <1>3 DEF SlotsInv
<1> QED
  BY <1>8, <1>9

(* The younger chunk stays behind the older: the offer to the computation  *)
(* and the write-back that the older one waits for are made first.         *)
LEMMA WorkOrder ==
  ASSUME StreamInv,
         NEW cr, NEW cd, NEW dr, NEW dd, NEW kr, NEW kd, NEW wr, NEW wd,
         WorkWhen(cr, cd, dr, dd, kr, kd, wr, wd)
  PROVE  OrderInv'
<1> SUFFICES ASSUME OnChip' = 2
             PROVE  /\ Rank(slotState'[Old']) >= Rank(slotState'[Young'])
                    /\ slotState'[Old'] = "LOADED" => compute'.pending /\ compute'.slot = Old'
                    /\ slotState'[Old'] = "WRITEQ"
                         /\ (compute'.pending \/ slotState'[Young'] \in {"COMPUTE", "WRITEQ"})
                       => write'.pending /\ write'.slot = Old'
  BY DEF OrderInv, Rank
<1>1. TypeOK /\ SlotsInv /\ EnginesInv /\ OrderInv
  BY DEF StreamInv
<1>2. /\ SlotMove(Old, cd, dd, kr, kd, wr, wd)
      /\ SlotMove(Young, cd, dd, kr, kd, wr, wd)
  BY <1>1, SlotMoves, SlotFacts
<1>3. /\ Reserved' = Reserved + (IF CanReserve THEN 1 ELSE 0)
      /\ completeCount' = completeCount + (IF wd THEN 1 ELSE 0)
      /\ OnChip \in 0 .. 2
      /\ CanReserve => (OnChip = 0 /\ CandidateSlot = Old) \/ (OnChip = 1 /\ CandidateSlot = Young)
      /\ wd => OnChip >= 1 /\ slotState[Old] = "WRITING"
  BY CounterMoves
<1>4. /\ Reserved \in Nat /\ completeCount \in Nat
      /\ OnChip' = OnChip + (IF CanReserve THEN 1 ELSE 0) - (IF wd THEN 1 ELSE 0)
  BY <1>1, <1>3 DEF OnChip, Reserved, TypeOK
<1>5. ~wd /\ Old' = Old /\ Young' = Young
  BY <1>3, <1>4 DEF Old, Young
<1>6. /\ Old \in Slot /\ Young \in Slot /\ Old # Young
      /\ slotState[Old] \in SlotStates /\ slotState[Young] \in SlotStates
      /\ \A s \in Slot : s = Old \/ s = Young
      /\ compute.slot \in Slot /\ compute.activeSlot \in Slot /\ write.slot \in Slot
      /\ load.slot \in Slot
  BY <1>1, SlotFacts DEF TypeOK
<1>7. /\ compute'.pending <=> (CanOffer \/ (compute.pending /\ ~kr))
      /\ compute'.slot = (IF CanOffer THEN FirstOf("LOADED") ELSE compute.slot)
      /\ write'.pending <=> (CanQueue \/ (write.pending /\ ~wr))
      /\ write'.slot = (IF CanQueue THEN FirstOf("WRITEQ") ELSE write.slot)
  BY DEF WorkWhen, Work, ComputeStep, WriteStep
<1>8. ASSUME NEW st, slotState[Old] = st, slotState[Young] # st
      PROVE  InState(st) # {} /\ FirstOf(st) = Old
  BY <1>6, <1>8 DEF InState, FirstOf, Slot
<1>9. /\ compute.pending => ~compute.inflight /\ slotState[compute.slot] = "LOADED"
      /\ write.pending => ~write.inflight /\ slotState[write.slot] = "WRITEQ"
      /\ compute.inflight => slotState[compute.activeSlot] = "COMPUTE"
      /\ write.inflight => slotState[write.slot] = "WRITING"
      /\ slotState[Old] = "LOADING" => load.active /\ load.slot = Old
      /\ slotState[Young] = "LOADING" => load.active /\ load.slot = Young
      /\ slotState[Old] = "COMPUTE" => compute.inflight /\ compute.activeSlot = Old
      /\ slotState[Young] = "COMPUTE" => compute.inflight /\ compute.activeSlot = Young
      /\ slotState[Old] = "WRITING" => write.inflight /\ write.slot = Old
      /\ slotState[Young] = "WRITING" => write.inflight /\ write.slot = Young
      /\ kd => compute.inflight
  BY <1>1, <1>6 DEF EnginesInv, WorkWhen, ComputeAwaited
<1>10. CASE OnChip = 1
  <2>1. CanReserve /\ CandidateSlot = Young /\ slotState[Young] = "EMPTY"
        /\ slotState[Old] # "EMPTY" /\ ~load.active
    BY <1>1, <1>3, <1>4, <1>5, <1>10 DEF SlotsInv, CanReserve
  <2>2. slotState'[Young] = "LOADING" /\ slotState'[Old] \notin {"EMPTY", "LOADING"}
    BY <1>2, <1>5, <1>6, <1>9, <2>1 DEF SlotMove, SlotStates
  <2>3. Rank(slotState'[Old]) >= Rank(slotState'[Young])
    <3>1. slotState'[Old] \in SlotStates
      BY <1>2, <1>6 DEF SlotMove, SlotStates
    <3> QED
      BY <2>2, <3>1 DEF Rank, SlotStates
  <2>4. slotState'[Old] = "LOADED" => compute'.pending /\ compute'.slot = Old
    <3> SUFFICES ASSUME slotState'[Old] = "LOADED"
                 PROVE  compute'.pending /\ compute'.slot = Old
      OBVIOUS
    <3>1. slotState[Old] = "LOADED" /\ ~(compute.pending /\ compute.slot = Old /\ kr)
      BY <1>2, <1>6, <1>9, <2>1 DEF SlotMove, SlotStates
    <3>2. ~compute.inflight
      BY <1>6, <1>9, <2>1, <3>1
    <3>3. compute.pending => compute.slot = Old
      BY <1>6, <1>9, <2>1
    <3>4. FirstOf("LOADED") = Old /\ InState("LOADED") # {}
      BY <1>8, <2>1, <3>1
    <3> QED
      BY <1>7, <3>1, <3>2, <3>3, <3>4 DEF CanOffer
  <2>5. slotState'[Old] = "WRITEQ" => ~compute'.pending
    <3>1. TypeOK' /\ EnginesInv'
      BY EngineMoves DEF StreamInv
    <3>2. compute'.pending => slotState'[compute'.slot] = "LOADED" /\ compute'.slot \in Slot
      BY <3>1 DEF EnginesInv, TypeOK
    <3> QED
      BY <3>2, <2>2, <1>6
  <2> QED
    BY <2>2, <2>3, <2>4, <2>5, <1>5
<1>11. CASE OnChip = 2
  <2>1. ~CanReserve /\ slotState[Old] # "EMPTY" /\ slotState[Young] # "EMPTY"
        /\ Rank(slotState[Old]) >= Rank(slotState[Young])
        /\ (slotState[Old] = "LOADED" => compute.pending /\ compute.slot = Old)
        /\ (slotState[Old] = "WRITEQ"
              /\ (compute.pending \/ slotState[Young] \in {"COMPUTE", "WRITEQ"})
            => write.pending /\ write.slot = Old)
    BY <1>1, <1>3, <1>11 DEF SlotsInv, OrderInv
  <2>2. slotState[Old] # "LOADING"
    <3>1. slotState[Old] = "LOADING" => slotState[Young] = "LOADING"
      BY <2>1, <1>6 DEF Rank, SlotStates
    <3> QED
      BY <3>1, <1>6, <1>9
  <2>3. CASE slotState[Old] = "LOADED"
    <3>1. slotState[Young] \in {"LOADING", "LOADED"}
      BY <2>1, <2>3, <1>6 DEF Rank, SlotStates
    <3>2. slotState'[Young] \in {"LOADING", "LOADED"}
      BY <1>2, <1>6, <2>1, <2>3, <3>1 DEF SlotMove
    <3>3. slotState'[Old] = (IF kr THEN "COMPUTE" ELSE "LOADED")
      BY <1>2, <2>1, <2>3 DEF SlotMove
    <3>4. ~kr => compute'.pending /\ compute'.slot = Old
      BY <1>7, <2>1, <2>3 DEF CanOffer
    <3> QED
      BY <1>5, <3>2, <3>3, <3>4 DEF Rank
  <2>4. CASE slotState[Old] = "COMPUTE"
    <3>1. slotState[Young] \in {"LOADING", "LOADED"} /\ compute.inflight /\ ~compute.pending
      BY <2>1, <2>4, <1>6, <1>9 DEF Rank, SlotStates
    <3>2. slotState'[Young] \in {"LOADING", "LOADED"}
      BY <1>2, <3>1 DEF SlotMove
    <3>3. slotState'[Old] = (IF kd THEN "WRITEQ" ELSE "COMPUTE")
      BY <1>2, <2>4 DEF SlotMove
    <3>4. ~compute'.pending
      BY <1>7, <3>1 DEF CanOffer
    <3> QED
      BY <1>5, <3>2, <3>3, <3>4 DEF Rank
  <2>5. CASE slotState[Old] = "WRITEQ"
    <3>1. slotState[Young] \in {"LOADING", "LOADED", "COMPUTE", "WRITEQ"}
      BY <2>1, <2>5, <1>6 DEF Rank, SlotStates
    <3>2. slotState'[Young] \in {"LOADING", "LOADED", "COMPUTE", "WRITEQ"}
      <4>1. slotState[Young] = "WRITEQ" => write.pending /\ write.slot = Old
        BY <2>1, <2>5
      <4> QED
        BY <1>2, <1>6, <3>1, <4>1 DEF SlotMove
    <3>3. slotState'[Old] \in {"WRITEQ", "WRITING"}
      BY <1>2, <2>5 DEF SlotMove
    <3>4. Rank(slotState'[Old]) >= Rank(slotState'[Young])
      BY <3>2, <3>3 DEF Rank
    <3>5. slotState'[Old] = "WRITEQ" => write'.pending /\ write'.slot = Old
      <4>1. CASE slotState[Young] = "WRITEQ"
        BY <1>2, <1>7, <2>1, <2>5, <4>1 DEF SlotMove, CanQueue
      <4>2. CASE slotState[Young] # "WRITEQ"
        <5>1. FirstOf("WRITEQ") = Old /\ InState("WRITEQ") # {}
          BY <1>8, <2>5, <4>2
        <5>2. ~write.inflight
          BY <1>6, <1>9, <2>5, <3>1
        <5>3. write.pending => write.slot = Old
          BY <1>6, <1>9, <4>2
        <5> QED
          BY <1>2, <1>7, <2>5, <5>1, <5>2, <5>3 DEF SlotMove, CanQueue
      <4> QED
        BY <4>1, <4>2
    <3> QED
      BY <1>5, <3>3, <3>4, <3>5
  <2>6. CASE slotState[Old] = "WRITING"
    <3>1. slotState'[Old] = "WRITING"
      BY <1>2, <1>5, <2>6 DEF SlotMove
    <3>2. slotState'[Young] \in SlotStates
      BY <1>2, <1>6 DEF SlotMove, SlotStates
    <3> QED
      BY <1>5, <3>1, <3>2 DEF Rank, SlotStates
  <2> QED
    BY <1>6, <2>1, <2>2, <2>3, <2>4, <2>5, <2>6 DEF SlotStates
<1> QED
  BY <1>3, <1>4, <1>5, <1>10, <1>11

-----------------------------------------------------------------------------
(* Nothing is on chip at first, and after a reset. *)
LEMMA InitHolds ==
  ASSUME Init
  PROVE  StreamInv
<1>1. TotalChunks(0) = 0
  BY TotalFacts
<1>2. TypeOK
  BY DEF Init, TypeOK, NoLoad, NoCompute, NoWrite, NoCommand, Command, Slot, SlotStates
<1>3. Reserved = 0 /\ OnChip = 0 /\ Old = 0 /\ Young = 1
  BY DEF Init, NoLoad, Reserved, OnChip, Old, Young
<1>4. CountersInv
  BY <1>1, <1>3 DEF Init, CountersInv
<1>5. EnginesInv
  BY DEF Init, EnginesInv, NoLoad, NoCompute, NoWrite, Slot
<1>6. SlotsInv /\ OrderInv
  BY <1>3 DEF Init, SlotsInv, OrderInv, Slot
<1> QED
  BY <1>2, <1>4, <1>5, <1>6 DEF StreamInv

LEMMA ResetHolds ==
  ASSUME Reset
  PROVE  StreamInv'
<1>1. TotalChunks(0) = 0
  BY TotalFacts
<1>2. TypeOK'
  BY DEF Reset, TypeOK, NoLoad, NoCompute, NoWrite, NoCommand, Command, Slot, SlotStates
<1>3. Reserved' = 0 /\ OnChip' = 0 /\ Old' = 0 /\ Young' = 1
  BY DEF Reset, NoLoad, Reserved, OnChip, Old, Young
<1>4. CountersInv'
  BY <1>1, <1>3 DEF Reset, CountersInv, TotalChunks
<1>5. EnginesInv'
  BY DEF Reset, EnginesInv, NoLoad, NoCompute, NoWrite, Slot
<1>6. SlotsInv' /\ OrderInv'
  BY <1>3 DEF Reset, SlotsInv, OrderInv, Slot
<1> QED
  BY <1>2, <1>4, <1>5, <1>6 DEF StreamInv

LEMMA AcceptHolds ==
  ASSUME StreamInv, NEW request \in Requests, Accept(request)
  PROVE  StreamInv'
<1>1. request \in [coord : Nat, dist : Nat, points : Nat, merge : Nat]
  BY RequestsAssumption
<1>2. /\ TotalChunks(request.points) \in Nat
      /\ TotalChunks(request.points) = 0 <=> request.points = 0
  BY <1>1, TotalFacts
<1>3. TypeOK'
  BY <1>1, <1>2 DEF StreamInv, TypeOK, Accept, Slot, SlotStates
<1>4. /\ ~load'.active /\ ~compute'.pending /\ ~compute'.inflight
      /\ ~write'.pending /\ ~write'.inflight
  BY DEF StreamInv, TypeOK, Accept
<1>5. Reserved' = 0 /\ OnChip' = 0 /\ Old' = 0 /\ Young' = 1
  BY <1>4 DEF Accept, Reserved, OnChip, Old, Young
<1>6. CountersInv'
  <2>1. totalChunks' = TotalChunks(bucket.points)'
    BY DEF Accept, TotalChunks
  <2>2. completeCount' = 0 /\ nextLoad' = 0 /\ totalChunks' \in Nat
    BY <1>2 DEF Accept
  <2>3. busy' <=> 0 < totalChunks'
    <3>1. busy' <=> request.points # 0
      BY DEF Accept
    <3>2. totalChunks' = TotalChunks(request.points)
      BY DEF Accept
    <3> QED
      BY <1>2, <2>2, <3>1, <3>2
  <2> QED
    BY <1>5, <2>1, <2>2, <2>3 DEF CountersInv
<1>7. EnginesInv'
  BY <1>4 DEF Accept, EnginesInv
<1>8. SlotsInv' /\ OrderInv'
  BY <1>5 DEF Accept, SlotsInv, OrderInv, Slot
<1> QED
  BY <1>3, <1>6, <1>7, <1>8 DEF StreamInv

LEMMA WorkHolds ==
  ASSUME StreamInv,
         NEW cr, NEW cd, NEW dr, NEW dd, NEW kr, NEW kd, NEW wr, NEW wd,
         WorkWhen(cr, cd, dr, dd, kr, kd, wr, wd)
  PROVE  StreamInv'
<1>1. TypeOK' /\ EnginesInv'
  BY EngineMoves DEF StreamInv
<1>2. CountersInv'
  BY CounterMoves
<1>3. SlotsInv' /\ OrderInv'
  BY WorkSlots, WorkOrder
<1> QED
  BY <1>1, <1>2, <1>3 DEF StreamInv

(* The invariant speaks of the registers only, and not of done. *)
LEMMA SameRegisters ==
  ASSUME StreamInv, bucketDone' \in BOOLEAN,
         UNCHANGED <<busy, bucket, chunks, slots, engines>>
  PROVE  StreamInv' /\ Computed' = Computed
BY DEF StreamInv, TypeOK, CountersInv, EnginesInv, SlotsInv, OrderInv, Reserved, OnChip,
       Old, Young, TotalChunks, Rank, Computed, IsComputed, chunks, slots, engines

LEMMA NextHolds ==
  ASSUME StreamInv, [Next]_vars
  PROVE  StreamInv'
<1>1. CASE Rest
  BY <1>1, SameRegisters DEF Rest
<1>2. ASSUME NEW request \in Requests, Accept(request) PROVE StreamInv'
  BY <1>2, AcceptHolds
<1>3. ASSUME NEW cr, NEW cd, NEW dr, NEW dd, NEW kr, NEW kd, NEW wr, NEW wd,
             WorkWhen(cr, cd, dr, dd, kr, kd, wr, wd)
      PROVE  StreamInv'
  BY <1>3, WorkHolds
<1>4. CASE Reset
  BY <1>4, ResetHolds
<1>5. CASE UNCHANGED vars
  BY <1>5, SameRegisters DEF vars, StreamInv, TypeOK
<1> QED
  BY <1>1, <1>2, <1>3, <1>4, <1>5 DEF Next, Edge

(* Two chunks on chip are the next to retire and the one after it, so the  *)
(* smaller offset names the older slot.                                    *)
LEMMA OrderFollows ==
  ASSUME StreamInv
  PROVE  ChunksInOrder
<1> SUFFICES ASSUME NEW s \in Slot, NEW t \in Slot, Older(s, t)
             PROVE  /\ Rank(slotState[s]) >= Rank(slotState[t])
                    /\ compute.pending /\ slotState[s] = "LOADED" => compute.slot = s
                    /\ write.pending /\ slotState[s] = "WRITEQ" => write.slot = s
  BY DEF ChunksInOrder
<1>1. TypeOK /\ SlotsInv /\ EnginesInv /\ OrderInv /\ CountersInv
  BY DEF StreamInv
<1>2. OnChip \in 0 .. 2 /\ completeCount \in Nat
  BY <1>1 DEF TypeOK, CountersInv, OnChip, Reserved
<1>3. slotState[s] # "EMPTY" /\ slotState[t] # "EMPTY" /\ slotOffset[s] < slotOffset[t]
  BY DEF Older
<1>4. s # t
  BY <1>1, <1>3 DEF TypeOK
<1>5. OnChip = 2
  BY <1>1, <1>2, <1>3, <1>4, SlotFacts DEF SlotsInv
<1>6. /\ slotOffset[Old] = completeCount * CHUNK_POINTS
      /\ slotOffset[Young] = (completeCount + 1) * CHUNK_POINTS
  BY <1>1, <1>5 DEF SlotsInv
<1>7. ~(slotOffset[Young] < slotOffset[Old])
  BY <1>2, <1>6, SizesAssumption
<1>8. s = Old /\ t = Young
  BY <1>1, <1>3, <1>4, <1>7, SlotFacts
<1>9. write.pending /\ slotState[s] = "WRITEQ" => write.slot = s
  <2> SUFFICES ASSUME write.pending, slotState[Old] = "WRITEQ", write.slot = Young
               PROVE  FALSE
    BY <1>1, <1>8, SlotFacts DEF TypeOK
  <2>1. slotState[Young] = "WRITEQ"
    BY <1>1 DEF EnginesInv
  <2> QED
    BY <1>1, <1>5, <2>1, SlotFacts DEF OrderInv
<1> QED
  BY <1>1, <1>5, <1>8, <1>9 DEF OrderInv

(* The registers of the controller keep their types, the sizes of chunks   *)
(* among them: they never become negative.                                 *)
THEOREM TypeCorrect == Spec => []TypeOK
<1>1. Init => StreamInv
  BY InitHolds
<1>2. StreamInv /\ [Next]_vars => StreamInv'
  BY NextHolds
<1>3. StreamInv => TypeOK
  BY DEF StreamInv
<1> QED
  BY <1>1, <1>2, <1>3, PTL DEF Spec

(* No chunk overtakes an older one, whatever the timing of the engines.    *)
THEOREM OrderKept == Spec => []ChunksInOrder
<1>1. Init => StreamInv
  BY InitHolds
<1>2. StreamInv /\ [Next]_vars => StreamInv'
  BY NextHolds
<1>3. StreamInv => ChunksInOrder
  BY OrderFollows
<1> QED
  BY <1>1, <1>2, <1>3, PTL DEF Spec

-----------------------------------------------------------------------------
(* What an edge adds to the chunks computed. *)
LEMMA WorkAdvances ==
  ASSUME StreamInv,
         NEW cr, NEW cd, NEW dr, NEW dd, NEW kr, NEW kd, NEW wr, NEW wd,
         WorkWhen(cr, cd, dr, dd, kr, kd, wr, wd)
  PROVE  CS!Advance
<1> DEFINE Bit(b) == IF b THEN 1 ELSE 0
           Leaves(s) == slotState[s] = "COMPUTE" /\ kd
<1>1. TypeOK /\ SlotsInv /\ EnginesInv /\ CountersInv
  BY DEF StreamInv
<1>2. /\ SlotMove(Old, cd, dd, kr, kd, wr, wd)
      /\ SlotMove(Young, cd, dd, kr, kd, wr, wd)
  BY <1>1, SlotMoves, SlotFacts
<1>3. /\ completeCount' = completeCount + Bit(wd)
      /\ wd => OnChip >= 1 /\ slotState[Old] = "WRITING"
      /\ OnChip \in 0 .. 2
  BY CounterMoves
<1>4. /\ completeCount \in Nat /\ nextLoad \in Nat /\ totalChunks \in Nat
      /\ load.active \in BOOLEAN
      /\ slotState[Old] \in SlotStates /\ slotState[Young] \in SlotStates
      /\ Old \in Slot /\ Young \in Slot /\ Old # Young
  BY <1>1, SlotFacts DEF TypeOK
<1>5. Computed = completeCount + Bit(IsComputed(Old)) + Bit(IsComputed(Young))
  BY <1>4 DEF Computed, Slot
<1>6. Computed' = completeCount' + Bit(slotState'[Old] \in {"WRITEQ", "WRITING"})
                                 + Bit(slotState'[Young] \in {"WRITEQ", "WRITING"})
  <2>1. /\ completeCount' \in Nat
        /\ (Old = 0 /\ Young = 1) \/ (Old = 1 /\ Young = 0)
    BY <1>3, <1>4 DEF Slot
  <2> QED
    BY <2>1 DEF Computed, IsComputed
<1>7. /\ slotState'[Young] \in {"WRITEQ", "WRITING"} <=> (IsComputed(Young) \/ Leaves(Young))
      /\ slotState'[Old] \in {"WRITEQ", "WRITING"} <=> ((IsComputed(Old) \/ Leaves(Old)) /\ ~wd)
  <2>1. wd => slotState[Young] # "WRITING"
    BY <1>1, <1>3, <1>4 DEF EnginesInv
  <2> QED
    BY <1>2, <1>3, <1>4, <2>1 DEF SlotMove, IsComputed, SlotStates
<1>8. ~(Leaves(Old) /\ Leaves(Young)) /\ ~(IsComputed(Old) /\ Leaves(Old))
      /\ ~(IsComputed(Young) /\ Leaves(Young)) /\ (wd => IsComputed(Old))
  BY <1>1, <1>3, <1>4 DEF EnginesInv, IsComputed
<1>9. Computed' = completeCount + Bit(IsComputed(Old) \/ Leaves(Old))
                                + Bit(IsComputed(Young) \/ Leaves(Young))
  BY <1>3, <1>4, <1>6, <1>7, <1>8
<1>10. Computed' \in {Computed, Computed + 1}
  BY <1>4, <1>5, <1>8, <1>9
<1>11. Computed' <= nextLoad
  <2>1. slotState[Old] \in {"EMPTY", "LOADING"} => ~(IsComputed(Old) \/ Leaves(Old))
    BY DEF IsComputed
  <2>2. slotState[Young] \in {"EMPTY", "LOADING"} => ~(IsComputed(Young) \/ Leaves(Young))
    BY DEF IsComputed
  <2>3. OnChip = nextLoad + Bit(load.active) - completeCount
    BY <1>4 DEF OnChip, Reserved
  <2>4. load.active => slotState[Old] = "LOADING" \/ slotState[Young] = "LOADING"
    BY <1>1, <1>4, SlotFacts DEF EnginesInv, TypeOK
  <2>5. /\ OnChip = 0 => slotState[Old] = "EMPTY" /\ slotState[Young] = "EMPTY"
        /\ OnChip = 1 => slotState[Young] = "EMPTY"
    BY <1>1 DEF SlotsInv
  <2>6. completeCount <= nextLoad
    BY <1>1 DEF CountersInv
  <2> QED
    BY <1>3, <1>4, <1>9, <2>1, <2>2, <2>3, <2>4, <2>5, <2>6
<1>12. completeCount' \in {completeCount, completeCount + 1} /\ completeCount' <= Computed
  BY <1>3, <1>4, <1>5, <1>8
<1>13. /\ nextLoad' \in {nextLoad, nextLoad + 1}
       /\ nextLoad' <= totalChunks /\ nextLoad' <= completeCount + 2
  <2>1. nextLoad' = (IF LoadDone(cd, dd) THEN nextLoad + 1 ELSE nextLoad)
    BY DEF WorkWhen, Work
  <2>2. nextLoad' <= Reserved
    BY <1>4, <2>1 DEF Reserved, LoadDone
  <2>3. Reserved \in Nat /\ Reserved <= totalChunks /\ Reserved <= completeCount + 2
    BY <1>1, <1>4 DEF CountersInv, Reserved
  <2> QED
    BY <1>4, <2>1, <2>2, <2>3
<1>14. totalChunks' = totalChunks /\ bucketDone' = (wd /\ LastWrite) /\ completeCount < totalChunks
  <2>1. wd => write.inflight
    BY DEF WorkWhen, WriteAwaited
  <2>2. busy /\ bucketDone' = (write.inflight /\ wd /\ LastWrite) /\ totalChunks' = totalChunks
    BY DEF WorkWhen, Work
  <2> QED
    BY <1>1, <2>1, <2>2 DEF CountersInv
<1>15. bucketDone' = (completeCount # totalChunks /\ completeCount' = totalChunks)
  <2>1. (wd /\ LastWrite) <=> (completeCount # totalChunks /\ completeCount' = totalChunks)
    BY <1>3, <1>4, <1>14 DEF LastWrite
  <2> QED
    BY <1>14, <2>1
<1> HIDE DEF Bit, Leaves
<1> QED
  BY <1>10, <1>11, <1>12, <1>13, <1>14, <1>15 DEF CS!Advance, CS!Slots

(* The controller is the stream of chunks ChunkStream describes.           *)
THEOREM ChunksStream == Spec => ImplementsStream
<1>1. Init => CS!Init
  BY DEF Init, CS!Init, Computed, IsComputed, Slot
<1>2. StreamInv /\ [Next]_vars => [CS!Next]_(CS!vars)
  <2> SUFFICES ASSUME StreamInv, [Next]_vars
               PROVE  CS!Next \/ UNCHANGED CS!vars
    OBVIOUS
  <2>1. CASE Rest
    <3>1. UNCHANGED <<busy, bucket, chunks, slots, engines>> /\ bucketDone' = FALSE /\ ~busy
      BY <2>1 DEF Rest
    <3>2. Computed' = Computed /\ totalChunks' = totalChunks /\ nextLoad' = nextLoad
          /\ completeCount' = completeCount
      BY <3>1, SameRegisters DEF chunks
    <3>3. /\ completeCount = totalChunks /\ nextLoad = completeCount /\ completeCount \in Nat
      BY <3>1 DEF StreamInv, TypeOK, CountersInv, Reserved
    <3>4. Computed = completeCount
      <4>1. OnChip = 0 \/ load.active
        BY <3>3 DEF OnChip, Reserved
      <4>2. ~load.active
        BY <3>3 DEF StreamInv, CountersInv, Reserved
      <4>3. slotState[Old] = "EMPTY" /\ slotState[Young] = "EMPTY"
        BY <4>1, <4>2 DEF StreamInv, SlotsInv
      <4>4. (Old = 0 /\ Young = 1) \/ (Old = 1 /\ Young = 0)
        BY SlotFacts DEF StreamInv, Slot
      <4> QED
        BY <4>3, <4>4, <3>3 DEF Computed, IsComputed
    <3>5. bucketDone' = (completeCount # totalChunks /\ completeCount' = totalChunks)
      BY <3>1, <3>3
    <3> QED
      BY <3>2, <3>3, <3>4, <3>5 DEF CS!Next, CS!Advance, CS!Slots
  <2>2. ASSUME NEW request \in Requests, Accept(request) PROVE CS!Accept
    <3>1. request.points \in Nat
      BY RequestsAssumption
    <3>2. /\ TotalChunks(request.points) \in Nat
          /\ TotalChunks(request.points) = 0 <=> request.points = 0
      BY <3>1, TotalFacts
    <3>3. completeCount = totalChunks
      BY <2>2 DEF StreamInv, TypeOK, CountersInv, Reserved, Accept
    <3>4. /\ totalChunks' = TotalChunks(request.points) /\ nextLoad' = 0 /\ completeCount' = 0
          /\ slotState' = [s \in Slot |-> "EMPTY"] /\ bucketDone' = (request.points = 0)
      BY <2>2 DEF Accept
    <3>5. Computed' = 0
      BY <3>4 DEF Computed, IsComputed, Slot
    <3>6. bucketDone' = (totalChunks' = 0)
      BY <3>2, <3>4
    <3> QED
      BY <3>2, <3>3, <3>4, <3>5, <3>6 DEF CS!Accept
  <2>3. ASSUME NEW cr, NEW cd, NEW dr, NEW dd, NEW kr, NEW kd, NEW wr, NEW wd,
               WorkWhen(cr, cd, dr, dd, kr, kd, wr, wd)
        PROVE  CS!Advance
    BY <2>3, WorkAdvances
  <2>4. CASE Reset
    <3>1. Computed' = 0
      BY <2>4 DEF Reset, Computed, IsComputed, Slot
    <3> QED
      BY <2>4, <3>1 DEF Reset, CS!Next, CS!Abort
  <2>5. CASE UNCHANGED vars
    BY <2>5 DEF vars, chunks, slots, Computed, IsComputed, CS!vars
  <2> QED
    BY <2>1, <2>2, <2>3, <2>4, <2>5 DEF Next, Edge, CS!Next
<1>3. Init => StreamInv
  BY InitHolds
<1>4. StreamInv /\ [Next]_vars => StreamInv'
  BY NextHolds
<1> QED
  BY <1>1, <1>2, <1>3, <1>4, PTL DEF Spec, ImplementsStream, CS!Spec
=============================================================================
