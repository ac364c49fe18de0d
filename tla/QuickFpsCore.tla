---------------------------- MODULE QuickFpsCore ----------------------------
(***************************************************************************)
(* The functional core of the accelerator: the bucket engine, which walks  *)
(* the buckets of the cloud once per sample and decides for each whether   *)
(* it must be recomputed now (issue), may be recomputed later (defer) or   *)
(* is untouched by the new sample (skip); the point engine, which          *)
(* recomputes one bucket at a time; the two FIFOs between them; and the    *)
(* bucket, merge, distance and result memories they share.                 *)
(*                                                                         *)
(* The two engines advance independently here.  In the RTL one clock steps *)
(* both; the FIFOs decouple them, so every lockstep schedule is one of the *)
(* interleavings.  The point engine is modelled at the grain of a pass     *)
(* over its bucket.  A point stands for its coordinates, and distances are *)
(* values given by the cloud.                                              *)
(***************************************************************************)
EXTENDS Naturals, Sequences, FiniteSets

CONSTANTS
  Clouds,          \* the point clouds the host may load
  Reload(_),       \* the clouds the host may load after cloud c (a bound)
  Points,          \* point indices
  Buckets,         \* bucket indices (BUCKETS)
  BucketOf(_,_),   \* BucketOf(c, p): the leaf the preprocessor put p in
  LastBucket(_),   \* LastBucket(c): bucket_m, the last valid bucket index
  Dist(_,_,_),     \* Dist(c, p, q): squared distance, q a point or Origin
  Gap(_,_,_),      \* Gap(c, q, b): squared distance of q to b's bounding box
  SampleCounts,    \* values of sample_n the host uses (a bound)
  FirstPoints,     \* first samples the host uses (a bound)
  MB_CAP,          \* merge slots per bucket
  FIFO_DEPTH,      \* depth of both FIFOs
  L,               \* references one pass of the point engine can hold
  Inf,             \* the +INF the host writes into the distance memory
  Origin           \* the zero vector, which an empty merge slot reads as

Places == Points \cup {Origin}

ASSUME PointsAssumption ==
  /\ Points \subseteq Nat
  /\ 0 \in Points
  /\ Origin \notin Points

ASSUME BucketsAssumption == Buckets \subseteq Nat /\ 0 \in Buckets

ASSUME SizesAssumption ==
  /\ MB_CAP \in Nat \ {0}
  /\ FIFO_DEPTH \in Nat \ {0}
  /\ L \in Nat \ {0}
  /\ SampleCounts \subseteq Nat
  /\ FirstPoints \subseteq Points

(* Each leaf of the preprocessor holds at least one point, and the leaves  *)
(* of a cloud are numbered without holes.                                  *)
ASSUME CloudAssumption ==
  \A c \in Clouds :
    /\ Reload(c) \subseteq Clouds
    /\ LastBucket(c) \in Buckets
    /\ 0..LastBucket(c) \subseteq Buckets
    /\ \A p \in Points : BucketOf(c, p) \in 0..LastBucket(c)
    /\ \A b \in 0..LastBucket(c) : \E p \in Points : BucketOf(c, p) = b

(* Distances are finite and symmetric, and a bounding box is no farther    *)
(* than any point in it.                                                   *)
ASSUME DistAssumption ==
  /\ Inf \in Nat
  /\ \A c \in Clouds : \A p \in Points :
       /\ \A q \in Places : Dist(c, p, q) \in Nat /\ Dist(c, p, q) < Inf
       /\ \A q \in Points : Dist(c, p, q) = Dist(c, q, p)
       /\ \A b \in Buckets : Gap(c, p, b) \in Nat
       /\ \A q \in Points : Gap(c, q, BucketOf(c, p)) <= Dist(c, p, q)

VARIABLES
  \* the host's side
  cloud, sampleN, p0, start,
  \* the bucket engine's registers
  state, busy, done, cnt, winner, firstIter, sample, pos, issued, collected,
  pend, best,
  \* its registered write ports: at most one write waits for the next edge
  bbPort, mbPort, resPort,
  \* the memories
  bb, mb, mdt, res,
  \* the FIFOs
  bktFifo, fpFifo,
  \* the point engine
  pe, task, pass, refs, far, hold

host    == <<cloud, sampleN, p0, start>>
control == <<state, busy, done, cnt, winner, firstIter, sample>>
walk    == <<pos, issued, collected, pend, best>>
ports   == <<bbPort, mbPort, resPort>>
memory  == <<bb, mb, res>>
point   == <<pe, task, pass, refs, far, hold>>
vars    == <<host, control, walk, ports, memory, mdt, bktFifo, fpFifo, point>>

EngineStates == {"IDLE", "INITP0", "ITERINIT", "FETCH", "ACTION", "NEXT",
                 "TDONE", "COLLECT", "ITEREND", "DONE"}
PointStates  == {"IDLE", "LDMERGE", "STREAM", "COLLECT", "PUSH"}

Entry  == [fdist : Nat, fidx : Points, mcnt : Nat]
Far    == [dist : Nat, idx : Points]
Return == [bid : Buckets, dist : Nat, idx : Points]
Task   == [bid : Buckets, sample : Points, mcnt : Nat]

Members(c, b) == {p \in Points : BucketOf(c, p) = b}

(* The order in which far points are preferred. *)
MutantBetterLargerIndex(dist, idx, d, i) == dist > d \/ (dist = d /\ idx > i)

Better(dist, idx, d, i) == dist > d \/ (dist = d /\ idx < i)

-----------------------------------------------------------------------------
(* Memories and ports.  Every edge of the bucket engine commits the writes *)
(* its previous edge put on the ports.                                     *)

MergePush(ref)  == [clr |-> FALSE, ref |-> ref]
MergeClear(ref) == [clr |-> TRUE,  ref |-> ref]

(* merge_buffer: clear has precedence; a push beyond the capacity is lost. *)
MergeWritten(slots, w) ==
  IF w.clr THEN <<>>
  ELSE IF Len(slots) < MB_CAP THEN Append(slots, w.ref) ELSE slots

MergeRead(b, k) == IF k < Len(mb[b]) THEN mb[b][k + 1] ELSE Origin

(* The result memory, forgotten above the address written last. *)
ResultWritten(r, w) ==
  [i \in 1..(w.addr + 1) |->
     IF i = w.addr + 1 THEN w.idx ELSE IF i <= Len(r) THEN r[i] ELSE Origin]

Committed(mem, port) ==
  IF port = <<>> THEN mem ELSE [mem EXCEPT ![port[1].addr] = port[1].entry]

Results == IF resPort = <<>> THEN res ELSE ResultWritten(res, resPort[1])

Commit ==
  /\ bb' = Committed(bb, bbPort)
  /\ mb' = IF mbPort = <<>> THEN mb
           ELSE [mb EXCEPT ![mbPort[1].addr] =
                             MergeWritten(mb[mbPort[1].addr], mbPort[1].write)]
  /\ res' = Results

Drive(b, m, r) == bbPort' = b /\ mbPort' = m /\ resPort' = r

Quiet == Commit /\ Drive(<<>>, <<>>, <<>>)

-----------------------------------------------------------------------------
(* The host. *)

ZeroEntry == [fdist |-> 0, fidx |-> 0, mcnt |-> 0]

(* An entry as the host writes it: the far point is not known yet, its     *)
(* index is the bucket's first point.  The preprocessor writes +INF for    *)
(* its distance, the end-to-end test bench 0.                              *)
MutantHostEntryPastEnd(c, b, d) ==
  [fdist |-> d,
   fidx  |-> 1 + CHOOSE p \in Members(c, b) : \A r \in Members(c, b) : r <= p,
   mcnt  |-> 0]

HostEntry(c, b, d) ==
  [fdist |-> d,
   fidx  |-> CHOOSE p \in Members(c, b) : \A r \in Members(c, b) : p <= r,
   mcnt  |-> 0]

Init ==
  /\ cloud \in Clouds /\ sampleN = 0 /\ p0 = 0 /\ start = FALSE
  /\ state = "IDLE" /\ busy = FALSE /\ done = FALSE
  /\ cnt = 0 /\ winner = 0 /\ firstIter = FALSE /\ sample = 0
  /\ pos = 0 /\ issued = 0 /\ collected = 0
  /\ pend = [bid |-> 0, entry |-> ZeroEntry, dlb |-> 0, d |-> 0]
  /\ best = [valid |-> FALSE, dist |-> 0, idx |-> 0, bid |-> 0]
  /\ bbPort = <<>> /\ mbPort = <<>> /\ resPort = <<>>
  /\ bb = [b \in Buckets |-> ZeroEntry]
  /\ mb = [b \in Buckets |-> <<>>]
  /\ mdt = [p \in Points |-> Inf]
  /\ res = <<>>
  /\ bktFifo = <<>> /\ fpFifo = <<>>
  /\ pe = "IDLE" /\ pass = 0 /\ refs = {} /\ far = <<>>
  /\ task = [bid |-> 0, sample |-> 0, mcnt |-> 0]
  /\ hold = [bid |-> 0, dist |-> 0, idx |-> 0]

(* The host loads a cloud while the core is neither busy nor done, and     *)
(* raises start.  It cannot write the merge buffer.                        *)
HostStart ==
  /\ ~start /\ ~busy /\ ~done
  /\ cloud' \in Reload(cloud)
  /\ sampleN' \in SampleCounts
  /\ p0' \in FirstPoints
  /\ start' = TRUE
  /\ \E d \in {0, Inf} :
       bb' = [b \in Buckets |->
                IF b <= LastBucket(cloud') THEN HostEntry(cloud', b, d) ELSE bb[b]]
  /\ mdt' = [p \in Points |-> Inf]
  /\ UNCHANGED <<control, walk, ports, mb, res, bktFifo, fpFifo, point>>

(* The host may lower start once the core has seen it. *)
HostRelease ==
  /\ start /\ (busy \/ done)
  /\ start' = FALSE
  /\ UNCHANGED <<cloud, sampleN, p0, control, walk, ports, memory, mdt,
                 bktFifo, fpFifo, point>>

-----------------------------------------------------------------------------
(* The bucket engine, one action per state and outcome. *)

BucketCount == LastBucket(cloud) + 1

(* The winner's bucket is visited first, then the others in order. *)
MutantTravelBidRevisits ==
  IF pos = 0 THEN winner
  ELSE IF pos - 1 <= winner THEN pos - 1 ELSE pos

TravelBid ==
  IF pos = 0 THEN winner
  ELSE IF pos - 1 < winner THEN pos - 1 ELSE pos

MutantEnoughOneMore(k) == k > sampleN

(* The job has its samples once k of them are delivered. *)
Enough(k) == k >= sampleN

Idle ==
  /\ state = "IDLE" /\ ~start /\ done
  /\ done' = FALSE
  /\ Quiet
  /\ UNCHANGED <<host, state, busy, cnt, winner, firstIter, sample, walk, mdt,
                 bktFifo, fpFifo, point>>

Start ==
  /\ state = "IDLE" /\ start
  /\ state' = "INITP0"
  /\ done' = FALSE /\ busy' = TRUE
  /\ cnt' = 1 /\ winner' = 0 /\ sample' = p0
  /\ Commit /\ Drive(<<>>, <<>>, <<[addr |-> 0, idx |-> p0]>>)
  /\ UNCHANGED <<host, firstIter, walk, mdt, bktFifo, fpFifo, point>>

InitP0 ==
  /\ state = "INITP0"
  /\ state' = IF Enough(cnt) THEN "DONE" ELSE "ITERINIT"
  /\ Quiet
  /\ UNCHANGED <<host, busy, done, cnt, winner, firstIter, sample, walk, mdt,
                 bktFifo, fpFifo, point>>

IterInit ==
  /\ state = "ITERINIT"
  /\ state' = "FETCH"
  /\ pos' = 0 /\ issued' = 0 /\ collected' = 0
  /\ best' = [best EXCEPT !.valid = FALSE, !.dist = 0]
  /\ firstIter' = (cnt = 1)
  /\ Quiet
  /\ UNCHANGED <<host, busy, done, cnt, winner, sample, pend, mdt, bktFifo,
                 fpFifo, point>>

(* The addressed entry enters the distance pipe, which answers with it,    *)
(* the distance of the new sample to the bucket's box and to its far point.*)
Fetch ==
  /\ state = "FETCH"
  /\ state' = "ACTION"
  /\ LET e == bb[TravelBid]
     IN  pend' = [bid |-> TravelBid, entry |-> e,
                  dlb |-> Gap(cloud, sample, TravelBid),
                  d   |-> Dist(cloud, e.fidx, sample)]
  /\ Quiet
  /\ UNCHANGED <<host, busy, done, cnt, winner, firstIter, sample, pos, issued,
                 collected, best, mdt, bktFifo, fpFifo, point>>

(* bucket_ib *)
MergeOk    == pend.entry.fdist < pend.d
MutantImplicitOkNoBox == pend.entry.fdist < pend.d
ImplicitOk == pend.entry.fdist < pend.dlb
RawIssue   == firstIter \/ ~MergeOk
RawSkip    == ~firstIter /\ MergeOk /\ ImplicitOk
RawDefer   == ~firstIter /\ MergeOk /\ ~ImplicitOk

(* A bucket whose merge slots are used up is recomputed now. *)
MutantMergeFullOneLate == pend.entry.mcnt > MB_CAP
MergeFull == pend.entry.mcnt >= MB_CAP
ActIssue  == RawIssue \/ (RawDefer /\ MergeFull)
ActDefer  == RawDefer /\ ~MergeFull

(* The running best of the iteration, given a bucket's far point. *)
BestWith(bid, dist, idx) ==
  IF ~best.valid \/ Better(dist, idx, best.dist, best.idx)
  THEN [valid |-> TRUE, dist |-> dist, idx |-> idx, bid |-> bid]
  ELSE best

MutantDescriptorBufferCount ==
  [bid |-> pend.bid, sample |-> sample, mcnt |-> Len(mb[pend.bid])]

Descriptor == [bid |-> pend.bid, sample |-> sample, mcnt |-> pend.entry.mcnt]

Full(fifo) == Len(fifo) >= FIFO_DEPTH

Issue ==
  /\ state = "ACTION" /\ ActIssue
  /\ ~Full(bktFifo)
  /\ bktFifo' = Append(bktFifo, Descriptor)
  /\ issued' = issued + 1
  /\ state' = "NEXT"
  /\ Quiet
  /\ UNCHANGED <<host, busy, done, cnt, winner, firstIter, sample, pos,
                 collected, pend, best, mdt, fpFifo, point>>

Defer ==
  /\ state = "ACTION" /\ ActDefer
  /\ best' = BestWith(pend.bid, pend.entry.fdist, pend.entry.fidx)
  /\ state' = "NEXT"
  /\ Commit
  /\ Drive(<<[addr  |-> pend.bid,
              entry |-> [pend.entry EXCEPT !.mcnt = @ + 1]]>>,
           <<[addr |-> pend.bid, write |-> MergePush(sample)]>>,
           <<>>)
  /\ UNCHANGED <<host, busy, done, cnt, winner, firstIter, sample, pos, issued,
                 collected, pend, mdt, bktFifo, fpFifo, point>>

Skip ==
  /\ state = "ACTION" /\ RawSkip
  /\ best' = BestWith(pend.bid, pend.entry.fdist, pend.entry.fidx)
  /\ state' = "NEXT"
  /\ Quiet
  /\ UNCHANGED <<host, busy, done, cnt, winner, firstIter, sample, pos, issued,
                 collected, pend, mdt, bktFifo, fpFifo, point>>

NextBucket ==
  /\ state = "NEXT"
  /\ IF pos + 1 >= BucketCount
     THEN state' = "TDONE" /\ UNCHANGED pos
     ELSE state' = "FETCH" /\ pos' = pos + 1
  /\ Quiet
  /\ UNCHANGED <<host, busy, done, cnt, winner, firstIter, sample, issued,
                 collected, pend, best, mdt, bktFifo, fpFifo, point>>

TravelDone ==
  /\ state = "TDONE"
  /\ state' = IF issued = 0 THEN "ITEREND" ELSE "COLLECT"
  /\ Quiet
  /\ UNCHANGED <<host, busy, done, cnt, winner, firstIter, sample, walk, mdt,
                 bktFifo, fpFifo, point>>

MutantLastReturnOneLate  == collected >= issued
MutantLastReturnOneEarly == collected + 2 >= issued
LastReturn == collected + 1 >= issued

(* A recomputed far point replaces the bucket's and empties its merge slots.*)
Collect ==
  /\ state = "COLLECT" /\ fpFifo # <<>>
  /\ LET r == Head(fpFifo) IN
     /\ best' = BestWith(r.bid, r.dist, r.idx)
     /\ Commit
     /\ Drive(<<[addr  |-> r.bid,
                 entry |-> [fdist |-> r.dist, fidx |-> r.idx, mcnt |-> 0]]>>,
              <<[addr |-> r.bid, write |-> MergeClear(r.idx)]>>,
              <<>>)
  /\ fpFifo' = Tail(fpFifo)
  /\ collected' = collected + 1
  /\ state' = IF LastReturn THEN "ITEREND" ELSE "COLLECT"
  /\ UNCHANGED <<host, busy, done, cnt, winner, firstIter, sample, pos, issued,
                 pend, mdt, bktFifo, point>>

(* An edge on which a waiting engine only commits its ports. *)
Wait ==
  /\ \/ state = "ACTION" /\ ActIssue /\ Full(bktFifo)
     \/ state = "COLLECT" /\ fpFifo = <<>>
  /\ Quiet
  /\ UNCHANGED <<host, control, walk, mdt, bktFifo, fpFifo, point>>

IterEnd ==
  /\ state = "ITEREND"
  /\ sample' = best.idx
  /\ winner' = best.bid
  /\ IF Enough(cnt + 1)
     THEN state' = "DONE" /\ UNCHANGED cnt
     ELSE state' = "ITERINIT" /\ cnt' = cnt + 1
  /\ Commit /\ Drive(<<>>, <<>>, <<[addr |-> cnt, idx |-> best.idx]>>)
  /\ UNCHANGED <<host, busy, done, firstIter, walk, mdt, bktFifo, fpFifo, point>>

Done ==
  /\ state = "DONE"
  /\ busy' = FALSE /\ done' = TRUE
  /\ state' = IF start THEN "DONE" ELSE "IDLE"
  /\ Quiet
  /\ UNCHANGED <<host, cnt, winner, firstIter, sample, walk, mdt, bktFifo,
                 fpFifo, point>>

BucketEngine ==
  \/ Idle \/ Start \/ InitP0 \/ IterInit \/ Fetch \/ Issue \/ Defer \/ Skip
  \/ NextBucket \/ TravelDone \/ Collect \/ Wait \/ IterEnd \/ Done

-----------------------------------------------------------------------------
(* The point engine. *)

NumPasses == (task.mcnt + 1 + L - 1) \div L
LastPass  == pass + 1 = NumPasses

Accept ==
  /\ pe = "IDLE" /\ bktFifo # <<>>
  /\ task' = Head(bktFifo)
  /\ bktFifo' = Tail(bktFifo)
  /\ pass' = 0
  /\ pe' = "LDMERGE"
  /\ UNCHANGED <<host, control, walk, ports, memory, mdt, fpFifo, refs, far, hold>>

(* Slot k of a task: its merges first, then the sample it was issued for.  *)
(* Slots beyond it are loaded with +INF and leave every distance as it is. *)
Reference(k) == IF k < task.mcnt THEN MergeRead(task.bid, k) ELSE task.sample

(* The max tree is cleared for the last pass: only final distances count. *)
TreeAtLoad == IF LastPass THEN <<>> ELSE far

LoadMerge ==
  /\ pe = "LDMERGE"
  /\ refs' = {Reference(k) : k \in {j \in pass * L .. pass * L + L - 1 : j <= task.mcnt}}
  /\ far' = TreeAtLoad
  /\ pe' = "STREAM"
  /\ UNCHANGED <<host, control, walk, ports, memory, mdt, bktFifo, fpFifo, task,
                 pass, hold>>

(* The nearest of the old distance and the distances to the references. *)
Nearest(p) ==
  CHOOSE d \in {mdt[p]} \cup {Dist(cloud, p, q) : q \in refs} :
    /\ d <= mdt[p]
    /\ \A q \in refs : d <= Dist(cloud, p, q)

(* The max tree: the best of what it holds and the rows streamed past it. *)
FarthestRow(rows) ==
  CHOOSE f \in rows :
    \A g \in rows : g = f \/ Better(f.dist, f.idx, g.dist, g.idx)

Tree(rows) == IF rows = {} THEN <<>> ELSE <<FarthestRow(rows)>>

(* All points of the bucket pass through the array: their distances are    *)
(* written back and the max tree sees them.                                *)
Stream ==
  /\ pe = "STREAM"
  /\ LET b == Members(cloud, task.bid)
         rows == {[dist |-> Nearest(p), idx |-> p] : p \in b}
     IN
     /\ mdt' = [p \in Points |-> IF p \in b THEN Nearest(p) ELSE mdt[p]]
     /\ far' = Tree(rows \cup {far[i] : i \in DOMAIN far})
  /\ IF LastPass
     THEN pe' = "COLLECT" /\ UNCHANGED pass
     ELSE pe' = "LDMERGE" /\ pass' = pass + 1
  /\ UNCHANGED <<host, control, walk, ports, memory, bktFifo, fpFifo, task, refs,
                 hold>>

CollectFar ==
  /\ pe = "COLLECT" /\ far # <<>>
  /\ hold' = [bid |-> task.bid, dist |-> far[1].dist, idx |-> far[1].idx]
  /\ pe' = "PUSH"
  /\ UNCHANGED <<host, control, walk, ports, memory, mdt, bktFifo, fpFifo, task,
                 pass, refs, far>>

Push ==
  /\ pe = "PUSH" /\ ~Full(fpFifo)
  /\ fpFifo' = Append(fpFifo, hold)
  /\ pe' = "IDLE"
  /\ UNCHANGED <<host, control, walk, ports, memory, mdt, bktFifo, task, pass,
                 refs, far, hold>>

PointEngine == Accept \/ LoadMerge \/ Stream \/ CollectFar \/ Push

-----------------------------------------------------------------------------
(* Reset, at any time.  It clears every register and the merge counts, and *)
(* leaves the contents of the other memories.  The host's start register   *)
(* is in the same reset domain.                                            *)
Reset ==
  /\ start' = FALSE
  /\ state' = "IDLE" /\ busy' = FALSE /\ done' = FALSE
  /\ cnt' = 0 /\ winner' = 0 /\ firstIter' = FALSE /\ sample' = 0
  /\ pos' = 0 /\ issued' = 0 /\ collected' = 0
  /\ pend' = [bid |-> 0, entry |-> ZeroEntry, dlb |-> 0, d |-> 0]
  /\ best' = [valid |-> FALSE, dist |-> 0, idx |-> 0, bid |-> 0]
  /\ Drive(<<>>, <<>>, <<>>)
  /\ mb' = [b \in Buckets |-> <<>>]
  /\ bktFifo' = <<>> /\ fpFifo' = <<>>
  /\ pe' = "IDLE" /\ pass' = 0 /\ refs' = {} /\ far' = <<>>
  /\ task' = [bid |-> 0, sample |-> 0, mcnt |-> 0]
  /\ hold' = [bid |-> 0, dist |-> 0, idx |-> 0]
  /\ UNCHANGED <<cloud, sampleN, p0, bb, mdt, res>>

Next == HostStart \/ HostRelease \/ BucketEngine \/ PointEngine \/ Reset

(* The clock never stops: an engine that can advance does. *)
Fairness == WF_vars(BucketEngine) /\ WF_vars(PointEngine)

Spec == Init /\ [][Next]_vars /\ Fairness

-----------------------------------------------------------------------------
(* Properties. *)

HostType ==
  cloud \in Clouds /\ sampleN \in Nat /\ p0 \in Points /\ start \in BOOLEAN

ControlType ==
  /\ state \in EngineStates /\ busy \in BOOLEAN /\ done \in BOOLEAN
  /\ cnt \in Nat /\ winner \in Buckets /\ firstIter \in BOOLEAN /\ sample \in Points

WalkType ==
  /\ pos \in Nat /\ issued \in Nat /\ collected \in Nat
  /\ pend \in [bid : Buckets, entry : Entry, dlb : Nat, d : Nat]
  /\ best \in [valid : BOOLEAN, dist : Nat, idx : Points, bid : Buckets]

BucketWrite == [addr : Buckets, entry : Entry]
MergeWrite  == [addr : Buckets, write : [clr : BOOLEAN, ref : Points]]
ResultWrite == [addr : Nat, idx : Points]

PortType ==
  /\ bbPort  \in Seq(BucketWrite) /\ Len(bbPort) <= 1
  /\ mbPort  \in Seq(MergeWrite)  /\ Len(mbPort) <= 1
  /\ resPort \in Seq(ResultWrite) /\ Len(resPort) <= 1

MemoryType ==
  /\ bb \in [Buckets -> Entry]
  /\ mb \in [Buckets -> Seq(Points)]
  /\ res \in Seq(Places)

PointType ==
  /\ mdt \in [Points -> Nat]
  /\ pe \in PointStates /\ task \in Task /\ pass \in Nat
  /\ refs \subseteq Places
  /\ far \in Seq(Far) /\ Len(far) <= 1
  /\ hold \in Return

FifoType == bktFifo \in Seq(Task) /\ fpFifo \in Seq(Return)

(* Every register and memory holds a value of its type and a port at most  *)
(* one write.  That needs the walk to stay inside the loaded cloud's       *)
(* buckets and the far point of a bucket to exist.                         *)
TypeOK ==
  HostType /\ ControlType /\ WalkType /\ PortType /\ MemoryType /\ PointType
  /\ FifoType

InFlight == Len(bktFifo) + (IF pe = "IDLE" THEN 0 ELSE 1) + Len(fpFifo)

OutstandingTasks ==
  {bktFifo[i] : i \in DOMAIN bktFifo} \cup (IF pe = "IDLE" THEN {} ELSE {task})

OutstandingBuckets ==
  {t.bid : t \in OutstandingTasks} \cup {fpFifo[i].bid : i \in DOMAIN fpFifo}

Travelling == state \in {"FETCH", "ACTION", "NEXT", "TDONE", "COLLECT"}

(* The collector stops after as many returns as it issued (bucket_engine.v *)
(* "collect_cnt + 1 >= issued_cnt"): that is sound because every issued    *)
(* bucket is in exactly one place on its way round and none is issued      *)
(* twice in an iteration.  None is left over when the iteration ends.      *)
ReturnsMatchIssues ==
  /\ IF Travelling THEN issued = collected + InFlight ELSE InFlight = 0
  /\ Cardinality(OutstandingBuckets) = InFlight

(* What a descriptor in flight refers to does not move: the merge slots it *)
(* counts are all there, they are all the bucket has (but for slots left   *)
(* by an earlier job, which the first iteration ignores), they are samples *)
(* of this job, and no write to that bucket is under way.                  *)
FrozenReferences ==
  /\ \A t \in OutstandingTasks :
       /\ t.sample = sample
       /\ IF firstIter THEN t.mcnt = 0 ELSE t.mcnt = Len(mb[t.bid])
       /\ \A k \in 1..t.mcnt : \E i \in 1..cnt - 1 : mb[t.bid][k] = Results[i]
  /\ \A i \in DOMAIN bbPort : bbPort[i].addr \notin OutstandingBuckets
  /\ \A i \in DOMAIN mbPort : mbPort[i].addr \notin OutstandingBuckets

(* A push never meets a full merge buffer (merge_buffer.v, "merge_buffer   *)
(* overflow"), although the count the engine tests is the bucket entry's   *)
(* and not the merge buffer's own.                                         *)
MergeNeverOverflows ==
  \A i \in DOMAIN mbPort :
    ~mbPort[i].write.clr => Len(mb[mbPort[i].addr]) < MB_CAP

(* The host may load the memories whenever the core is not busy: nothing   *)
(* of the last job is still on its way to one of them                      *)
(* (quickfps_core_top.v, "bucket-buffer write collision").                 *)
QuietWhenNotBusy ==
  ~busy => /\ bbPort = <<>> /\ mbPort = <<>> /\ resPort = <<>>
           /\ InFlight = 0

(* m is the distance of p to the nearest of the sampled points S. *)
IsNearest(S, p, m) ==
  /\ \A q \in S : m <= Dist(cloud, p, q)
  /\ \E q \in S : m = Dist(cloud, p, q)

(* Between iterations the deferred and skipped work is all accounted for:  *)
(* the distance memory together with the pending merges of a bucket gives  *)
(* every point's distance to the samples already walked, and the bucket's  *)
(* entry names its exact far point, without having visited the points.     *)
SummariesExact ==
  state = "ITERINIT" /\ cnt > 1 =>
    LET S == {Results[i] : i \in 1..cnt - 1}
    IN  \A b \in 0..LastBucket(cloud) :
          LET e == bb[b]
              merges == {mb[b][i] : i \in DOMAIN mb[b]}
              known(p) == {mdt[p]} \cup {Dist(cloud, p, q) : q \in merges}
          IN  /\ e.mcnt = Len(mb[b])
              /\ e.fidx \in Members(cloud, b)
              /\ IsNearest(S, e.fidx, e.fdist)
              /\ \A p \in Members(cloud, b) :
                   \E m \in known(p) :
                     /\ \A n \in known(p) : m <= n
                     /\ IsNearest(S, p, m)
                     /\ p = e.fidx \/ Better(e.fdist, e.fidx, m, p)

(* A job ends unless it is reset: neither engine waits for ever on the     *)
(* other through the two FIFOs (quickfps_core_top.v, "avoid a structural   *)
(* deadlock").                                                             *)
JobCompletes == busy ~> ~busy

(* The samples of the current job that the result memory holds. *)
Delivered == IF state = "IDLE" /\ ~done THEN <<>> ELSE Results

(* The core implements farthest-point sampling: pruned, deferred and       *)
(* recomputed in any order, it delivers the samples of the definition, and *)
(* done is raised only over a complete result memory.                      *)
FPS == INSTANCE FarthestPoint
         WITH goal <- sampleN, sampled <- Delivered, finished <- done
ExactSampling == FPS!Spec
=============================================================================
