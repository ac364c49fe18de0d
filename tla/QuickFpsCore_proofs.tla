------------------------- MODULE QuickFpsCore_proofs -------------------------
(***************************************************************************)
(* Theorems about QuickFpsCore, for every cloud, every metric with a sound *)
(* box bound, every number of points, buckets and merge slots, every FIFO  *)
(* depth and every schedule of the two engines: its types, its account of  *)
(* the work handed out, and that it samples exactly.                       *)
(***************************************************************************)
EXTENDS QuickFpsCore, WellFoundedInduction, FiniteSetTheorems, SequenceTheorems, TLAPS

-----------------------------------------------------------------------------
(* A non-empty set of naturals has a least element. *)

LEMMA NatLess == IsWellFoundedOn({ss \in Nat \X Nat : ss[1] < ss[2]}, Nat)
BY NatLessThanWellFounded, Zenon DEF OpToRel

(* The least element is found by well-foundedness of <.                    *)
LEMMA NatMin ==
  ASSUME NEW S, S \subseteq Nat, S # {}
  PROVE  \E x \in S : \A y \in S : x <= y
<1> DEFINE R == {ss \in Nat \X Nat : ss[1] < ss[2]}
<1>1. PICK x \in S : \A y \in S : ~(<<y, x>> \in R)
  <2> HIDE DEF R
  <2>1. IsWellFoundedOn(R, Nat) BY NatLess DEF R
  <2> QED  BY <2>1, WFMin, Zenon
<1>2. \A y \in S : ~(y < x)
  BY <1>1
<1> QED BY <1>1, <1>2

(* The distance the array computes for a point is the least of those it    *)
(* compares.                                                               *)
LEMMA NearestIsLeast ==
  ASSUME NEW p \in Points, mdt \in [Points -> Nat],
         \A q \in refs : Dist(cloud, p, q) \in Nat
  PROVE  /\ Nearest(p) \in {mdt[p]} \cup {Dist(cloud, p, q) : q \in refs}
         /\ Nearest(p) \in Nat
         /\ Nearest(p) <= mdt[p]
         /\ \A q \in refs : Nearest(p) <= Dist(cloud, p, q)
<1> DEFINE S == {mdt[p]} \cup {Dist(cloud, p, q) : q \in refs}
<1>1. S \subseteq Nat /\ S # {}
  OBVIOUS
<1>2. \E x \in S : \A y \in S : x <= y
  <2> HIDE DEF S
  <2> QED BY <1>1, NatMin
<1>3. \E d \in S : d <= mdt[p] /\ \A q \in refs : d <= Dist(cloud, p, q)
  BY <1>2
<1>4. /\ Nearest(p) \in S
      /\ Nearest(p) <= mdt[p]
      /\ \A q \in refs : Nearest(p) <= Dist(cloud, p, q)
  BY <1>3 DEF Nearest
<1> QED BY <1>1, <1>4

(* A max tree that has seen a row holds the best row it has seen. *)
LEMMA FarthestExists ==
  ASSUME NEW rows, rows \subseteq Far, rows # {},
         \A f \in rows : f.dist <= Inf
  PROVE  /\ FarthestRow(rows) \in rows
         /\ \A g \in rows : \/ g = FarthestRow(rows)
                            \/ Better(FarthestRow(rows).dist, FarthestRow(rows).idx,
                                      g.dist, g.idx)
<1>0. Inf \in Nat /\ Points \subseteq Nat
  BY DistAssumption, PointsAssumption
<1> DEFINE D == {Inf - f.dist : f \in rows}
<1>1. D \subseteq Nat /\ D # {}
  BY <1>0 DEF Far
<1>2. PICK x \in D : \A y \in D : x <= y
  <2> HIDE DEF D
  <2> QED BY <1>1, NatMin
<1> DEFINE T == {f \in rows : Inf - f.dist = x}
           I == {f.idx : f \in T}
<1>3. I \subseteq Nat /\ I # {}
  BY <1>0, <1>2 DEF Far
<1>4. PICK i \in I : \A j \in I : i <= j
  <2> HIDE DEF I
  <2> QED BY <1>3, NatMin
<1>5. PICK f \in T : f.idx = i
  BY <1>4
<1>6. ASSUME NEW g \in rows
      PROVE  g = f \/ Better(f.dist, f.idx, g.dist, g.idx)
  <2>0. f \in Far /\ g \in Far /\ f.dist <= Inf /\ g.dist <= Inf
    BY <1>5
  <2>1. g.dist <= f.dist
    <3>1. x = Inf - f.dist /\ Inf - g.dist \in D
      BY <1>5
    <3>2. x <= Inf - g.dist
      BY <1>2, <3>1
    <3> QED BY <1>0, <2>0, <3>1, <3>2 DEF Far
  <2>2. CASE g.dist < f.dist
    BY <2>2 DEF Better, Far
  <2>3. CASE g.dist = f.dist
    <3>1. g \in T
      BY <1>5, <2>3
    <3>2. f.idx <= g.idx
      BY <1>4, <1>5, <3>1
    <3>3. f.idx \in Nat /\ g.idx \in Nat
      BY <1>0, <2>0 DEF Far
    <3>4. CASE f.idx < g.idx
      BY <2>3, <3>4 DEF Better
    <3>5. CASE f.idx = g.idx
      BY <2>0, <2>3, <3>5 DEF Far
    <3> QED BY <3>2, <3>3, <3>4, <3>5
  <2> QED BY <2>0, <2>1, <2>2, <2>3 DEF Far
<1>7. \E ff \in rows : \A g \in rows :
        g = ff \/ Better(ff.dist, ff.idx, g.dist, g.idx)
  BY <1>5, <1>6
<1> QED BY <1>7 DEF FarthestRow

-----------------------------------------------------------------------------
(* Types.  TypeOK is not inductive: an engine must not read a bucket entry *)
(* beyond the loaded cloud's last bucket, which holds because the walk     *)
(* stops there and the cloud does not change while it lasts; and the max   *)
(* tree must have a maximum, which holds because distances stay below Inf. *)

Bounded ==
  /\ \A p \in Points : mdt[p] <= Inf
  /\ \A i \in DOMAIN far : far[i].dist <= Inf

WalkInCloud ==
  /\ state # "IDLE" => busy \/ done
  /\ state \in {"FETCH", "ACTION", "NEXT"} => pos <= LastBucket(cloud)

TypeInv == TypeOK /\ Bounded /\ WalkInCloud

(* The constants a step may write are of the types of its registers.       *)
LEMMA ConstantTypes ==
  /\ 0 \in Points /\ 0 \in Buckets /\ Points \subseteq Nat /\ Buckets \subseteq Nat
  /\ Inf \in Nat /\ L \in Nat \ {0} /\ MB_CAP \in Nat /\ FIFO_DEPTH \in Nat \ {0}
  /\ SampleCounts \subseteq Nat /\ FirstPoints \subseteq Points
  /\ Points \subseteq Places
BY PointsAssumption, BucketsAssumption, SizesAssumption, DistAssumption DEF Places

(* The types hold after power-up.                                          *)
LEMMA InitTypes == Init => TypeInv
<1> SUFFICES ASSUME Init PROVE TypeInv
  OBVIOUS
<1> USE ConstantTypes
<1>1. HostType /\ ControlType /\ WalkType
  BY DEF Init, HostType, ControlType, WalkType, ZeroEntry, Entry, EngineStates
<1>2. PortType /\ MemoryType /\ FifoType
  BY DEF Init, PortType, MemoryType, FifoType, ZeroEntry, Entry
<1>3. PointType
  BY DEF Init, PointType, PointStates, Task, Return
<1>4. Bounded /\ WalkInCloud
  BY DEF Init, Bounded, WalkInCloud
<1> QED BY <1>1, <1>2, <1>3, <1>4 DEF TypeInv, TypeOK

(* The bucket entries and the merge slots once the ports are committed, as *)
(* Results is for the result memory.  An edge of the bucket engine makes   *)
(* them the contents of the memories.                                      *)
Entries == Committed(bb, bbPort)

Slots ==
  IF mbPort = <<>> THEN mb
  ELSE [mb EXCEPT ![mbPort[1].addr] =
                    MergeWritten(mb[mbPort[1].addr], mbPort[1].write)]

(* The memories keep their types when a port is committed.                 *)
LEMMA ViewTypes ==
  ASSUME PortType, MemoryType
  PROVE  /\ Entries \in [Buckets -> Entry]
         /\ Slots \in [Buckets -> Seq(Points)]
         /\ Results \in Seq(Places)
<1> USE ConstantTypes
<1>1. Entries \in [Buckets -> Entry]
  <2>1. CASE bbPort = <<>>
    BY <2>1 DEF Entries, Committed, MemoryType
  <2>2. CASE bbPort # <<>>
    <3>1. bbPort[1] \in BucketWrite
      BY <2>2 DEF PortType
    <3> QED BY <2>2, <3>1 DEF Entries, Committed, MemoryType, BucketWrite
  <2> QED BY <2>1, <2>2
<1>2. Slots \in [Buckets -> Seq(Points)]
  <2>1. CASE mbPort = <<>>
    BY <2>1 DEF Slots, MemoryType
  <2>2. CASE mbPort # <<>>
    <3>1. mbPort[1] \in MergeWrite
      BY <2>2 DEF PortType
    <3>2. mbPort[1].addr \in Buckets /\ mbPort[1].write.ref \in Points
      BY <3>1 DEF MergeWrite
    <3>3. mb[mbPort[1].addr] \in Seq(Points)
      BY <3>2 DEF MemoryType
    <3>4. MergeWritten(mb[mbPort[1].addr], mbPort[1].write) \in Seq(Points)
      <4> HIDE DEF MemoryType, PortType
      <4> QED BY <3>2, <3>3 DEF MergeWritten
    <3> QED BY <2>2, <3>2, <3>4 DEF Slots, MemoryType
  <2> QED BY <2>1, <2>2
<1>3. Results \in Seq(Places)
  <2>1. CASE resPort = <<>>
    BY <2>1 DEF Results, MemoryType
  <2>2. CASE resPort # <<>>
    <3> DEFINE w == resPort[1]
    <3>1. w \in ResultWrite
      BY <2>2 DEF PortType
    <3>2. w.addr \in Nat /\ w.idx \in Places
      BY <3>1 DEF ResultWrite
    <3>3. Results = ResultWritten(res, w)
      BY <2>2 DEF Results
    <3>4. \A i \in 1..(w.addr + 1) :
            (IF i = w.addr + 1 THEN w.idx
             ELSE IF i <= Len(res) THEN res[i] ELSE Origin) \in Places
      BY <3>2 DEF MemoryType, Places
    <3> HIDE DEF w
    <3> QED BY <3>2, <3>3, <3>4 DEF ResultWritten
  <2> QED BY <2>1, <2>2
<1> QED BY <1>1, <1>2, <1>3

(* What an edge of the bucket engine commits. *)
LEMMA CommitTypes ==
  ASSUME PortType, MemoryType, Commit
  PROVE  MemoryType'
<1>1. bb' = Entries /\ mb' = Slots /\ res' = Results
  BY DEF Commit, Entries, Slots
<1> QED BY <1>1, ViewTypes DEF MemoryType

(* An edge that drives no port commits the last edge's writes.             *)
LEMMA QuietTypes ==
  ASSUME PortType, MemoryType, Quiet
  PROVE  MemoryType' /\ PortType'
<1>1. MemoryType'
  BY CommitTypes DEF Quiet
<1>2. PortType'
  BY DEF Quiet, Drive, PortType
<1> QED BY <1>1, <1>2

(* The engine's running best. *)
LEMMA BestTypes ==
  ASSUME WalkType, NEW bid \in Buckets, NEW dist \in Nat, NEW idx \in Points
  PROVE  BestWith(bid, dist, idx)
           \in [valid : BOOLEAN, dist : Nat, idx : Points, bid : Buckets]
BY DEF BestWith, WalkType

(* The bucket visited at a position of the walk is one of the cloud's. *)
LEMMA TravelBidInCloud ==
  ASSUME TypeInv, state \in {"FETCH", "ACTION", "NEXT"}
  PROVE  TravelBid \in Buckets
<1>1. cloud \in Clouds /\ winner \in Nat /\ winner \in Buckets /\ pos \in Nat
      /\ pos <= LastBucket(cloud)
  BY ConstantTypes DEF TypeInv, TypeOK, HostType, ControlType, WalkType, WalkInCloud
<1>2. LastBucket(cloud) \in Nat /\ 0..LastBucket(cloud) \subseteq Buckets
  BY <1>1, CloudAssumption, ConstantTypes
<1> QED BY <1>1, <1>2 DEF TravelBid

(* The steps of the bucket engine that touch neither a FIFO nor the best   *)
(* far point nor put a write on a port.                                    *)
LEMMA QuietStepTypes ==
  ASSUME TypeInv,
         Idle \/ InitP0 \/ IterInit \/ Fetch \/ NextBucket \/ TravelDone
           \/ Wait \/ Done
  PROVE  TypeInv'
<1> USE DEF TypeInv, TypeOK
<1>1. Quiet /\ UNCHANGED <<host, mdt, bktFifo, fpFifo, point>>
  BY DEF Idle, InitP0, IterInit, Fetch, NextBucket, TravelDone, Wait, Done
<1>2. MemoryType' /\ PortType'
  BY <1>1, QuietTypes
<1>3. HostType' /\ PointType' /\ FifoType' /\ Bounded'
  BY <1>1 DEF HostType, PointType, FifoType, Bounded, host, point
<1>4. ControlType'
  BY DEF Idle, InitP0, IterInit, Fetch, NextBucket, TravelDone, Wait, Done,
         ControlType, EngineStates, control
<1>5. WalkType'
  <2>1. CASE Fetch
    <3>1. TravelBid \in Buckets /\ bb[TravelBid] \in Entry
      BY <2>1, TravelBidInCloud DEF Fetch, MemoryType
    <3>2. /\ Gap(cloud, sample, TravelBid) \in Nat
          /\ Dist(cloud, bb[TravelBid].fidx, sample) \in Nat
      BY <3>1, DistAssumption, ConstantTypes DEF HostType, ControlType, Entry
    <3> QED BY <2>1, <3>1, <3>2 DEF Fetch, WalkType
  <2>2. CASE IterInit
    BY <2>2 DEF IterInit, WalkType
  <2>3. CASE Idle \/ InitP0 \/ NextBucket \/ TravelDone \/ Wait \/ Done
    BY <2>3 DEF Idle, InitP0, NextBucket, TravelDone, Wait, Done, WalkType, walk
  <2> QED BY <2>1, <2>2, <2>3
<1>6. WalkInCloud'
  <2>1. cloud \in Clouds /\ cloud' = cloud /\ LastBucket(cloud) \in Nat
    BY <1>1, CloudAssumption, ConstantTypes DEF HostType, host
  <2>2. CASE NextBucket
    BY <2>1, <2>2 DEF NextBucket, BucketCount, WalkInCloud, WalkType
  <2>3. CASE IterInit
    BY <2>1, <2>3 DEF IterInit, WalkInCloud
  <2>4. CASE Fetch \/ Wait
    BY <2>1, <2>4 DEF Fetch, Wait, WalkInCloud, control, walk
  <2>5. CASE Idle \/ InitP0 \/ TravelDone \/ Done
    BY <2>1, <2>5 DEF Idle, InitP0, TravelDone, Done, WalkInCloud, walk
  <2> QED BY <2>2, <2>3, <2>4, <2>5
<1> QED BY <1>2, <1>3, <1>4, <1>5, <1>6

(* Accepting a job: the first sample goes to the result port.              *)
LEMMA StartTypes ==
  ASSUME TypeInv, Start \/ IterEnd
  PROVE  TypeInv'
<1> USE DEF TypeInv, TypeOK
<1>1. HostType' /\ PointType' /\ FifoType' /\ Bounded' /\ WalkInCloud'
  BY DEF Start, IterEnd, HostType, PointType, FifoType, Bounded, WalkInCloud,
         host, point, walk
<1>2. MemoryType'
  BY CommitTypes DEF Start, IterEnd
<1>3. PortType'
  <2>1. \E w \in ResultWrite : Drive(<<>>, <<>>, <<w>>)
    <3>1. /\ [addr |-> 0, idx |-> p0] \in ResultWrite
          /\ [addr |-> cnt, idx |-> best.idx] \in ResultWrite
      BY DEF HostType, ControlType, WalkType, ResultWrite
    <3> QED BY <3>1 DEF Start, IterEnd
  <2> QED BY <2>1 DEF Drive, PortType
<1>4. ControlType'
  <2>1. CASE Start
    BY <2>1, ConstantTypes DEF Start, ControlType, HostType, EngineStates
  <2>2. CASE IterEnd
    BY <2>2 DEF IterEnd, ControlType, WalkType, EngineStates
  <2> QED BY <2>1, <2>2
<1>5. WalkType'
  BY DEF Start, IterEnd, WalkType, walk
<1> QED BY <1>1, <1>2, <1>3, <1>4, <1>5

(* Issuing a bucket appends a descriptor of the pending entry.             *)
LEMMA IssueTypes ==
  ASSUME TypeInv, Issue
  PROVE  TypeInv'
<1> USE DEF TypeInv, TypeOK
<1>1. HostType' /\ PointType' /\ Bounded' /\ WalkInCloud'
  BY DEF Issue, HostType, PointType, Bounded, WalkInCloud, host, point, walk
<1>2. MemoryType' /\ PortType'
  BY QuietTypes DEF Issue
<1>3. Descriptor \in Task
  BY DEF Descriptor, Task, WalkType, ControlType, Entry
<1>4. FifoType'
  BY <1>3 DEF Issue, FifoType
<1>5. ControlType' /\ WalkType'
  BY DEF Issue, ControlType, WalkType, EngineStates
<1> QED BY <1>1, <1>2, <1>4, <1>5

(* Deferring or skipping a bucket may make its far point the best.         *)
LEMMA DecideTypes ==
  ASSUME TypeInv, Defer \/ Skip
  PROVE  TypeInv'
<1> USE DEF TypeInv, TypeOK
<1>1. HostType' /\ PointType' /\ FifoType' /\ Bounded' /\ WalkInCloud'
  BY DEF Defer, Skip, HostType, PointType, FifoType, Bounded, WalkInCloud,
         host, point
<1>2. /\ pend.bid \in Buckets /\ pend.entry \in Entry
      /\ pend.entry.fdist \in Nat /\ pend.entry.fidx \in Points
      /\ pend.entry.mcnt \in Nat /\ sample \in Points
  BY DEF WalkType, ControlType, Entry
<1>3. MemoryType'
  BY CommitTypes DEF Defer, Skip, Quiet
<1>4. PortType'
  <2>1. CASE Skip
    BY <2>1 DEF Skip, Quiet, Drive, PortType
  <2>2. CASE Defer
    <3>1. [addr |-> pend.bid, entry |-> [pend.entry EXCEPT !.mcnt = @ + 1]] \in BucketWrite
      BY <1>2 DEF BucketWrite, Entry
    <3>2. [addr |-> pend.bid, write |-> MergePush(sample)] \in MergeWrite
      BY <1>2 DEF MergeWrite, MergePush
    <3> QED BY <2>2, <3>1, <3>2 DEF Defer, Drive, PortType
  <2> QED BY <2>1, <2>2
<1>5. ControlType'
  BY DEF Defer, Skip, ControlType, EngineStates
<1>6. WalkType'
  BY <1>2, BestTypes DEF Defer, Skip, WalkType
<1> QED BY <1>1, <1>3, <1>4, <1>5, <1>6

(* A collected return becomes its bucket's entry.                          *)
LEMMA CollectTypes ==
  ASSUME TypeInv, Collect
  PROVE  TypeInv'
<1> USE DEF TypeInv, TypeOK
<1>1. HostType' /\ PointType' /\ Bounded' /\ WalkInCloud'
  BY DEF Collect, HostType, PointType, Bounded, WalkInCloud, host, point
<1> DEFINE r == Head(fpFifo)
<1>2. r \in Return
  BY DEF Collect, FifoType
<1>3. r.bid \in Buckets /\ r.dist \in Nat /\ r.idx \in Points
  BY <1>2 DEF Return
<1>4. /\ Commit
      /\ Drive(<<[addr |-> r.bid, entry |-> [fdist |-> r.dist, fidx |-> r.idx, mcnt |-> 0]]>>,
               <<[addr |-> r.bid, write |-> MergeClear(r.idx)]>>, <<>>)
      /\ best' = BestWith(r.bid, r.dist, r.idx)
  BY DEF Collect
<1> HIDE DEF r
<1>5. MemoryType'
  BY <1>4, CommitTypes
<1>6. PortType'
  <2>1. [addr |-> r.bid, entry |-> [fdist |-> r.dist, fidx |-> r.idx, mcnt |-> 0]] \in BucketWrite
    BY <1>3 DEF BucketWrite, Entry
  <2>2. [addr |-> r.bid, write |-> MergeClear(r.idx)] \in MergeWrite
    BY <1>3 DEF MergeWrite, MergeClear
  <2> QED BY <1>4, <2>1, <2>2 DEF Drive, PortType
<1>7. ControlType' /\ FifoType'
  BY DEF Collect, ControlType, FifoType, EngineStates
<1>8. WalkType'
  BY <1>3, <1>4, BestTypes DEF Collect, WalkType
<1> QED BY <1>1, <1>5, <1>6, <1>7, <1>8

(* The point engine's steps leave the bucket engine, its ports and its     *)
(* memories as they are.                                                   *)
LEMMA PointStepFrame ==
  ASSUME TypeInv, PointEngine
  PROVE  HostType' /\ ControlType' /\ WalkType' /\ PortType' /\ MemoryType'
         /\ WalkInCloud'
<1>1. UNCHANGED <<host, control, walk, ports, memory>>
  BY DEF PointEngine, Accept, LoadMerge, Stream, CollectFar, Push
<1> QED
  BY <1>1 DEF TypeInv, TypeOK, HostType, ControlType, WalkType, PortType,
              MemoryType, WalkInCloud, host, control, walk, ports, memory

(* A pass over a bucket: its distances shrink, and the tree has a row.     *)
LEMMA StreamTypes ==
  ASSUME TypeInv, Stream
  PROVE  PointType' /\ FifoType' /\ Bounded'
<1> USE DEF TypeInv, TypeOK
<1> DEFINE b == Members(cloud, task.bid)
           rows == {[dist |-> Nearest(p), idx |-> p] : p \in b}
           seen == rows \cup {far[i] : i \in DOMAIN far}
<1>1. ASSUME NEW p \in Points
      PROVE  Nearest(p) \in Nat /\ Nearest(p) <= Inf
  <2>1. mdt \in [Points -> Nat] /\ mdt[p] <= Inf
    BY DEF PointType, Bounded
  <2>2. \A q \in refs : Dist(cloud, p, q) \in Nat
    BY DistAssumption DEF PointType, HostType
  <2>3. Nearest(p) \in Nat /\ Nearest(p) <= mdt[p]
    BY <2>1, <2>2, NearestIsLeast
  <2> QED BY <2>1, <2>3, ConstantTypes
<1>2. b \subseteq Points
  BY DEF Members
<1>3. rows \subseteq Far /\ \A f \in rows : f.dist <= Inf
  BY <1>1, <1>2 DEF Far
<1>4. seen \subseteq Far /\ \A f \in seen : f.dist <= Inf
  BY <1>3 DEF PointType, Bounded
<1>5. /\ mdt' = [p \in Points |-> IF p \in b THEN Nearest(p) ELSE mdt[p]]
      /\ far' = Tree(seen)
      /\ UNCHANGED <<bktFifo, fpFifo, task, refs, hold>>
      /\ pe' \in {"COLLECT", "LDMERGE"} /\ pass' \in {pass, pass + 1}
  BY DEF Stream
<1> HIDE DEF b, seen
<1>6. mdt' \in [Points -> Nat] /\ \A p \in Points : mdt'[p] <= Inf
  BY <1>1, <1>2, <1>5 DEF PointType, Bounded
<1>7. far' \in Seq(Far) /\ Len(far') <= 1 /\ \A i \in DOMAIN far' : far'[i].dist <= Inf
  <2>1. CASE seen = {}
    BY <1>5, <2>1 DEF Tree
  <2>2. CASE seen # {}
    <3>1. FarthestRow(seen) \in seen
      BY <1>4, <2>2, FarthestExists
    <3>2. far' = <<FarthestRow(seen)>>
      BY <1>5, <2>2 DEF Tree
    <3> QED BY <1>4, <3>1, <3>2
  <2> QED BY <2>1, <2>2
<1>8. pe' \in PointStates /\ pass' \in Nat
  BY <1>5 DEF PointType, PointStates
<1> QED BY <1>5, <1>6, <1>7, <1>8 DEF PointType, FifoType, Bounded

(* Every step of the point engine keeps the types.                         *)
LEMMA PointStepTypes ==
  ASSUME TypeInv, PointEngine
  PROVE  TypeInv'
<1> USE DEF TypeInv, TypeOK
<1>1. CASE Accept
  BY <1>1, PointStepFrame
     DEF Accept, PointType, FifoType, Bounded, PointStates
<1>2. CASE LoadMerge
  <2>1. \A k \in Nat : Reference(k) \in Places
    <3>1. task.sample \in Places /\ mb \in [Buckets -> Seq(Points)] /\ task.bid \in Buckets
      BY ConstantTypes DEF PointType, MemoryType, Task
    <3>2. \A k \in Nat : MergeRead(task.bid, k) \in Places
      BY <3>1 DEF MergeRead, Places
    <3> QED BY <3>1, <3>2 DEF Reference
  <2>2. \A k \in pass * L .. pass * L + L - 1 : k \in Nat
    BY ConstantTypes DEF PointType
  <2>3. refs' \subseteq Places
    BY <1>2, <2>1, <2>2 DEF LoadMerge
  <2>4. far' \in {<<>>, far}
    BY <1>2 DEF LoadMerge, TreeAtLoad
  <2>5. far' \in Seq(Far) /\ Len(far') <= 1 /\ \A i \in DOMAIN far' : far'[i].dist <= Inf
    <3>1. CASE far' = far
      BY <3>1 DEF PointType, Bounded
    <3>2. CASE far' = <<>>
      BY <3>2
    <3> QED BY <2>4, <3>1, <3>2
  <2>6. PointType' /\ FifoType' /\ Bounded'
    BY <1>2, <2>3, <2>5 DEF LoadMerge, PointType, FifoType, Bounded, PointStates
  <2> QED BY <2>6, PointStepFrame
<1>3. CASE Stream
  BY <1>3, StreamTypes, PointStepFrame
<1>4. CASE CollectFar
  <2>1. far[1] \in Far
    BY <1>4 DEF CollectFar, PointType
  <2>2. hold' \in Return
    BY <1>4, <2>1 DEF CollectFar, Return, Far, PointType, Task
  <2>3. PointType' /\ FifoType' /\ Bounded'
    BY <1>4, <2>2 DEF CollectFar, PointType, FifoType, Bounded, PointStates
  <2> QED BY <2>3, PointStepFrame
<1>5. CASE Push
  BY <1>5, PointStepFrame DEF Push, PointType, FifoType, Bounded, PointStates
<1> QED BY <1>1, <1>2, <1>3, <1>4, <1>5 DEF PointEngine

(* The host loads entries of the cloud's own buckets.                      *)
LEMMA HostStepTypes ==
  ASSUME TypeInv, HostStart \/ HostRelease
  PROVE  TypeInv'
<1> USE DEF TypeInv, TypeOK
<1>1. ControlType' /\ WalkType' /\ PortType' /\ FifoType'
  BY DEF HostStart, HostRelease, ControlType, WalkType, PortType, FifoType,
         control, walk, ports
<1>2. HostType'
  BY CloudAssumption, ConstantTypes DEF HostStart, HostRelease, HostType
<1>3. PointType' /\ Bounded'
  BY ConstantTypes DEF HostStart, HostRelease, PointType, Bounded, point
<1>4. MemoryType'
  <2>1. CASE HostRelease
    BY <2>1 DEF HostRelease, MemoryType, memory
  <2>2. CASE HostStart
    <3>1. ASSUME NEW b \in Buckets, b <= LastBucket(cloud'), NEW d \in {0, Inf}
          PROVE  HostEntry(cloud', b, d) \in Entry
      <4> DEFINE M == Members(cloud', b)
      <4>1. cloud' \in Clouds /\ b \in 0..LastBucket(cloud')
        BY <1>2, <3>1, CloudAssumption, ConstantTypes DEF HostType
      <4>2. M # {} /\ M \subseteq Points /\ M \subseteq Nat
        BY <4>1, CloudAssumption, ConstantTypes DEF Members
      <4>3. \E p \in M : \A r \in M : p <= r
        <5> HIDE DEF M
        <5> QED BY <4>2, NatMin
      <4> QED BY <4>2, <4>3, ConstantTypes DEF HostEntry, Entry
    <3>2. bb' \in [Buckets -> Entry]
      BY <2>2, <3>1 DEF HostStart, MemoryType
    <3> QED BY <2>2, <3>2 DEF HostStart, MemoryType
  <2> QED BY <2>1, <2>2
<1>5. WalkInCloud'
  BY DEF HostStart, HostRelease, WalkInCloud, control, walk
<1> QED BY <1>1, <1>2, <1>3, <1>4, <1>5

(* Every reset value is of its register's type.                            *)
LEMMA ResetTypes ==
  ASSUME TypeInv, Reset
  PROVE  TypeInv'
<1> USE ConstantTypes DEF TypeInv, TypeOK
<1>1. HostType' /\ FifoType' /\ WalkInCloud'
  <2>1. HostType'
    BY DEF Reset, HostType
  <2>2. FifoType'
    BY DEF Reset, FifoType
  <2>3. WalkInCloud'
    BY DEF Reset, WalkInCloud
  <2> QED BY <2>1, <2>2, <2>3
<1>5. ControlType'
  BY DEF Reset, ControlType, EngineStates
<1>2. WalkType'
  BY DEF Reset, WalkType, ZeroEntry, Entry
<1>3. PortType' /\ MemoryType'
  BY DEF Reset, Drive, PortType, MemoryType
<1>4. PointType' /\ Bounded'
  BY DEF Reset, PointType, PointStates, Task, Return, Bounded
<1> QED BY <1>1, <1>2, <1>3, <1>4, <1>5

(* One step of the core, by the actor that takes it.                       *)
LEMMA StepTypes == TypeInv /\ [Next]_vars => TypeInv'
<1> SUFFICES ASSUME TypeInv, [Next]_vars PROVE TypeInv'
  OBVIOUS
<1>1. CASE BucketEngine
  BY <1>1, QuietStepTypes, StartTypes, IssueTypes, DecideTypes, CollectTypes
     DEF BucketEngine
<1>2. CASE PointEngine
  BY <1>2, PointStepTypes
<1>3. CASE HostStart \/ HostRelease
  BY <1>3, HostStepTypes
<1>4. CASE Reset
  BY <1>4, ResetTypes
<1>5. CASE UNCHANGED vars
  BY <1>5 DEF TypeInv, TypeOK, HostType, ControlType, WalkType, PortType,
              MemoryType, PointType, FifoType, Bounded, WalkInCloud, vars, host,
              control, walk, ports, memory, point
<1> QED BY <1>1, <1>2, <1>3, <1>4, <1>5 DEF Next

(* In every instance of the core, with resets and reloads at any time,     *)
(* every register keeps its type: the walk never reads an entry the host   *)
(* did not load, and a bucket's far point always exists.                   *)
THEOREM TypeCorrect == Spec => []TypeOK
<1>1. Spec => []TypeInv
  BY InitTypes, StepTypes, PTL DEF Spec
<1>2. TypeInv => TypeOK
  BY DEF TypeInv
<1> QED BY <1>1, <1>2, PTL

-----------------------------------------------------------------------------
(* What the core knows about the work it has handed out: every issued      *)
(* bucket is in one place on its way round, its merge slots do not move    *)
(* meanwhile, and the count in its entry is that of its merge slots.       *)

CloudBuckets == 0..LastBucket(cloud)

InJob       == state \notin {"IDLE", "DONE"}
InIteration == Travelling \/ state = "ITEREND"

(* The walk's position of a bucket, and the number of positions decided.   *)
Position(b) == IF b = winner THEN 0 ELSE IF b < winner THEN b + 1 ELSE b

Decided ==
  IF state \in {"FETCH", "ACTION"} THEN pos
  ELSE IF state \in {"NEXT", "TDONE", "COLLECT", "ITEREND"} THEN pos + 1
  ELSE 0

Walked(b) == Position(b) < Decided

(* The current sample is accounted for in the entry and the merge slots of *)
(* a settled bucket, and the samples before it in those of any bucket.     *)
Settled(b) == Walked(b) /\ b \notin OutstandingBuckets
Account(b) == IF Settled(b) THEN cnt ELSE cnt - 1

(* Where the engine is in a job and what its walk registers then mean. *)
ControlInv ==
  /\ InJob => busy /\ cnt >= 1 /\ winner \in CloudBuckets
  /\ state = "IDLE" => ~busy
  /\ state = "IDLE" /\ done => ~start
  /\ InJob /\ state # "INITP0" => cnt < sampleN
  /\ InIteration => (firstIter <=> cnt = 1)
  /\ state \in {"TDONE", "COLLECT", "ITEREND"} => pos = LastBucket(cloud)
  /\ state \in {"ACTION", "NEXT"} => pend.bid = TravelBid

(* The pending entry is still the bucket's when it is decided on. *)
FetchedInv ==
  state = "ACTION" =>
    /\ pend.entry = Entries[pend.bid]
    /\ pend.dlb = Gap(cloud, sample, pend.bid)
    /\ pend.d = Dist(cloud, pend.entry.fidx, sample)

(* A write waits on a port only in the states entered by driving it. *)
PortInv ==
  /\ bbPort # <<>> \/ mbPort # <<>> => state \in {"NEXT", "COLLECT", "ITEREND"}
  /\ resPort # <<>> => state \in {"INITP0", "ITERINIT"} \/ (state = "DONE" /\ busy)

(* A write on its way is never to a bucket on its way. *)
PortsClear ==
  /\ \A i \in DOMAIN bbPort : bbPort[i].addr \notin OutstandingBuckets
  /\ \A i \in DOMAIN mbPort : mbPort[i].addr \notin OutstandingBuckets

(* The samples of the job, the last of which is the current one. *)
ResultInv ==
  /\ InJob => Len(Results) = cnt /\ Results[cnt] = sample
  /\ state = "DONE" => Len(Results) >= 1 /\ Len(Results) >= sampleN

(* The buckets on their way are distinct, and the walk has passed them. *)
Distinct ==
  /\ \A i, j \in DOMAIN bktFifo : bktFifo[i].bid = bktFifo[j].bid => i = j
  /\ \A i, j \in DOMAIN fpFifo : fpFifo[i].bid = fpFifo[j].bid => i = j
  /\ \A i \in DOMAIN bktFifo, j \in DOMAIN fpFifo : bktFifo[i].bid # fpFifo[j].bid
  /\ pe # "IDLE" => /\ \A i \in DOMAIN bktFifo : bktFifo[i].bid # task.bid
                    /\ \A j \in DOMAIN fpFifo : fpFifo[j].bid # task.bid

RouteInv ==
  /\ Distinct
  /\ pe = "PUSH" => hold.bid = task.bid
  /\ \A b \in OutstandingBuckets : b \in CloudBuckets /\ Walked(b)
  /\ IsFiniteSet(OutstandingBuckets)

(* The host has loaded a job that the core has not seen. *)
LoadedInv ==
  state = "IDLE" /\ start => \A b \in CloudBuckets : bb[b].mcnt = 0

(* The entry's count is that of the merge slots, which are samples.  The   *)
(* slots an earlier job left are not counted, and none is until the first  *)
(* iteration has settled the bucket.                                       *)
MergeInv ==
  InJob =>
    \A b \in CloudBuckets :
      /\ Entries[b].mcnt = IF Account(b) = 0 THEN 0 ELSE Len(Slots[b])
      /\ \A k \in 1..Entries[b].mcnt :
           \E i \in 1..Account(b) : Slots[b][k] = Results[i]

(* A task carries the sample and the count its bucket has. *)
TaskInv ==
  \A t \in OutstandingTasks : t.sample = sample /\ t.mcnt = Entries[t.bid].mcnt

(* The best is the best of the far points of the settled buckets. *)
BestInv ==
  InIteration =>
    /\ best.valid => \E b \in CloudBuckets :
                       /\ Settled(b) /\ best.bid = b
                       /\ best.dist = Entries[b].fdist /\ best.idx = Entries[b].fidx
    /\ \A b \in CloudBuckets : Settled(b) =>
         /\ best.valid
         /\ \/ best.dist = Entries[b].fdist /\ best.idx = Entries[b].fidx
            \/ Better(best.dist, best.idx, Entries[b].fdist, Entries[b].fidx)

CoreInv ==
  /\ TypeInv /\ ControlInv /\ FetchedInv /\ PortInv /\ PortsClear
  /\ MergeNeverOverflows /\ ResultInv /\ RouteInv /\ ReturnsMatchIssues
  /\ LoadedInv /\ MergeInv /\ TaskInv /\ BestInv

-----------------------------------------------------------------------------
(* The walk.                                                               *)

(* The naturals the walk and the counters are made of. *)
LEMMA WalkTypes ==
  ASSUME TypeInv
  PROVE  /\ cloud \in Clouds /\ LastBucket(cloud) \in Nat /\ CloudBuckets \subseteq Buckets
         /\ winner \in Nat /\ pos \in Nat /\ cnt \in Nat /\ issued \in Nat
         /\ collected \in Nat /\ Decided \in Nat /\ sampleN \in Nat
         /\ sample \in Points
<1>1. cloud \in Clouds /\ winner \in Buckets /\ pos \in Nat /\ cnt \in Nat
      /\ issued \in Nat /\ collected \in Nat /\ sampleN \in Nat /\ sample \in Points
  BY DEF TypeInv, TypeOK, HostType, ControlType, WalkType
<1>2. LastBucket(cloud) \in Nat /\ CloudBuckets \subseteq Buckets
  BY <1>1, CloudAssumption, ConstantTypes DEF CloudBuckets
<1> QED BY <1>1, <1>2, ConstantTypes DEF Decided

(* A bucket is visited at its position. *)
LEMMA PositionOfTravelBid ==
  ASSUME NEW b \in Nat, winner \in Nat, pos \in Nat
  PROVE  Position(b) = pos <=> b = TravelBid
BY DEF Position, TravelBid

(* A walk over all positions visits every bucket of the cloud. *)
LEMMA AllWalked ==
  ASSUME TypeInv, ControlInv, state \in {"TDONE", "COLLECT", "ITEREND"},
         NEW b \in CloudBuckets
  PROVE  Walked(b)
<1>1. winner \in CloudBuckets /\ pos = LastBucket(cloud) /\ LastBucket(cloud) \in Nat
  BY WalkTypes DEF ControlInv, InJob
<1>2. Decided = LastBucket(cloud) + 1
  BY <1>1 DEF Decided
<1> QED BY <1>1, <1>2 DEF Walked, Position, CloudBuckets

(* The bucket decided on is the next one of the walk. *)
LEMMA WalkedByDecision ==
  ASSUME TypeInv, ControlInv, state = "ACTION", state' = "NEXT",
         UNCHANGED <<winner, pos>>, NEW b \in Nat
  PROVE  /\ Walked(b)' <=> Walked(b) \/ b = pend.bid
         /\ ~Walked(pend.bid)
<1>1. winner \in Nat /\ pos \in Nat /\ pend.bid = TravelBid /\ pend.bid \in Nat
  BY WalkTypes, ConstantTypes
     DEF ControlInv, TypeInv, TypeOK, WalkType
<1>2. Position(b)' = Position(b) /\ Position(b) \in Nat
  BY <1>1 DEF Position
<1>3. Decided = pos /\ Decided' = pos + 1
  BY DEF Decided
<1>4. Position(pend.bid) = pos /\ (Position(b) = pos <=> b = pend.bid)
  BY <1>1, PositionOfTravelBid
<1> QED BY <1>1, <1>2, <1>3, <1>4 DEF Walked

-----------------------------------------------------------------------------
(* The route of an issued bucket.                                          *)

(* A bucket is on its way exactly when it is in one of three places. *)
LEMMA OutstandingIn ==
  ASSUME NEW b
  PROVE  b \in OutstandingBuckets <=>
           \/ \E i \in DOMAIN bktFifo : b = bktFifo[i].bid
           \/ pe # "IDLE" /\ b = task.bid
           \/ \E i \in DOMAIN fpFifo : b = fpFifo[i].bid
BY DEF OutstandingBuckets, OutstandingTasks

LEMMA TasksIn ==
  ASSUME NEW t
  PROVE  t \in OutstandingTasks <=>
           \/ \E i \in DOMAIN bktFifo : t = bktFifo[i]
           \/ pe # "IDLE" /\ t = task
BY DEF OutstandingTasks

(* Nothing is on its way when nothing is in flight. *)
LEMMA NothingOutstanding ==
  ASSUME TypeInv, InFlight = 0
  PROVE  /\ OutstandingBuckets = {} /\ OutstandingTasks = {}
         /\ pe = "IDLE" /\ bktFifo = <<>> /\ fpFifo = <<>>
<1>1. bktFifo \in Seq(Task) /\ fpFifo \in Seq(Return)
  BY DEF TypeInv, TypeOK, FifoType
<1>2. Len(bktFifo) = 0 /\ Len(fpFifo) = 0 /\ pe = "IDLE"
  BY <1>1 DEF InFlight
<1>3. bktFifo = <<>> /\ fpFifo = <<>>
  BY <1>1, <1>2
<1> QED BY <1>2, <1>3 DEF OutstandingBuckets, OutstandingTasks

-----------------------------------------------------------------------------
(* The steps that only move the engine on.                                 *)

(* An edge that drives no port leaves the committed view as it is. *)
LEMMA QuietView ==
  ASSUME Quiet
  PROVE  /\ Entries' = Entries /\ Slots' = Slots /\ Results' = Results
         /\ bb' = Entries /\ mb' = Slots
         /\ bbPort' = <<>> /\ mbPort' = <<>> /\ resPort' = <<>>
<1>1. bbPort' = <<>> /\ mbPort' = <<>> /\ resPort' = <<>>
  BY DEF Quiet, Drive
<1>2. bb' = Entries /\ mb' = Slots /\ res' = Results
  BY DEF Quiet, Commit, Entries, Slots
<1> QED BY <1>1, <1>2 DEF Entries, Committed, Slots, Results

(* The same route. *)
LEMMA RouteView ==
  ASSUME UNCHANGED <<bktFifo, fpFifo, pe, task>>
  PROVE  /\ OutstandingBuckets' = OutstandingBuckets
         /\ OutstandingTasks' = OutstandingTasks
         /\ InFlight' = InFlight
BY DEF OutstandingBuckets, OutstandingTasks, InFlight

Moves == Idle \/ InitP0 \/ IterInit \/ Fetch \/ NextBucket \/ TravelDone \/ Wait \/ Done

(* What these steps leave alone. *)
LEMMA MovesView ==
  ASSUME TypeInv, ControlInv, Moves
  PROVE  /\ Quiet
         /\ Entries' = Entries /\ Slots' = Slots /\ Results' = Results
         /\ bb' = Entries /\ mb' = Slots
         /\ bbPort' = <<>> /\ mbPort' = <<>> /\ resPort' = <<>>
         /\ OutstandingBuckets' = OutstandingBuckets
         /\ OutstandingTasks' = OutstandingTasks /\ InFlight' = InFlight
         /\ UNCHANGED <<cloud, sampleN, p0, start, cnt, winner, sample, mdt,
                        bktFifo, fpFifo, pe, task, pass, refs, far, hold>>
         /\ CloudBuckets' = CloudBuckets
         /\ InJob' => InJob
         /\ Decided' = Decided
         /\ \A b : Position(b)' = Position(b) /\ Walked(b)' = Walked(b)
         /\ \A b : Settled(b)' = Settled(b) /\ Account(b)' = Account(b)
<1>1. /\ Quiet
      /\ UNCHANGED <<host, cnt, winner, sample, mdt, bktFifo, fpFifo, point>>
  BY DEF Moves, Idle, InitP0, IterInit, Fetch, NextBucket, TravelDone, Wait, Done,
         control
<1>2. /\ UNCHANGED <<cloud, sampleN, p0, start, cnt, winner, sample, mdt,
                     bktFifo, fpFifo, pe, task, pass, refs, far, hold>>
      /\ CloudBuckets' = CloudBuckets
  BY <1>1 DEF host, point, CloudBuckets
<1>3. OutstandingBuckets' = OutstandingBuckets
      /\ OutstandingTasks' = OutstandingTasks /\ InFlight' = InFlight
  BY <1>2, RouteView
<1>4. InJob' => InJob
  BY DEF Moves, Idle, InitP0, IterInit, Fetch, NextBucket, TravelDone, Wait, Done,
         control, InJob
<1>5. Decided' = Decided
  <2>1. pos \in Nat
    BY WalkTypes
  <2> QED BY <2>1 DEF Moves, Idle, InitP0, IterInit, Fetch, NextBucket, TravelDone,
                      Wait, Done, control, walk, Decided
<1>6. \A b : Position(b)' = Position(b) /\ Walked(b)' = Walked(b)
  BY <1>2, <1>5 DEF Position, Walked
<1>7. \A b : Settled(b)' = Settled(b) /\ Account(b)' = Account(b)
  BY <1>2, <1>3, <1>6 DEF Settled, Account
<1> QED BY <1>1, <1>2, <1>3, <1>4, <1>5, <1>6, <1>7, QuietView

(* They keep the bookkeeping. *)
LEMMA MovesKeep ==
  ASSUME CoreInv, Moves
  PROVE  CoreInv'
<1> USE DEF CoreInv
<1>0. TypeInv'
  BY QuietStepTypes DEF Moves
<1>1. ControlInv'
  <2>1. /\ pos \in Nat /\ LastBucket(cloud) \in Nat /\ cnt \in Nat /\ sampleN \in Nat
        /\ state \in {"FETCH", "ACTION", "NEXT"} => pos <= LastBucket(cloud)
    BY WalkTypes DEF TypeInv, WalkInCloud
  <2>2. UNCHANGED <<cloud, sampleN, start, cnt, winner>> /\ CloudBuckets' = CloudBuckets
    BY MovesView
  <2>3. CASE Idle \/ Done
    BY <2>2, <2>3 DEF Idle, Done, ControlInv, InJob, InIteration, Travelling
  <2>4. CASE InitP0
    <3>1. /\ state = "INITP0" /\ UNCHANGED <<busy, done>>
          /\ state' = "DONE" \/ (state' = "ITERINIT" /\ cnt < sampleN)
      BY <2>1, <2>4 DEF InitP0, Enough
    <3> QED BY <2>2, <3>1 DEF ControlInv, InJob, InIteration, Travelling
  <2>5. CASE IterInit
    BY <2>2, <2>5 DEF IterInit, ControlInv, InJob, InIteration, Travelling
  <2>6. CASE Fetch
    BY <2>2, <2>6 DEF Fetch, ControlInv, InJob, InIteration, Travelling, TravelBid
  <2>7. CASE NextBucket
    BY <2>1, <2>2, <2>7
       DEF NextBucket, ControlInv, InJob, InIteration, Travelling, BucketCount
  <2>8. CASE TravelDone \/ Wait
    BY <2>2, <2>8 DEF TravelDone, Wait, ControlInv, InJob, InIteration, Travelling,
                      TravelBid, control, walk
  <2> QED BY <2>3, <2>4, <2>5, <2>6, <2>7, <2>8 DEF Moves
<1>2. FetchedInv'
  <2>1. CASE Fetch
    <3>1. bbPort = <<>>
      BY <2>1 DEF Fetch, PortInv
    <3>2. bb = Entries
      BY <3>1 DEF Entries, Committed
    <3> QED BY <2>1, <3>2, MovesView DEF Fetch, FetchedInv
  <2>2. CASE Wait
    BY <2>2, MovesView DEF Wait, control, walk, FetchedInv
  <2>3. CASE Idle \/ InitP0 \/ IterInit \/ NextBucket \/ TravelDone \/ Done
    BY <2>3 DEF Idle, InitP0, IterInit, NextBucket, TravelDone, Done, FetchedInv
  <2> QED BY <2>1, <2>2, <2>3 DEF Moves
<1>3. PortInv' /\ PortsClear' /\ MergeNeverOverflows'
  BY MovesView DEF PortInv, PortsClear, MergeNeverOverflows
<1>4. ResultInv'
  <2>1. CASE InitP0
    <3>1. Len(Results) = cnt /\ Results[cnt] = sample /\ cnt >= 1 /\ cnt \in Nat
          /\ sampleN \in Nat
      BY <2>1, WalkTypes DEF InitP0, ResultInv, ControlInv, InJob
    <3> QED BY <2>1, <3>1, MovesView DEF InitP0, ResultInv, InJob, Enough
  <2>2. CASE Idle \/ IterInit \/ Fetch \/ NextBucket \/ TravelDone \/ Wait \/ Done
    <3>1. state' = "DONE" => state = "DONE"
      BY <2>2 DEF Idle, IterInit, Fetch, NextBucket, TravelDone, Wait, Done, control
    <3> QED BY <3>1, MovesView DEF ResultInv
  <2> QED BY <2>1, <2>2 DEF Moves
<1>5. RouteInv'
  BY MovesView DEF RouteInv, Distinct
<1>6. ReturnsMatchIssues'
  <2>1. issued \in Nat /\ collected \in Nat /\ InFlight \in Nat
    <3>1. Len(bktFifo) \in Nat /\ Len(fpFifo) \in Nat
      BY DEF TypeInv, TypeOK, FifoType
    <3> QED BY <3>1, WalkTypes DEF InFlight
  <2>2. InFlight' = InFlight /\ OutstandingBuckets' = OutstandingBuckets
    BY MovesView
  <2> QED BY <2>1, <2>2 DEF Moves, Idle, InitP0, IterInit, Fetch, NextBucket,
             TravelDone, Wait, Done, control, walk, ReturnsMatchIssues, Travelling
<1>7. LoadedInv'
  <2>1. state' = "IDLE" /\ start' => state = "IDLE" /\ start
    BY DEF Moves, Idle, InitP0, IterInit, Fetch, NextBucket, TravelDone, Wait, Done,
           host, control
  <2>2. CASE state = "IDLE"
    BY <2>1, <2>2, MovesView DEF LoadedInv, PortInv, Entries, Committed
  <2>3. CASE state # "IDLE"
    BY <2>1, <2>3 DEF LoadedInv
  <2> QED BY <2>2, <2>3
<1>8. MergeInv' /\ TaskInv'
  BY MovesView DEF MergeInv, TaskInv
<1>9. BestInv'
  <2>1. CASE IterInit
    <3>1. \A b \in CloudBuckets : ~Settled(b)
      <4>1. \A b \in CloudBuckets : Position(b) \in Nat
        BY WalkTypes DEF Position, CloudBuckets
      <4> QED BY <2>1, <4>1 DEF IterInit, Settled, Walked, Decided
    <3>2. best'.valid = FALSE
      BY <2>1 DEF IterInit, TypeInv, TypeOK, WalkType
    <3> QED BY <3>1, <3>2, MovesView DEF BestInv
  <2>2. CASE Idle \/ InitP0 \/ Fetch \/ NextBucket \/ TravelDone \/ Wait \/ Done
    <3>1. UNCHANGED best /\ (InIteration' => InIteration)
      BY <2>2 DEF Idle, InitP0, Fetch, NextBucket, TravelDone, Wait, Done, control,
                  walk, InIteration, Travelling
    <3> QED BY <3>1, MovesView DEF BestInv
  <2> QED BY <2>1, <2>2 DEF Moves
<1> QED BY <1>0, <1>1, <1>2, <1>3, <1>4, <1>5, <1>6, <1>7, <1>8, <1>9

-----------------------------------------------------------------------------
(* The decisions of the walk.                                              *)

(* A decision finds the ports idle, the memories as committed, and a       *)
(* bucket of the cloud that is not on its way.                             *)
LEMMA DecisionContext ==
  ASSUME CoreInv, state = "ACTION"
  PROVE  /\ pend.bid \in CloudBuckets /\ pend.bid \in Buckets /\ pend.bid \in Nat
         /\ pend.bid \notin OutstandingBuckets /\ ~Walked(pend.bid)
         /\ ~Settled(pend.bid)
         /\ bbPort = <<>> /\ mbPort = <<>> /\ resPort = <<>>
         /\ bb = Entries /\ mb = Slots /\ res = Results
         /\ pend.entry = Entries[pend.bid] /\ pend.entry \in Entry
         /\ InJob /\ InIteration
<1> USE DEF CoreInv
<1>1. /\ winner \in 0..LastBucket(cloud) /\ pos \in Nat /\ pos <= LastBucket(cloud)
      /\ LastBucket(cloud) \in Nat /\ pend.bid = TravelBid
  BY WalkTypes DEF ControlInv, InJob, CloudBuckets, TypeInv, WalkInCloud
<1>2. pend.bid \in CloudBuckets /\ pend.bid \in Nat
  BY <1>1 DEF TravelBid, CloudBuckets
<1>3. ~Walked(pend.bid)
  <2>1. Position(pend.bid) = pos
    BY <1>1, <1>2, PositionOfTravelBid
  <2> QED BY <1>1, <2>1 DEF Walked, Decided
<1>4. pend.bid \notin OutstandingBuckets
  BY <1>3 DEF RouteInv
<1>5. bbPort = <<>> /\ mbPort = <<>> /\ resPort = <<>>
  BY DEF PortInv
<1>6. bb = Entries /\ mb = Slots /\ res = Results
  BY <1>5 DEF Entries, Committed, Slots, Results
<1>7. pend.entry = Entries[pend.bid] /\ pend.bid \in Buckets /\ pend.entry \in Entry
  BY DEF FetchedInv, TypeInv, TypeOK, WalkType
<1> QED BY <1>2, <1>3, <1>4, <1>5, <1>6, <1>7
        DEF Settled, InJob, InIteration, Travelling

(* What the three decisions share. *)
LEMMA DecisionView ==
  ASSUME CoreInv, Issue \/ Defer \/ Skip
  PROVE  /\ state = "ACTION" /\ state' = "NEXT"
         /\ UNCHANGED <<cloud, sampleN, p0, start, busy, done, cnt, winner,
                        firstIter, sample, pos, collected, pend, mdt, fpFifo,
                        pe, task, pass, refs, far, hold>>
         /\ Commit /\ resPort' = <<>> /\ Results' = Results
         /\ bb' = Entries /\ mb' = Slots
         /\ CloudBuckets' = CloudBuckets
         /\ InJob' /\ InIteration'
         /\ \A b \in CloudBuckets : Walked(b)' <=> Walked(b) \/ b = pend.bid
<1> USE DEF CoreInv
<1>1. /\ state = "ACTION" /\ state' = "NEXT"
      /\ UNCHANGED <<cloud, sampleN, p0, start, busy, done, cnt, winner,
                     firstIter, sample, pos, collected, pend, mdt, fpFifo,
                     pe, task, pass, refs, far, hold>>
      /\ Commit /\ resPort' = <<>>
  BY DEF Issue, Defer, Skip, Quiet, Drive, host, point
<1>2. bb' = Entries /\ mb' = Slots /\ Results' = Results
  BY <1>1 DEF Commit, Entries, Slots, Results
<1>3. CloudBuckets' = CloudBuckets /\ InJob' /\ InIteration'
  BY <1>1 DEF CloudBuckets, InJob, InIteration, Travelling
<1>4. \A b \in CloudBuckets : Walked(b)' <=> Walked(b) \/ b = pend.bid
  BY <1>1, WalkedByDecision DEF CloudBuckets
<1> QED BY <1>1, <1>2, <1>3, <1>4

(* They do not disturb where the engine is in its job. *)
LEMMA DecisionControl ==
  ASSUME CoreInv, Issue \/ Defer \/ Skip
  PROVE  ControlInv' /\ FetchedInv' /\ ResultInv' /\ LoadedInv'
<1> USE DEF CoreInv
<1>1. ControlInv'
  <2>1. TravelBid' = TravelBid
    BY DecisionView DEF TravelBid
  <2> QED BY <2>1, DecisionView
          DEF ControlInv, InJob, InIteration, Travelling
<1>2. FetchedInv' /\ ResultInv' /\ LoadedInv'
  BY DecisionView DEF FetchedInv, ResultInv, LoadedInv, InJob
<1> QED BY <1>1, <1>2

(* Issuing puts one more bucket on its way, a bucket that was not there.   *)
LEMMA IssueRoute ==
  ASSUME CoreInv, Issue
  PROVE  /\ OutstandingBuckets' = OutstandingBuckets \cup {pend.bid}
         /\ OutstandingTasks' = OutstandingTasks \cup {Descriptor}
         /\ InFlight' = InFlight + 1
         /\ Distinct'
<1> USE DEF CoreInv
<1>1. /\ bktFifo \in Seq(Task) /\ fpFifo \in Seq(Return)
      /\ bktFifo' = Append(bktFifo, Descriptor)
      /\ UNCHANGED <<fpFifo, pe, task>>
  BY DEF TypeInv, TypeOK, FifoType, Issue, point
<1>2. Descriptor.bid = pend.bid
  BY DEF Descriptor
<1>3. /\ DOMAIN bktFifo' = DOMAIN bktFifo \cup {Len(bktFifo) + 1}
      /\ Len(bktFifo') = Len(bktFifo) + 1 /\ Len(bktFifo) \in Nat /\ Len(fpFifo) \in Nat
      /\ \A i \in DOMAIN bktFifo : bktFifo'[i] = bktFifo[i]
      /\ bktFifo'[Len(bktFifo) + 1] = Descriptor
  BY <1>1
<1>4. InFlight' = InFlight + 1
  BY <1>1, <1>3 DEF InFlight
<1>5. OutstandingTasks' = OutstandingTasks \cup {Descriptor}
  BY <1>1, <1>3 DEF OutstandingTasks
<1>6. OutstandingBuckets' = OutstandingBuckets \cup {pend.bid}
  BY <1>1, <1>2, <1>5 DEF OutstandingBuckets
<1>7. Distinct'
  <2>1. pend.bid \notin OutstandingBuckets
    BY DecisionContext DEF Issue
  <2>2. /\ \A i \in DOMAIN bktFifo : bktFifo[i].bid # pend.bid
        /\ pe # "IDLE" => task.bid # pend.bid
        /\ \A i \in DOMAIN fpFifo : fpFifo[i].bid # pend.bid
    BY <2>1, OutstandingIn
  <2>3. Distinct
    BY DEF RouteInv
  <2> HIDE DEF CoreInv
  <2> QED BY <1>1, <1>2, <1>3, <2>2, <2>3 DEF Distinct
<1> QED BY <1>4, <1>5, <1>6, <1>7

(* Issuing keeps the bookkeeping. *)
LEMMA IssueKeeps ==
  ASSUME CoreInv, Issue
  PROVE  CoreInv'
<1> USE DEF CoreInv
<1>1. TypeInv' /\ ControlInv' /\ FetchedInv' /\ ResultInv' /\ LoadedInv'
  BY IssueTypes, DecisionControl
<1>2. /\ Quiet /\ issued' = issued + 1 /\ UNCHANGED best
  BY DEF Issue
<1>3. /\ state = "ACTION" /\ pend.bid \in CloudBuckets
      /\ pend.bid \notin OutstandingBuckets /\ ~Settled(pend.bid)
  BY DecisionContext DEF Issue
<1>4. PortInv' /\ PortsClear' /\ MergeNeverOverflows'
  BY <1>2, QuietView DEF PortInv, PortsClear, MergeNeverOverflows
<1>5. RouteInv'
  <2>1. IsFiniteSet(OutstandingBuckets')
    BY IssueRoute, FS_AddElement DEF RouteInv
  <2>2. pe' = pe /\ hold' = hold /\ task' = task
    BY DecisionView
  <2>3. \A b \in OutstandingBuckets' : b \in CloudBuckets' /\ Walked(b)'
    BY <1>3, IssueRoute, DecisionView DEF RouteInv
  <2> QED BY <2>1, <2>2, <2>3, IssueRoute DEF RouteInv
<1>6. ReturnsMatchIssues'
  <2>1. Cardinality(OutstandingBuckets') = Cardinality(OutstandingBuckets) + 1
    BY <1>3, IssueRoute, FS_AddElement DEF RouteInv
  <2>2. issued = collected + InFlight /\ Cardinality(OutstandingBuckets) = InFlight
    BY <1>3 DEF ReturnsMatchIssues, Travelling
  <2>3. InFlight \in Nat
    BY DEF InFlight, TypeInv, TypeOK, FifoType
  <2>4. state' = "NEXT" /\ collected' = collected /\ issued \in Nat /\ collected \in Nat
    BY DecisionView, WalkTypes
  <2> QED BY <1>2, <2>1, <2>2, <2>3, <2>4, IssueRoute
          DEF ReturnsMatchIssues, Travelling
<1>7. \A b \in CloudBuckets : Settled(b)' = Settled(b) /\ Account(b)' = Account(b)
  <2>1. \A b \in CloudBuckets : Settled(b)' <=> Settled(b)
    BY <1>3, IssueRoute, DecisionView DEF Settled
  <2>2. cnt' = cnt
    BY DecisionView
  <2> QED BY <2>1, <2>2 DEF Account, Settled
<1>8. Entries' = Entries /\ Slots' = Slots /\ Results' = Results
  BY <1>2, QuietView
<1>9. InJob /\ InIteration
  BY <1>3 DEF InJob, InIteration, Travelling
<1>10. MergeInv'
  BY <1>7, <1>8, <1>9, DecisionView DEF MergeInv
<1>11. TaskInv'
  <2>1. Descriptor.sample = sample /\ Descriptor.bid = pend.bid
        /\ Descriptor.mcnt = Entries[pend.bid].mcnt
    BY <1>3, DecisionContext DEF Descriptor
  <2> QED BY <1>8, <2>1, IssueRoute, DecisionView DEF TaskInv
<1>12. BestInv'
  BY <1>2, <1>7, <1>8, <1>9, DecisionView DEF BestInv
<1> QED BY <1>1, <1>4, <1>5, <1>6, <1>10, <1>11, <1>12

(* A bucket is decided without being issued: it is settled.                *)
LEMMA SettledByDecision ==
  ASSUME CoreInv, Defer \/ Skip
  PROVE  /\ UNCHANGED <<OutstandingBuckets, OutstandingTasks, InFlight, issued, bktFifo>>
         /\ \A b \in CloudBuckets :
              /\ Settled(b)' <=> Settled(b) \/ b = pend.bid
              /\ Account(b)' = IF b = pend.bid THEN cnt ELSE Account(b)
<1>1. UNCHANGED <<bktFifo, fpFifo, pe, task, issued>>
  BY DEF Defer, Skip, point
<1>2. UNCHANGED <<OutstandingBuckets, OutstandingTasks, InFlight>>
  BY <1>1, RouteView
<1>3. pend.bid \notin OutstandingBuckets
  BY DecisionContext DEF Defer, Skip
<1>4. \A b \in CloudBuckets : Settled(b)' <=> Settled(b) \/ b = pend.bid
  BY <1>2, <1>3, DecisionView DEF Settled
<1>5. cnt' = cnt
  BY DecisionView
<1> QED BY <1>1, <1>2, <1>4, <1>5 DEF Account

(* Deferring counts the sample in the entry and appends it to the slots,   *)
(* which have room for it.                                                 *)
LEMMA DeferView ==
  ASSUME CoreInv, Defer
  PROVE  /\ Entries' = [Entries EXCEPT ![pend.bid] =
                          [pend.entry EXCEPT !.mcnt = @ + 1]]
         /\ Slots' = [Slots EXCEPT ![pend.bid] = Append(Slots[pend.bid], sample)]
         /\ bbPort' = <<[addr  |-> pend.bid,
                         entry |-> [pend.entry EXCEPT !.mcnt = @ + 1]]>>
         /\ mbPort' = <<[addr |-> pend.bid, write |-> MergePush(sample)]>>
         /\ Len(Slots[pend.bid]) = pend.entry.mcnt
         /\ Len(Slots[pend.bid]) < MB_CAP
         /\ cnt > 1
<1> USE DEF CoreInv
<1>1. /\ state = "ACTION" /\ ~firstIter /\ pend.entry.mcnt < MB_CAP
      /\ bb' = Entries /\ mb' = Slots
      /\ bbPort' = <<[addr  |-> pend.bid,
                      entry |-> [pend.entry EXCEPT !.mcnt = @ + 1]]>>
      /\ mbPort' = <<[addr |-> pend.bid, write |-> MergePush(sample)]>>
  <2>1. pend.entry.mcnt \in Nat /\ MB_CAP \in Nat
    BY ConstantTypes DEF TypeInv, TypeOK, WalkType, Entry
  <2> QED BY <2>1, DecisionView
          DEF Defer, ActDefer, RawDefer, MergeFull, Drive
<1>2. /\ pend.bid \in CloudBuckets /\ pend.bid \in Buckets /\ ~Settled(pend.bid)
      /\ InJob /\ InIteration /\ pend.entry = Entries[pend.bid]
  BY <1>1, DecisionContext
<1>3. cnt \in Nat /\ cnt > 1
  BY <1>1, <1>2, WalkTypes DEF ControlInv
<1>4. Len(Slots[pend.bid]) = pend.entry.mcnt
  BY <1>2, <1>3 DEF MergeInv, Account
<1>5. Entries' = [Entries EXCEPT ![pend.bid] = [pend.entry EXCEPT !.mcnt = @ + 1]]
  BY <1>1 DEF Entries, Committed
<1>6. Slots' = [Slots EXCEPT ![pend.bid] = Append(Slots[pend.bid], sample)]
  <2>1. Slots' = [Slots EXCEPT ![pend.bid] = MergeWritten(Slots[pend.bid], MergePush(sample))]
    BY <1>1 DEF Slots
  <2>2. MergeWritten(Slots[pend.bid], MergePush(sample)) = Append(Slots[pend.bid], sample)
    BY <1>1, <1>4 DEF MergeWritten, MergePush
  <2> QED BY <2>1, <2>2
<1> QED BY <1>1, <1>3, <1>4, <1>5, <1>6

(* The running best after a far point is compared with it. *)
LEMMA BestOfTwo ==
  ASSUME TypeInv, NEW bid \in Buckets, NEW dist \in Nat, NEW idx \in Points
  PROVE  LET n == BestWith(bid, dist, idx) IN
         /\ n.valid
         /\ \/ n.dist = dist /\ n.idx = idx
            \/ Better(n.dist, n.idx, dist, idx)
         /\ best.valid => \/ n.dist = best.dist /\ n.idx = best.idx
                          \/ Better(n.dist, n.idx, best.dist, best.idx)
         /\ \/ n.bid = bid /\ n.dist = dist /\ n.idx = idx
            \/ best.valid /\ n = best
<1>1. best.dist \in Nat /\ best.idx \in Nat /\ idx \in Nat /\ best.valid \in BOOLEAN
  BY ConstantTypes DEF TypeInv, TypeOK, WalkType
<1> QED BY <1>1 DEF BestWith, Better

(* The best of the settled buckets, when one more bucket settles with the  *)
(* far point it is compared with.                                          *)
LEMMA BestStep ==
  ASSUME CoreInv, TypeInv', InIteration, CloudBuckets' = CloudBuckets,
         NEW x \in CloudBuckets,
         Entries'[x].fdist \in Nat, Entries'[x].fidx \in Points,
         best' = BestWith(x, Entries'[x].fdist, Entries'[x].fidx),
         \A b \in CloudBuckets : Settled(b)' <=> Settled(b) \/ b = x,
         ~Settled(x),
         \A b \in CloudBuckets \ {x} : Entries'[b] = Entries[b]
  PROVE  BestInv'
<1> USE DEF CoreInv
<1> DEFINE d == Entries'[x].fdist
           f == Entries'[x].fidx
<1>1. x \in Buckets /\ CloudBuckets \subseteq Buckets
  BY WalkTypes
<1>2. /\ best'.valid
      /\ (best'.dist = d /\ best'.idx = f) \/ Better(best'.dist, best'.idx, d, f)
      /\ best.valid => \/ best'.dist = best.dist /\ best'.idx = best.idx
                       \/ Better(best'.dist, best'.idx, best.dist, best.idx)
      /\ \/ best'.bid = x /\ best'.dist = d /\ best'.idx = f
         \/ best.valid /\ best' = best
  BY <1>1, BestOfTwo
<1>3. ASSUME best'.valid
      PROVE  \E b \in CloudBuckets :
               /\ Settled(b)' /\ best'.bid = b
               /\ best'.dist = Entries'[b].fdist /\ best'.idx = Entries'[b].fidx
  <2>1. CASE best'.bid = x /\ best'.dist = d /\ best'.idx = f
    BY <2>1
  <2>2. CASE best.valid /\ best' = best
    <3>1. PICK b \in CloudBuckets :
            /\ Settled(b) /\ best.bid = b
            /\ best.dist = Entries[b].fdist /\ best.idx = Entries[b].fidx
      BY <2>2 DEF BestInv
    <3>2. b # x
      BY <3>1
    <3> QED BY <2>2, <3>1, <3>2
  <2> QED BY <1>2, <2>1, <2>2
<1>4. ASSUME NEW b \in CloudBuckets, Settled(b)'
      PROVE  \/ best'.dist = Entries'[b].fdist /\ best'.idx = Entries'[b].fidx
             \/ Better(best'.dist, best'.idx, Entries'[b].fdist, Entries'[b].fidx)
  <2>1. CASE b = x
    BY <1>2, <2>1
  <2>2. CASE b # x
    <3> DEFINE e == Entries[b]
    <3>1. Settled(b) /\ Entries'[b] = e
      BY <1>4, <2>2
    <3>2. /\ best.valid
          /\ \/ best.dist = e.fdist /\ best.idx = e.fidx
             \/ Better(best.dist, best.idx, e.fdist, e.fidx)
      BY <3>1 DEF BestInv
    <3>3. e.fdist \in Nat /\ e.fidx \in Nat
      BY <1>1, ViewTypes, ConstantTypes DEF TypeInv, TypeOK, Entry
    <3>4. best.dist \in Nat /\ best.idx \in Nat /\ best'.dist \in Nat /\ best'.idx \in Nat
      BY ConstantTypes DEF TypeInv, TypeOK, WalkType
    <3> HIDE DEF e
    <3> QED BY <1>2, <3>1, <3>2, <3>3, <3>4 DEF Better
  <2> QED BY <2>1, <2>2
<1> QED BY <1>2, <1>3, <1>4 DEF BestInv

(* Deferring and skipping keep the bookkeeping. *)
LEMMA SkipKeeps ==
  ASSUME CoreInv, Skip
  PROVE  CoreInv'
<1> USE DEF CoreInv
<1>1. TypeInv' /\ ControlInv' /\ FetchedInv' /\ ResultInv' /\ LoadedInv'
  BY DecideTypes, DecisionControl
<1>2. /\ Quiet /\ ~firstIter
      /\ best' = BestWith(pend.bid, pend.entry.fdist, pend.entry.fidx)
  BY DEF Skip, RawSkip
<1>3. /\ Entries' = Entries /\ Slots' = Slots /\ Results' = Results
      /\ CloudBuckets' = CloudBuckets /\ cnt' = cnt
  BY <1>2, QuietView, DecisionView
<1>4. /\ state = "ACTION" /\ pend.bid \in CloudBuckets /\ ~Settled(pend.bid)
      /\ pend.entry = Entries[pend.bid] /\ pend.entry \in Entry /\ InJob /\ InIteration
  BY DecisionContext DEF Skip
<1>5. PortInv' /\ PortsClear' /\ MergeNeverOverflows'
  BY <1>2, QuietView DEF PortInv, PortsClear, MergeNeverOverflows
<1>6. RouteInv'
  BY SettledByDecision, DecisionView DEF RouteInv, Distinct
<1>7. ReturnsMatchIssues'
  BY <1>4, SettledByDecision, DecisionView DEF ReturnsMatchIssues, Travelling
<1>8. MergeInv'
  <2>1. cnt \in Nat /\ cnt > 1
    BY <1>2, <1>4, WalkTypes DEF ControlInv
  <2> SUFFICES ASSUME NEW b \in CloudBuckets
               PROVE  /\ Entries[b].mcnt = IF Account(b)' = 0 THEN 0 ELSE Len(Slots[b])
                      /\ \A k \in 1..Entries[b].mcnt :
                           \E i \in 1..Account(b)' : Slots[b][k] = Results[i]
    BY <1>3 DEF MergeInv
  <2>2. /\ Entries[b].mcnt = IF Account(b) = 0 THEN 0 ELSE Len(Slots[b])
        /\ \A k \in 1..Entries[b].mcnt :
             \E i \in 1..Account(b) : Slots[b][k] = Results[i]
    BY <1>4 DEF MergeInv
  <2>3. CASE b # pend.bid
    BY <2>2, <2>3, SettledByDecision
  <2>4. CASE b = pend.bid
    <3>1. Account(b)' = cnt /\ Account(b) = cnt - 1
      BY <1>4, <2>4, SettledByDecision DEF Account
    <3> QED BY <2>1, <2>2, <3>1
  <2> QED BY <2>3, <2>4
<1>9. TaskInv'
  BY <1>3, SettledByDecision, DecisionView DEF TaskInv
<1>10. BestInv'
  BY <1>1, <1>2, <1>3, <1>4, SettledByDecision, BestStep DEF Entry
<1> QED BY <1>1, <1>5, <1>6, <1>7, <1>8, <1>9, <1>10

LEMMA DeferKeeps ==
  ASSUME CoreInv, Defer
  PROVE  CoreInv'
<1> USE DEF CoreInv
<1>1. TypeInv' /\ ControlInv' /\ FetchedInv' /\ ResultInv' /\ LoadedInv'
  BY DecideTypes, DecisionControl
<1> DEFINE x == pend.bid
<1>2. /\ state = "ACTION" /\ x \in CloudBuckets /\ x \in Buckets /\ ~Settled(x)
      /\ x \notin OutstandingBuckets
      /\ pend.entry = Entries[x] /\ pend.entry \in Entry /\ InJob /\ InIteration
  BY DecisionContext DEF Defer
<1>3. /\ Entries \in [Buckets -> Entry] /\ Slots \in [Buckets -> Seq(Points)]
      /\ CloudBuckets \subseteq Buckets
  BY ViewTypes, WalkTypes DEF TypeInv, TypeOK
<1>4. /\ Entries'[x] = [pend.entry EXCEPT !.mcnt = @ + 1]
      /\ Slots'[x] = Append(Slots[x], sample)
      /\ \A b \in Buckets \ {x} : Entries'[b] = Entries[b] /\ Slots'[b] = Slots[b]
  BY <1>2, <1>3, DeferView
<1>5. /\ Results' = Results /\ CloudBuckets' = CloudBuckets /\ cnt' = cnt
      /\ state' = "NEXT" /\ mb' = Slots /\ resPort' = <<>>
  BY DecisionView
<1>6. PortInv' /\ PortsClear' /\ MergeNeverOverflows'
  BY <1>2, <1>5, DeferView, SettledByDecision DEF PortInv, PortsClear, MergeNeverOverflows
<1>7. RouteInv'
  BY SettledByDecision, DecisionView DEF RouteInv, Distinct
<1>8. ReturnsMatchIssues'
  BY <1>2, SettledByDecision, DecisionView DEF ReturnsMatchIssues, Travelling
<1>9. MergeInv'
  <2> SUFFICES ASSUME NEW b \in CloudBuckets
               PROVE  /\ Entries'[b].mcnt = IF Account(b)' = 0 THEN 0 ELSE Len(Slots'[b])
                      /\ \A k \in 1..Entries'[b].mcnt :
                           \E i \in 1..Account(b)' : Slots'[b][k] = Results[i]
    BY <1>5 DEF MergeInv
  <2>1. /\ Entries[b].mcnt = IF Account(b) = 0 THEN 0 ELSE Len(Slots[b])
        /\ \A k \in 1..Entries[b].mcnt :
             \E i \in 1..Account(b) : Slots[b][k] = Results[i]
    BY <1>2 DEF MergeInv
  <2>2. CASE b # x
    BY <1>3, <1>4, <2>1, <2>2, SettledByDecision
  <2>3. CASE b = x
    <3>1. Account(b)' = cnt /\ Account(b) = cnt - 1 /\ cnt \in Nat /\ cnt > 1
      BY <1>2, <2>3, SettledByDecision, DeferView, WalkTypes DEF Account
    <3>2. /\ Len(Slots[x]) = pend.entry.mcnt /\ pend.entry.mcnt \in Nat
          /\ Slots[x] \in Seq(Points)
      BY <1>2, <1>3, DeferView DEF Entry
    <3>3. Entries'[x].mcnt = pend.entry.mcnt + 1 /\ Len(Slots'[x]) = pend.entry.mcnt + 1
      BY <1>2, <1>4, <3>2 DEF Entry
    <3>4. ASSUME NEW k \in 1..pend.entry.mcnt + 1
          PROVE  \E i \in 1..cnt : Slots'[x][k] = Results[i]
      <4>1. CASE k = pend.entry.mcnt + 1
        <5>1. Slots'[x][k] = sample
          BY <1>4, <3>2, <4>1
        <5>2. Results[cnt] = sample
          BY <1>2 DEF ResultInv
        <5> QED BY <3>1, <5>1, <5>2
      <4>2. CASE k # pend.entry.mcnt + 1
        <5>1. k \in 1..Entries[x].mcnt /\ Slots'[x][k] = Slots[x][k]
          BY <1>2, <1>4, <3>2, <4>2
        <5>2. PICK i \in 1..cnt - 1 : Slots[x][k] = Results[i]
          BY <2>1, <2>3, <3>1, <5>1
        <5>3. i \in 1..cnt
          BY <3>1
        <5> QED BY <5>1, <5>2, <5>3
      <4> QED BY <4>1, <4>2
    <3> QED BY <2>3, <3>1, <3>3, <3>4
  <2> QED BY <2>2, <2>3
<1>10. TaskInv'
  <2> SUFFICES ASSUME NEW t \in OutstandingTasks
               PROVE  t.sample = sample /\ t.mcnt = Entries'[t.bid].mcnt
    BY SettledByDecision, DecisionView DEF TaskInv
  <2>1. t.bid \in OutstandingBuckets
    BY DEF OutstandingBuckets
  <2>2. t.bid # x /\ t.bid \in Buckets
    BY <1>2, <1>3, <2>1 DEF RouteInv
  <2> QED BY <1>4, <2>2 DEF TaskInv
<1>11. BestInv'
  <2>1. best' = BestWith(x, pend.entry.fdist, pend.entry.fidx)
    BY DEF Defer
  <2>2. Entries'[x].fdist = pend.entry.fdist /\ Entries'[x].fidx = pend.entry.fidx
    BY <1>2, <1>4 DEF Entry
  <2>3. pend.entry.fdist \in Nat /\ pend.entry.fidx \in Points
    BY <1>2 DEF Entry
  <2>4. \A b \in CloudBuckets \ {x} : Entries'[b] = Entries[b]
    BY <1>3, <1>4
  <2>5. \A b \in CloudBuckets : Settled(b)' <=> Settled(b) \/ b = x
    BY SettledByDecision
  <2> HIDE DEF x, CoreInv
  <2> QED BY <1>1, <1>2, <1>5, <2>1, <2>2, <2>3, <2>4, <2>5, BestStep
<1> QED BY <1>1, <1>6, <1>7, <1>8, <1>9, <1>10, <1>11

-----------------------------------------------------------------------------
(* A recomputed bucket comes back.                                         *)

Returned == Head(fpFifo)

(* Collecting takes one bucket off its way. *)
LEMMA CollectRoute ==
  ASSUME CoreInv, Collect
  PROVE  /\ Returned \in Return /\ Returned.bid \in OutstandingBuckets
         /\ OutstandingBuckets' = OutstandingBuckets \ {Returned.bid}
         /\ OutstandingTasks' = OutstandingTasks
         /\ InFlight \in Nat \ {0} /\ InFlight' = InFlight - 1
         /\ Distinct'
<1> USE DEF CoreInv
<1>1. /\ bktFifo \in Seq(Task) /\ fpFifo \in Seq(Return) /\ fpFifo # <<>>
      /\ fpFifo' = Tail(fpFifo)
      /\ UNCHANGED <<bktFifo, pe, task>>
  BY DEF TypeInv, TypeOK, FifoType, Collect, point
<1>2. /\ DOMAIN fpFifo' = 1..Len(fpFifo) - 1 /\ DOMAIN fpFifo = 1..Len(fpFifo)
      /\ Len(fpFifo') = Len(fpFifo) - 1 /\ Len(fpFifo) \in Nat \ {0} /\ Len(bktFifo) \in Nat
      /\ \A i \in 1..Len(fpFifo) - 1 : fpFifo'[i] = fpFifo[i + 1]
      /\ fpFifo[1] = Returned /\ Returned \in Return
  BY <1>1 DEF Returned
<1>3. InFlight \in Nat \ {0} /\ InFlight' = InFlight - 1
  BY <1>1, <1>2 DEF InFlight
<1>4. OutstandingTasks' = OutstandingTasks
  BY <1>1 DEF OutstandingTasks
<1>5. Returned.bid \in OutstandingBuckets
  BY <1>2, OutstandingIn
<1>6. Distinct
  BY DEF RouteInv
<1> HIDE DEF CoreInv
<1>7. Distinct'
  BY <1>1, <1>2, <1>6 DEF Distinct
<1>8. ASSUME NEW b
      PROVE  b \in OutstandingBuckets' <=> b \in OutstandingBuckets /\ b # Returned.bid
  <2>1. b \in OutstandingBuckets' <=>
          \/ \E i \in DOMAIN bktFifo : b = bktFifo[i].bid
          \/ pe # "IDLE" /\ b = task.bid
          \/ \E i \in DOMAIN fpFifo' : b = fpFifo'[i].bid
    BY <1>1 DEF OutstandingBuckets, OutstandingTasks
  <2>2. (\E i \in DOMAIN fpFifo : b = fpFifo[i].bid) <=>
          b = Returned.bid \/ \E i \in DOMAIN fpFifo' : b = fpFifo'[i].bid
    <3>1. ASSUME NEW i \in DOMAIN fpFifo
          PROVE  i = 1 \/ (i - 1 \in DOMAIN fpFifo' /\ fpFifo'[i - 1] = fpFifo[i])
      BY <1>2
    <3>2. ASSUME NEW i \in DOMAIN fpFifo'
          PROVE  i + 1 \in DOMAIN fpFifo /\ fpFifo'[i] = fpFifo[i + 1]
      BY <1>2
    <3>3. 1 \in DOMAIN fpFifo /\ fpFifo[1] = Returned
      BY <1>2
    <3> QED BY <3>1, <3>2, <3>3
  <2>3. /\ \A i \in DOMAIN bktFifo : bktFifo[i].bid # Returned.bid
        /\ pe # "IDLE" => task.bid # Returned.bid
        /\ \A i \in DOMAIN fpFifo' : fpFifo'[i].bid # Returned.bid
    BY <1>1, <1>2, <1>6 DEF Distinct
  <2> QED BY <2>1, <2>2, <2>3, OutstandingIn
<1> QED BY <1>2, <1>3, <1>4, <1>5, <1>7, <1>8

(* It becomes its bucket's entry and empties its merge slots. *)
LEMMA CollectView ==
  ASSUME CoreInv, Collect
  PROVE  /\ state = "COLLECT" /\ state' \in {"COLLECT", "ITEREND"}
         /\ Returned.bid \in CloudBuckets /\ Returned.bid \in Buckets /\ ~Settled(Returned.bid)
         /\ Returned.dist \in Nat /\ Returned.idx \in Points
         /\ Entries'[Returned.bid] = [fdist |-> Returned.dist, fidx |-> Returned.idx, mcnt |-> 0]
         /\ Slots'[Returned.bid] = <<>>
         /\ \A b \in Buckets \ {Returned.bid} : Entries'[b] = Entries[b] /\ Slots'[b] = Slots[b]
         /\ Results' = Results
         /\ bbPort' = <<[addr  |-> Returned.bid,
                         entry |-> [fdist |-> Returned.dist, fidx |-> Returned.idx, mcnt |-> 0]]>>
         /\ mbPort' = <<[addr |-> Returned.bid, write |-> MergeClear(Returned.idx)]>>
         /\ resPort' = <<>>
         /\ best' = BestWith(Returned.bid, Returned.dist, Returned.idx)
         /\ UNCHANGED <<cloud, sampleN, p0, start, busy, done, cnt, winner,
                        firstIter, sample, pos, issued, pend, mdt, bktFifo,
                        pe, task, pass, refs, far, hold>>
         /\ CloudBuckets' = CloudBuckets
         /\ \A b : Walked(b)' = Walked(b)
         /\ \A b \in CloudBuckets :
              /\ Settled(b)' <=> Settled(b) \/ b = Returned.bid
              /\ Account(b)' = IF b = Returned.bid THEN cnt ELSE Account(b)
<1> USE DEF CoreInv
<1>1. /\ state = "COLLECT" /\ state' \in {"COLLECT", "ITEREND"}
      /\ best' = BestWith(Returned.bid, Returned.dist, Returned.idx)
      /\ Commit
      /\ bbPort' = <<[addr  |-> Returned.bid,
                      entry |-> [fdist |-> Returned.dist, fidx |-> Returned.idx, mcnt |-> 0]]>>
      /\ mbPort' = <<[addr |-> Returned.bid, write |-> MergeClear(Returned.idx)]>>
      /\ resPort' = <<>>
  BY DEF Collect, Drive, Returned
<1>2. UNCHANGED <<cloud, sampleN, p0, start, busy, done, cnt, winner,
                  firstIter, sample, pos, issued, pend, mdt, bktFifo,
                  pe, task, pass, refs, far, hold>>
  BY DEF Collect, host, point
<1>3. /\ Returned \in Return /\ Returned.bid \in OutstandingBuckets
      /\ OutstandingBuckets' = OutstandingBuckets \ {Returned.bid}
  BY CollectRoute
<1>4. /\ Returned.bid \in CloudBuckets /\ Returned.bid \in Buckets /\ Walked(Returned.bid) /\ ~Settled(Returned.bid)
      /\ Returned.dist \in Nat /\ Returned.idx \in Points
  BY <1>3 DEF RouteInv, Settled, Return
<1>5. bb' = Entries /\ mb' = Slots /\ res' = Results
  BY <1>1 DEF Commit, Entries, Slots
<1>6. /\ Entries' = [Entries EXCEPT ![Returned.bid] = [fdist |-> Returned.dist, fidx |-> Returned.idx, mcnt |-> 0]]
      /\ Results' = Results
  BY <1>1, <1>5 DEF Entries, Committed, Results
<1>7. Slots' = [Slots EXCEPT ![Returned.bid] = <<>>]
  <2>1. Slots' = [Slots EXCEPT ![Returned.bid] = MergeWritten(Slots[Returned.bid], MergeClear(Returned.idx))]
    BY <1>1, <1>5 DEF Slots
  <2>2. MergeWritten(Slots[Returned.bid], MergeClear(Returned.idx)) = <<>>
    BY DEF MergeWritten, MergeClear
  <2> QED BY <2>1, <2>2
<1>8. Entries \in [Buckets -> Entry] /\ Slots \in [Buckets -> Seq(Points)]
  BY ViewTypes DEF TypeInv, TypeOK
<1>9. /\ Entries'[Returned.bid] = [fdist |-> Returned.dist, fidx |-> Returned.idx, mcnt |-> 0]
      /\ Slots'[Returned.bid] = <<>>
      /\ \A b \in Buckets \ {Returned.bid} : Entries'[b] = Entries[b] /\ Slots'[b] = Slots[b]
  BY <1>4, <1>6, <1>7, <1>8
<1>10. CloudBuckets' = CloudBuckets
  BY <1>2 DEF CloudBuckets
<1>11. \A b : Walked(b)' = Walked(b)
  <2>1. Decided' = Decided
    BY <1>1, <1>2 DEF Decided
  <2> QED BY <1>2, <2>1 DEF Walked, Position
<1>12. \A b \in CloudBuckets : Settled(b)' <=> Settled(b) \/ b = Returned.bid
  BY <1>3, <1>4, <1>11 DEF Settled
<1>13. \A b \in CloudBuckets : Account(b)' = IF b = Returned.bid THEN cnt ELSE Account(b)
  BY <1>2, <1>12 DEF Account
<1> QED BY <1>1, <1>2, <1>4, <1>6, <1>9, <1>10, <1>11, <1>12, <1>13

(* Collecting keeps the bookkeeping. *)
LEMMA CollectKeeps ==
  ASSUME CoreInv, Collect
  PROVE  CoreInv'
<1> USE DEF CoreInv
<1>1. TypeInv'
  BY CollectTypes
<1>2. InJob /\ InIteration /\ cnt \in Nat /\ cnt >= 1 /\ CloudBuckets \subseteq Buckets
  <2>1. InJob /\ InIteration
    BY DEF Collect, InJob, InIteration, Travelling
  <2> QED BY <2>1, WalkTypes DEF ControlInv
<1>3. ControlInv' /\ FetchedInv' /\ ResultInv' /\ LoadedInv'
  BY CollectView DEF ControlInv, FetchedInv, ResultInv, LoadedInv, InJob,
                           InIteration, Travelling
<1>4. PortInv' /\ PortsClear' /\ MergeNeverOverflows'
  <2>1. Returned.bid \notin OutstandingBuckets'
    BY CollectRoute
  <2> QED BY <2>1, CollectView DEF PortInv, PortsClear, MergeNeverOverflows, MergeClear
<1>5. RouteInv'
  <2>1. IsFiniteSet(OutstandingBuckets')
    BY CollectRoute, FS_RemoveElement DEF RouteInv
  <2>2. \A b \in OutstandingBuckets' : b \in CloudBuckets' /\ Walked(b)'
    BY CollectRoute, CollectView DEF RouteInv
  <2>3. Distinct' /\ pe' = pe /\ hold' = hold /\ task' = task
    BY CollectRoute, CollectView
  <2> QED BY <2>1, <2>2, <2>3 DEF RouteInv
<1>6. ReturnsMatchIssues'
  <2>1. /\ Cardinality(OutstandingBuckets') = Cardinality(OutstandingBuckets) - 1
        /\ InFlight \in Nat \ {0} /\ InFlight' = InFlight - 1
    BY CollectRoute, FS_RemoveElement DEF RouteInv
  <2>2. /\ issued = collected + InFlight /\ Cardinality(OutstandingBuckets) = InFlight
        /\ issued \in Nat /\ collected \in Nat
    BY WalkTypes DEF ReturnsMatchIssues, Travelling, Collect
  <2>3. /\ collected' = collected + 1 /\ issued' = issued
        /\ state' = IF collected + 1 >= issued THEN "ITEREND" ELSE "COLLECT"
    BY DEF Collect, LastReturn
  <2> QED BY <2>1, <2>2, <2>3 DEF ReturnsMatchIssues, Travelling
<1>7. MergeInv'
  <2> SUFFICES ASSUME NEW b \in CloudBuckets
               PROVE  /\ Entries'[b].mcnt = IF Account(b)' = 0 THEN 0 ELSE Len(Slots'[b])
                      /\ \A k \in 1..Entries'[b].mcnt :
                           \E i \in 1..Account(b)' : Slots'[b][k] = Results[i]
    BY CollectView DEF MergeInv
  <2>1. CASE b # Returned.bid
    BY <1>2, <2>1, CollectView DEF MergeInv
  <2>2. CASE b = Returned.bid
    <3>1. Entries'[b].mcnt = 0 /\ Slots'[b] = <<>> /\ Account(b)' = cnt
      BY <2>2, CollectView
    <3>2. \A k \in 1..0 : FALSE
      OBVIOUS
    <3>3. Len(<<>>) = 0
      OBVIOUS
    <3> QED BY <3>1, <3>2, <3>3
  <2> QED BY <2>1, <2>2
<1>8. TaskInv'
  <2> SUFFICES ASSUME NEW t \in OutstandingTasks
               PROVE  t.sample = sample /\ t.mcnt = Entries'[t.bid].mcnt
    BY CollectRoute, CollectView DEF TaskInv
  <2>1. t \in OutstandingTasks'
    BY CollectRoute
  <2>2. t.bid \in OutstandingBuckets' /\ t.bid \in OutstandingBuckets
    BY <2>1 DEF OutstandingBuckets
  <2>3. t.bid # Returned.bid /\ t.bid \in Buckets
    BY <1>2, <2>2, CollectRoute DEF RouteInv
  <2> QED BY <2>3, CollectView DEF TaskInv
<1>9. BestInv'
  <2>1. best' = BestWith(Returned.bid, Entries'[Returned.bid].fdist, Entries'[Returned.bid].fidx)
        /\ Entries'[Returned.bid].fdist \in Nat /\ Entries'[Returned.bid].fidx \in Points
    BY CollectView
  <2>2. /\ CloudBuckets' = CloudBuckets /\ Returned.bid \in CloudBuckets /\ ~Settled(Returned.bid)
        /\ \A b \in CloudBuckets : Settled(b)' <=> Settled(b) \/ b = Returned.bid
        /\ \A b \in CloudBuckets \ {Returned.bid} : Entries'[b] = Entries[b]
    BY <1>2, CollectView
  <2> HIDE DEF CoreInv
  <2> QED BY <1>1, <1>2, <2>1, <2>2, BestStep
<1> QED BY <1>1, <1>3, <1>4, <1>5, <1>6, <1>7, <1>8, <1>9

-----------------------------------------------------------------------------
(* The ends of an iteration and of a job.                                  *)

(* Outside an iteration's walk nothing is on its way. *)
LEMMA NothingBetweenIterations ==
  ASSUME CoreInv, ~Travelling
  PROVE  /\ InFlight = 0 /\ OutstandingBuckets = {} /\ OutstandingTasks = {}
         /\ pe = "IDLE" /\ bktFifo = <<>> /\ fpFifo = <<>>
<1>1. InFlight = 0
  BY DEF CoreInv, ReturnsMatchIssues
<1> QED BY <1>1, NothingOutstanding DEF CoreInv

(* The counting invariants need nothing else while nothing is on its way.  *)
LEMMA NothingKept ==
  ASSUME CoreInv, ~Travelling, ~Travelling',
         UNCHANGED <<bktFifo, fpFifo, pe, task>>
  PROVE  /\ OutstandingBuckets' = {} /\ OutstandingTasks' = {}
         /\ RouteInv' /\ ReturnsMatchIssues' /\ PortsClear' /\ TaskInv'
<1>1. /\ InFlight = 0 /\ OutstandingBuckets = {} /\ OutstandingTasks = {}
      /\ pe = "IDLE" /\ bktFifo = <<>> /\ fpFifo = <<>>
  BY NothingBetweenIterations
<1>2. InFlight' = 0 /\ OutstandingBuckets' = {} /\ OutstandingTasks' = {}
  BY <1>1, RouteView
<1>3. RouteInv'
  BY <1>1, <1>2, FS_EmptySet DEF RouteInv, Distinct
<1>4. ReturnsMatchIssues'
  BY <1>2, FS_EmptySet DEF ReturnsMatchIssues
<1>5. PortsClear' /\ TaskInv'
  BY <1>2 DEF PortsClear, TaskInv
<1> QED BY <1>2, <1>3, <1>4, <1>5

(* When the iteration ends every bucket is settled. *)
LEMMA AllSettled ==
  ASSUME CoreInv, state = "ITEREND", NEW b \in CloudBuckets
  PROVE  Settled(b) /\ Account(b) = cnt
<1>1. b \notin OutstandingBuckets
  BY NothingBetweenIterations DEF Travelling
<1>2. Walked(b)
  BY AllWalked DEF CoreInv
<1> QED BY <1>1, <1>2 DEF Settled, Account

(* The next sample enters the result memory. *)
LEMMA IterEndView ==
  ASSUME CoreInv, IterEnd
  PROVE  /\ state = "ITEREND" /\ state' \in {"ITERINIT", "DONE"}
         /\ Entries' = Entries /\ Slots' = Slots
         /\ bbPort' = <<>> /\ mbPort' = <<>> /\ resPort' # <<>>
         /\ Len(Results) = cnt /\ cnt \in Nat /\ cnt >= 1
         /\ Results' = Append(Results, best.idx)
         /\ best.valid /\ best.bid \in CloudBuckets
         /\ sample' = best.idx /\ winner' = best.bid
         /\ UNCHANGED <<cloud, sampleN, p0, start, busy, done, firstIter, pos, issued,
                        collected, pend, best, mdt, bktFifo, fpFifo, pe, task,
                        pass, refs, far, hold>>
         /\ CloudBuckets' = CloudBuckets
<1> USE DEF CoreInv
<1>1. /\ state = "ITEREND" /\ state' \in {"ITERINIT", "DONE"}
      /\ sample' = best.idx /\ winner' = best.bid
      /\ Commit /\ bbPort' = <<>> /\ mbPort' = <<>>
      /\ resPort' = <<[addr |-> cnt, idx |-> best.idx]>>
      /\ UNCHANGED <<cloud, sampleN, p0, start, busy, done, firstIter, pos, issued,
                     collected, pend, best, mdt, bktFifo, fpFifo, pe, task,
                     pass, refs, far, hold>>
  BY DEF IterEnd, Drive, host, walk, point
<1>2. bb' = Entries /\ mb' = Slots /\ res' = Results
  BY <1>1 DEF Commit, Entries, Slots
<1>3. Entries' = Entries /\ Slots' = Slots
  BY <1>1, <1>2 DEF Entries, Committed, Slots
<1>4. Len(Results) = cnt /\ cnt \in Nat /\ cnt >= 1 /\ Results \in Seq(Places)
  <2>1. InJob
    BY <1>1 DEF InJob
  <2> QED BY <2>1, WalkTypes, ViewTypes DEF ResultInv, ControlInv, TypeInv, TypeOK
<1>5. Results' = Append(Results, best.idx)
  <2>1. Results' = ResultWritten(Results, [addr |-> cnt, idx |-> best.idx])
    BY <1>1, <1>2 DEF Results
  <2>2. Results' = [i \in 1..(cnt + 1) |->
                      IF i = cnt + 1 THEN best.idx
                      ELSE IF i <= cnt THEN Results[i] ELSE Origin]
    BY <1>4, <2>1 DEF ResultWritten
  <2> DEFINE r == Results
             x == best.idx
             f == [i \in 1..(cnt + 1) |->
                     IF i = cnt + 1 THEN x ELSE IF i <= cnt THEN r[i] ELSE Origin]
  <2>3. x \in Places
    BY ConstantTypes DEF TypeInv, TypeOK, WalkType, Places
  <2>4. f = Append(r, x)
    <3>1. r \in Seq(Places) /\ Len(r) = cnt /\ cnt \in Nat
      BY <1>4
    <3> HIDE DEF r, x
    <3>2. /\ Append(r, x) \in Seq(Places) /\ Len(Append(r, x)) = cnt + 1
          /\ \A i \in 1..cnt : Append(r, x)[i] = r[i]
          /\ Append(r, x)[cnt + 1] = x
      BY <2>3, <3>1
    <3>3. DOMAIN Append(r, x) = 1..cnt + 1
      BY <3>2
    <3>4. \A i \in 1..cnt + 1 : f[i] = Append(r, x)[i]
      BY <3>1, <3>2
    <3>5. Append(r, x) \in [1..cnt + 1 -> Places] /\ f \in [1..cnt + 1 -> Places]
      BY <3>2, <3>4, LenProperties
    <3> QED BY <3>4, <3>5
  <2> QED BY <2>2, <2>4
<1>6. best.valid /\ best.bid \in CloudBuckets
  <2>1. InIteration /\ InJob
    BY <1>1 DEF InIteration, InJob
  <2>2. 0 \in CloudBuckets
    BY WalkTypes DEF CloudBuckets
  <2>3. Settled(0)
    BY <1>1, <2>2, AllSettled
  <2> QED BY <2>1, <2>2, <2>3 DEF BestInv
<1>7. CloudBuckets' = CloudBuckets
  BY <1>1 DEF CloudBuckets
<1> QED BY <1>1, <1>3, <1>4, <1>5, <1>6, <1>7

(* The end of an iteration keeps the bookkeeping. *)
LEMMA IterEndKeeps ==
  ASSUME CoreInv, IterEnd
  PROVE  CoreInv'
<1> USE DEF CoreInv
<1>1. TypeInv'
  BY StartTypes
<1>2. cnt \in Nat /\ sampleN \in Nat /\ InJob /\ InIteration
      /\ Results \in Seq(Places) /\ best.idx \in Places
  BY WalkTypes, ViewTypes, ConstantTypes
     DEF IterEnd, InJob, InIteration, TypeInv, TypeOK, WalkType
<1>3. \/ state' = "DONE" /\ cnt + 1 >= sampleN /\ cnt' = cnt
      \/ state' = "ITERINIT" /\ cnt + 1 < sampleN /\ cnt' = cnt + 1
  BY <1>2 DEF IterEnd, Enough
<1>4. busy
  BY <1>2 DEF ControlInv
<1>5. ControlInv'
  <2>1. busy' /\ winner' \in CloudBuckets' /\ sampleN' = sampleN
    BY <1>4, IterEndView
  <2> QED BY <1>2, <1>3, <2>1 DEF ControlInv, InJob, InIteration, Travelling
<1>6. FetchedInv' /\ LoadedInv'
  BY <1>3 DEF FetchedInv, LoadedInv
<1>7. PortInv' /\ MergeNeverOverflows'
  <2>1. busy'
    BY <1>4, IterEndView
  <2>2. state' \in {"ITERINIT", "DONE"} /\ bbPort' = <<>> /\ mbPort' = <<>>
    BY IterEndView
  <2> QED BY <2>1, <2>2 DEF PortInv, MergeNeverOverflows
<1>8. ResultInv'
  <2>1. /\ Len(Results') = cnt + 1 /\ Results'[cnt + 1] = sample'
    BY <1>2, IterEndView
  <2>2. sampleN' = sampleN
    BY IterEndView
  <2> QED BY <1>2, <1>3, <2>1, <2>2 DEF ResultInv, InJob
<1>9. RouteInv' /\ ReturnsMatchIssues' /\ PortsClear' /\ TaskInv'
  BY <1>3, IterEndView, NothingKept DEF Travelling
<1>10. MergeInv'
  <2> SUFFICES ASSUME InJob', NEW b \in CloudBuckets
               PROVE  /\ Entries[b].mcnt = IF Account(b)' = 0 THEN 0 ELSE Len(Slots[b])
                      /\ \A k \in 1..Entries[b].mcnt :
                           \E i \in 1..Account(b)' : Slots[b][k] = Results'[i]
    BY IterEndView DEF MergeInv
  <2>1. state' = "ITERINIT" /\ cnt' = cnt + 1
    BY <1>3 DEF InJob
  <2>2. Account(b) = cnt
    BY AllSettled DEF IterEnd
  <2>3. Account(b)' = cnt
    <3>1. winner' \in Nat /\ b \in Nat
      BY <1>1, WalkTypes, IterEndView DEF CloudBuckets
    <3>2. ~Walked(b)'
      BY <2>1, <3>1 DEF Walked, Position, Decided
    <3> QED BY <1>2, <2>1, <3>2 DEF Account, Settled
  <2>4. \A i \in 1..cnt : Results'[i] = Results[i]
    BY <1>2, IterEndView
  <2> QED BY <1>2, <2>2, <2>3, <2>4 DEF MergeInv
<1>11. BestInv'
  BY <1>3 DEF BestInv, InIteration, Travelling
<1> QED BY <1>1, <1>5, <1>6, <1>7, <1>8, <1>9, <1>10, <1>11

(* A job begins with its first sample and the counts the host has loaded.  *)
LEMMA StartView ==
  ASSUME CoreInv, Start
  PROVE  /\ state = "IDLE" /\ start /\ ~done /\ state' = "INITP0"
         /\ Entries' = bb /\ Slots' = mb /\ Results' = <<p0>>
         /\ bbPort' = <<>> /\ mbPort' = <<>> /\ resPort' # <<>>
         /\ busy' /\ ~done' /\ cnt' = 1 /\ winner' = 0 /\ sample' = p0
         /\ UNCHANGED <<cloud, sampleN, p0, start, firstIter, pos, issued,
                        collected, pend, best, mdt, bktFifo, fpFifo, pe, task,
                        pass, refs, far, hold>>
         /\ CloudBuckets' = CloudBuckets
         /\ \A b \in CloudBuckets : ~Walked(b)' /\ Account(b)' = 0
<1> USE DEF CoreInv
<1>1. /\ state = "IDLE" /\ start /\ state' = "INITP0"
      /\ bbPort' = <<>> /\ mbPort' = <<>>
      /\ resPort' = <<[addr |-> 0, idx |-> p0]>>
      /\ busy' /\ ~done' /\ cnt' = 1 /\ winner' = 0 /\ sample' = p0 /\ Commit
      /\ UNCHANGED <<cloud, sampleN, p0, start, firstIter, pos, issued,
                     collected, pend, best, mdt, bktFifo, fpFifo, pe, task,
                     pass, refs, far, hold>>
  BY DEF Start, Drive, host, walk, point
<1>2. bbPort = <<>> /\ mbPort = <<>> /\ resPort = <<>> /\ ~done
  BY <1>1 DEF PortInv, ControlInv
<1>3. bb' = bb /\ mb' = mb /\ res' = res
  BY <1>1, <1>2 DEF Commit, Committed, Results
<1>4. Entries' = bb /\ Slots' = mb
  BY <1>1, <1>3 DEF Entries, Committed, Slots
<1>5. Results' = <<p0>>
  <2>1. Results' = ResultWritten(res, [addr |-> 0, idx |-> p0])
    BY <1>1, <1>3 DEF Results
  <2>2. Results' = [i \in 1..1 |-> IF i = 1 THEN p0 ELSE IF i <= Len(res) THEN res[i] ELSE Origin]
    BY <2>1 DEF ResultWritten
  <2> QED BY <2>2
<1>6. CloudBuckets' = CloudBuckets
  BY <1>1 DEF CloudBuckets
<1>7. ASSUME NEW b \in CloudBuckets
      PROVE  ~Walked(b)' /\ Account(b)' = 0
  <2>1. b \in Nat
    BY WalkTypes DEF CloudBuckets
  <2>2. ~Walked(b)'
    BY <1>1, <2>1 DEF Walked, Position, Decided
  <2> QED BY <1>1, <2>2 DEF Account, Settled
<1> QED BY <1>1, <1>2, <1>4, <1>5, <1>6, <1>7

LEMMA StartKeeps ==
  ASSUME CoreInv, Start
  PROVE  CoreInv'
<1> USE DEF CoreInv
<1>1. TypeInv'
  BY StartTypes
<1>2. ControlInv'
  <2>1. 0 \in CloudBuckets
    BY WalkTypes DEF CloudBuckets
  <2> QED BY <2>1, StartView DEF ControlInv, InJob, InIteration, Travelling
<1>3. FetchedInv' /\ LoadedInv' /\ BestInv'
  BY StartView DEF FetchedInv, LoadedInv, BestInv, InIteration, Travelling
<1>4. PortInv' /\ MergeNeverOverflows'
  BY StartView DEF PortInv, MergeNeverOverflows
<1>5. ResultInv'
  <2>1. Len(<<p0>>) = 1 /\ <<p0>>[1] = p0
    OBVIOUS
  <2> QED BY <2>1, StartView DEF ResultInv
<1>6. RouteInv' /\ ReturnsMatchIssues' /\ PortsClear' /\ TaskInv'
  BY StartView, NothingKept DEF Travelling
<1>7. MergeInv'
  <2>1. \A b \in CloudBuckets : bb[b].mcnt = 0
    BY StartView DEF LoadedInv
  <2>2. \A k \in 1..0 : FALSE
    OBVIOUS
  <2> QED BY <2>1, <2>2, StartView DEF MergeInv
<1> QED BY <1>1, <1>2, <1>3, <1>4, <1>5, <1>6, <1>7

-----------------------------------------------------------------------------
(* The point engine, the host and the reset.                               *)

(* What no step of the point engine touches. *)
LEMMA PointView ==
  ASSUME PointEngine
  PROVE  /\ UNCHANGED <<host, control, walk, ports, memory>>
         /\ UNCHANGED <<cloud, sampleN, p0, start, state, busy, done, cnt, winner,
                        firstIter, sample, pos, issued, collected, pend, best,
                        bbPort, mbPort, resPort, bb, mb, res>>
         /\ Entries' = Entries /\ Slots' = Slots /\ Results' = Results
         /\ CloudBuckets' = CloudBuckets
         /\ \A b : Walked(b)' = Walked(b)
<1>1. UNCHANGED <<host, control, walk, ports, memory>>
  BY DEF PointEngine, Accept, LoadMerge, Stream, CollectFar, Push
<1>2. UNCHANGED <<cloud, sampleN, p0, start, state, busy, done, cnt, winner,
                  firstIter, sample, pos, issued, collected, pend, best,
                  bbPort, mbPort, resPort, bb, mb, res>>
  BY <1>1 DEF host, control, walk, ports, memory
<1>3. Entries' = Entries /\ Slots' = Slots /\ Results' = Results
  BY <1>2 DEF Entries, Committed, Slots, Results
<1> QED BY <1>1, <1>2, <1>3 DEF CloudBuckets, Walked, Position, Decided

(* A bucket moves along its route, from one place to the next. *)
LEMMA PointRoute ==
  ASSUME CoreInv, PointEngine
  PROVE  /\ OutstandingBuckets' = OutstandingBuckets
         /\ OutstandingTasks' \subseteq OutstandingTasks
         /\ InFlight' = InFlight
         /\ Distinct'
         /\ pe' = "PUSH" => hold'.bid = task'.bid
<1>0. /\ bktFifo \in Seq(Task) /\ fpFifo \in Seq(Return)
      /\ Len(bktFifo) \in Nat /\ Len(fpFifo) \in Nat
      /\ DOMAIN bktFifo = 1..Len(bktFifo) /\ DOMAIN fpFifo = 1..Len(fpFifo)
  BY DEF CoreInv, TypeInv, TypeOK, FifoType
<1>1. Distinct /\ (pe = "PUSH" => hold.bid = task.bid)
  BY DEF CoreInv, RouteInv
<1>2. CASE Accept
  <2>1. /\ pe = "IDLE" /\ pe' = "LDMERGE" /\ bktFifo # <<>>
        /\ task' = Head(bktFifo) /\ bktFifo' = Tail(bktFifo) /\ fpFifo' = fpFifo
    BY <1>2 DEF Accept
  <2>2. /\ Len(bktFifo') = Len(bktFifo) - 1 /\ Len(bktFifo) >= 1
        /\ DOMAIN bktFifo' = 1..Len(bktFifo) - 1
        /\ \A i \in 1..Len(bktFifo) - 1 : bktFifo'[i] = bktFifo[i + 1]
        /\ bktFifo[1] = task'
    BY <1>0, <2>1
  <2>3. InFlight' = InFlight
    BY <1>0, <2>1, <2>2 DEF InFlight
  <2>4. Distinct'
    BY <1>0, <1>1, <2>1, <2>2 DEF Distinct
  <2>5. /\ \A i \in DOMAIN bktFifo :
              i = 1 \/ (i - 1 \in DOMAIN bktFifo' /\ bktFifo'[i - 1] = bktFifo[i])
        /\ \A i \in DOMAIN bktFifo' :
              i + 1 \in DOMAIN bktFifo /\ bktFifo'[i] = bktFifo[i + 1]
        /\ 1 \in DOMAIN bktFifo
    BY <1>0, <2>2
  <2>6. OutstandingTasks' = OutstandingTasks
    <3>1. {bktFifo[i] : i \in DOMAIN bktFifo} =
            {bktFifo'[i] : i \in DOMAIN bktFifo'} \cup {task'}
      BY <2>2, <2>5
    <3> QED BY <2>1, <3>1 DEF OutstandingTasks
  <2>7. OutstandingBuckets' = OutstandingBuckets
    BY <2>1, <2>6 DEF OutstandingBuckets
  <2> QED BY <2>1, <2>3, <2>4, <2>6, <2>7
<1>3. CASE Push
  <2>1. /\ pe = "PUSH" /\ pe' = "IDLE" /\ fpFifo' = Append(fpFifo, hold)
        /\ UNCHANGED <<bktFifo, task>> /\ hold.bid = task.bid
    BY <1>1, <1>3 DEF Push
  <2>2. /\ Len(fpFifo') = Len(fpFifo) + 1
        /\ DOMAIN fpFifo' = 1..Len(fpFifo) + 1
        /\ \A i \in 1..Len(fpFifo) : fpFifo'[i] = fpFifo[i]
        /\ fpFifo'[Len(fpFifo) + 1] = hold
    BY <1>0, <2>1
  <2>3. InFlight' = InFlight
    BY <1>0, <2>1, <2>2 DEF InFlight
  <2>4. Distinct'
    BY <1>0, <1>1, <2>1, <2>2 DEF Distinct
  <2>5. /\ OutstandingTasks' = {bktFifo[i] : i \in DOMAIN bktFifo}
        /\ OutstandingTasks = {bktFifo[i] : i \in DOMAIN bktFifo} \cup {task}
    BY <2>1 DEF OutstandingTasks
  <2>6. {fpFifo'[i].bid : i \in DOMAIN fpFifo'} =
          {fpFifo[i].bid : i \in DOMAIN fpFifo} \cup {task.bid}
    BY <1>0, <2>1, <2>2
  <2>7. OutstandingBuckets' = OutstandingBuckets
    BY <2>5, <2>6 DEF OutstandingBuckets
  <2> QED BY <2>1, <2>3, <2>4, <2>5, <2>7
<1>4. CASE LoadMerge \/ Stream \/ CollectFar
  <2>1. /\ pe # "IDLE" /\ pe' # "IDLE" /\ UNCHANGED <<bktFifo, fpFifo, task>>
        /\ pe' = "PUSH" => hold'.bid = task.bid
    BY <1>4 DEF LoadMerge, Stream, CollectFar
  <2>2. OutstandingTasks' = OutstandingTasks
    BY <2>1 DEF OutstandingTasks
  <2>3. OutstandingBuckets' = OutstandingBuckets
    BY <2>1, <2>2 DEF OutstandingBuckets
  <2>4. InFlight' = InFlight /\ Distinct'
    BY <1>1, <2>1 DEF InFlight, Distinct
  <2> QED BY <2>1, <2>2, <2>3, <2>4
<1> QED BY <1>2, <1>3, <1>4 DEF PointEngine

(* The point engine keeps the bookkeeping. *)
LEMMA PointKeeps ==
  ASSUME CoreInv, PointEngine
  PROVE  CoreInv'
<1> USE DEF CoreInv
<1>1. TypeInv'
  BY PointStepTypes
<1>2. \A b : Settled(b)' = Settled(b) /\ Account(b)' = Account(b)
  BY PointView, PointRoute DEF Settled, Account
<1>3. ControlInv' /\ FetchedInv' /\ PortInv' /\ MergeNeverOverflows' /\ ResultInv'
      /\ LoadedInv'
  BY PointView DEF ControlInv, FetchedInv, PortInv, MergeNeverOverflows, ResultInv,
                   LoadedInv, InJob, InIteration, Travelling, TravelBid
<1>4. PortsClear' /\ RouteInv' /\ ReturnsMatchIssues'
  BY PointView, PointRoute DEF PortsClear, RouteInv, ReturnsMatchIssues, Travelling
<1>5. MergeInv' /\ BestInv'
  BY <1>2, PointView DEF MergeInv, BestInv, InJob, InIteration, Travelling
<1>6. TaskInv'
  BY PointView, PointRoute DEF TaskInv
<1> QED BY <1>1, <1>3, <1>4, <1>5, <1>6

(* The host acts on an idle core.                                          *)
LEMMA HostKeeps ==
  ASSUME CoreInv, HostStart \/ HostRelease
  PROVE  CoreInv'
<1> USE DEF CoreInv
<1>1. TypeInv'
  BY HostStepTypes
<1>2. /\ UNCHANGED <<state, busy, done, cnt, winner, firstIter, sample, pos, issued,
                     collected, pend, best, bbPort, mbPort, resPort, mb, res,
                     bktFifo, fpFifo, pe, task, hold>>
  BY DEF HostStart, HostRelease, control, walk, ports, memory, point
<1>3. Slots' = Slots /\ Results' = Results
  BY <1>2 DEF Slots, Results
<1>4. UNCHANGED <<OutstandingBuckets, OutstandingTasks, InFlight>>
  BY <1>2, RouteView
<1>5. CASE HostRelease
  <2>1. start' = FALSE /\ UNCHANGED <<cloud, sampleN, p0, bb, mdt>>
    BY <1>5 DEF HostRelease, memory
  <2>2. /\ Entries' = Entries /\ CloudBuckets' = CloudBuckets
        /\ \A b : Walked(b)' = Walked(b)
    BY <1>2, <2>1 DEF Entries, Committed, CloudBuckets, Walked, Position, Decided
  <2>3. \A b : Settled(b)' = Settled(b) /\ Account(b)' = Account(b)
    BY <1>2, <1>4, <2>2 DEF Settled, Account
  <2>4. ControlInv' /\ FetchedInv' /\ PortInv' /\ MergeNeverOverflows' /\ ResultInv'
        /\ LoadedInv'
    BY <1>2, <1>3, <2>1, <2>2
       DEF ControlInv, FetchedInv, PortInv, MergeNeverOverflows, ResultInv,
           LoadedInv, InJob, InIteration, Travelling, TravelBid
  <2>5. PortsClear' /\ RouteInv' /\ ReturnsMatchIssues'
    BY <1>2, <1>4, <2>2 DEF PortsClear, RouteInv, Distinct, ReturnsMatchIssues, Travelling
  <2>6. MergeInv' /\ BestInv' /\ TaskInv'
    BY <1>2, <1>3, <1>4, <2>2, <2>3
       DEF MergeInv, BestInv, TaskInv, InJob, InIteration, Travelling
  <2> QED BY <1>1, <2>4, <2>5, <2>6
<1>6. CASE HostStart
  <2>1. /\ ~busy /\ ~done /\ cloud' \in Clouds
        /\ \E d \in {0, Inf} :
             bb' = [b \in Buckets |->
                      IF b <= LastBucket(cloud') THEN HostEntry(cloud', b, d) ELSE bb[b]]
    <3>1. cloud \in Clouds /\ Reload(cloud) \subseteq Clouds
      BY WalkTypes, CloudAssumption
    <3> QED BY <1>6, <3>1 DEF HostStart
  <2>2. state = "IDLE" /\ state' = "IDLE"
    BY <1>2, <2>1 DEF TypeInv, WalkInCloud
  <2>3. ControlInv' /\ FetchedInv' /\ PortInv' /\ MergeNeverOverflows' /\ ResultInv'
        /\ MergeInv' /\ BestInv'
    BY <1>2, <2>1, <2>2
       DEF ControlInv, FetchedInv, PortInv, MergeNeverOverflows, ResultInv, MergeInv,
           BestInv, InJob, InIteration, Travelling
  <2>4. RouteInv' /\ ReturnsMatchIssues' /\ PortsClear' /\ TaskInv'
    BY <1>2, <2>2, NothingKept DEF Travelling
  <2>5. LoadedInv'
    <3>1. CloudBuckets' \subseteq Buckets /\ \A b \in CloudBuckets' : b <= LastBucket(cloud')
      BY <2>1, CloudAssumption, ConstantTypes DEF CloudBuckets
    <3>2. \A b \in CloudBuckets' : bb'[b].mcnt = 0
      BY <2>1, <3>1 DEF HostEntry
    <3> QED BY <3>2 DEF LoadedInv
  <2> QED BY <1>1, <2>3, <2>4, <2>5
<1> QED BY <1>5, <1>6

(* A reset leaves nothing on its way. *)
LEMMA ResetKeeps ==
  ASSUME CoreInv, Reset
  PROVE  CoreInv'
<1> USE DEF CoreInv
<1>1. TypeInv'
  BY ResetTypes
<1>2. /\ state' = "IDLE" /\ ~busy' /\ ~start' /\ ~done'
      /\ bbPort' = <<>> /\ mbPort' = <<>> /\ resPort' = <<>>
      /\ bktFifo' = <<>> /\ fpFifo' = <<>> /\ pe' = "IDLE"
  BY DEF Reset, Drive
<1>3. ControlInv' /\ FetchedInv' /\ PortInv' /\ MergeNeverOverflows' /\ ResultInv'
      /\ LoadedInv' /\ MergeInv' /\ BestInv'
  BY <1>2 DEF ControlInv, FetchedInv, PortInv, MergeNeverOverflows, ResultInv,
              LoadedInv, MergeInv, BestInv, InJob, InIteration, Travelling
<1>4. InFlight' = 0 /\ OutstandingBuckets' = {} /\ OutstandingTasks' = {}
  BY <1>2 DEF InFlight, OutstandingBuckets, OutstandingTasks
<1>5. RouteInv' /\ ReturnsMatchIssues' /\ PortsClear' /\ TaskInv'
  BY <1>2, <1>4, FS_EmptySet
     DEF RouteInv, Distinct, ReturnsMatchIssues, PortsClear, TaskInv, Travelling
<1> QED BY <1>1, <1>3, <1>5

-----------------------------------------------------------------------------
(* The invariant.                                                          *)

(* It holds after power-up ... *)
LEMMA InitCoreInv == Init => CoreInv
<1> SUFFICES ASSUME Init PROVE CoreInv
  OBVIOUS
<1>1. TypeInv
  BY InitTypes
<1>2. /\ state = "IDLE" /\ ~busy /\ ~start /\ ~done
      /\ bbPort = <<>> /\ mbPort = <<>> /\ resPort = <<>>
      /\ bktFifo = <<>> /\ fpFifo = <<>> /\ pe = "IDLE"
  BY DEF Init
<1>3. ControlInv /\ FetchedInv /\ PortInv /\ MergeNeverOverflows /\ ResultInv
      /\ LoadedInv /\ MergeInv /\ BestInv
  BY <1>2 DEF ControlInv, FetchedInv, PortInv, MergeNeverOverflows, ResultInv,
              LoadedInv, MergeInv, BestInv, InJob, InIteration, Travelling
<1>4. InFlight = 0 /\ OutstandingBuckets = {} /\ OutstandingTasks = {}
  BY <1>2 DEF InFlight, OutstandingBuckets, OutstandingTasks
<1>5. RouteInv /\ ReturnsMatchIssues /\ PortsClear /\ TaskInv
  BY <1>2, <1>4, FS_EmptySet
     DEF RouteInv, Distinct, ReturnsMatchIssues, PortsClear, TaskInv, Travelling
<1> QED BY <1>1, <1>3, <1>5 DEF CoreInv

(* ... and every step keeps it. *)
LEMMA StepCoreInv == CoreInv /\ [Next]_vars => CoreInv'
<1> SUFFICES ASSUME CoreInv, [Next]_vars PROVE CoreInv'
  OBVIOUS
<1>1. CASE BucketEngine
  BY <1>1, MovesKeep, IssueKeeps, SkipKeeps, DeferKeeps, CollectKeeps, StartKeeps,
     IterEndKeeps DEF BucketEngine, Moves
<1>2. CASE PointEngine
  BY <1>2, PointKeeps
<1>3. CASE HostStart \/ HostRelease
  BY <1>3, HostKeeps
<1>4. CASE Reset
  BY <1>4, ResetKeeps
<1>5. CASE UNCHANGED vars
  <2> USE DEF CoreInv
  <2>1. TypeInv'
    BY <1>5, StepTypes
  <2>2. UNCHANGED <<cloud, sampleN, p0, start, state, busy, done, cnt, winner,
                    firstIter, sample, pos, issued, collected, pend, best,
                    bbPort, mbPort, resPort, bb, mb, res, bktFifo, fpFifo,
                    pe, task, hold>>
    BY <1>5 DEF vars, host, control, walk, ports, memory, point
  <2>3. /\ Entries' = Entries /\ Slots' = Slots /\ Results' = Results
        /\ CloudBuckets' = CloudBuckets
        /\ \A b : Walked(b)' = Walked(b)
    BY <2>2 DEF Entries, Committed, Slots, Results, CloudBuckets, Walked, Position,
                Decided
  <2>4. UNCHANGED <<OutstandingBuckets, OutstandingTasks, InFlight>>
    BY <2>2, RouteView
  <2>5. \A b : Settled(b)' = Settled(b) /\ Account(b)' = Account(b)
    BY <2>2, <2>3, <2>4 DEF Settled, Account
  <2>6. ControlInv' /\ FetchedInv' /\ PortInv' /\ MergeNeverOverflows' /\ ResultInv'
        /\ LoadedInv'
    BY <2>2, <2>3
       DEF ControlInv, FetchedInv, PortInv, MergeNeverOverflows, ResultInv,
           LoadedInv, InJob, InIteration, Travelling, TravelBid
  <2>7. PortsClear' /\ RouteInv' /\ ReturnsMatchIssues'
    BY <2>2, <2>3, <2>4
       DEF PortsClear, RouteInv, Distinct, ReturnsMatchIssues, Travelling
  <2>8. MergeInv' /\ BestInv' /\ TaskInv'
    BY <2>2, <2>3, <2>4, <2>5
       DEF MergeInv, BestInv, TaskInv, InJob, InIteration, Travelling
  <2> QED BY <2>1, <2>6, <2>7, <2>8
<1> QED BY <1>1, <1>2, <1>3, <1>4, <1>5 DEF Next

LEMMA CoreInvariant == Spec => []CoreInv
BY InitCoreInv, StepCoreInv, PTL DEF Spec

(* The collector's count is right: while an iteration lasts, the buckets   *)
(* issued are those collected and those on their way, each in one place    *)
(* (bucket_engine.v, "collect_cnt + 1 >= issued_cnt").                     *)
THEOREM ReturnsCounted == Spec => []ReturnsMatchIssues
<1>1. CoreInv => ReturnsMatchIssues
  BY DEF CoreInv
<1> QED BY <1>1, CoreInvariant, PTL

(* No push of the bucket engine meets a full merge buffer, although it     *)
(* tests the count of a bucket entry it has read an edge earlier.          *)
THEOREM MergesFit == Spec => []MergeNeverOverflows
<1>1. CoreInv => MergeNeverOverflows
  BY DEF CoreInv
<1> QED BY <1>1, CoreInvariant, PTL

(* When the core is not busy nothing of the last job is on its way to a    *)
(* memory, so that the host's writes collide with none.                    *)
THEOREM HostUndisturbed == Spec => []QuietWhenNotBusy
<1>1. CoreInv => QuietWhenNotBusy
  <2> SUFFICES ASSUME CoreInv, ~busy PROVE
        bbPort = <<>> /\ mbPort = <<>> /\ resPort = <<>> /\ InFlight = 0
    BY DEF QuietWhenNotBusy
  <2>1. state \in {"IDLE", "DONE"}
    BY DEF CoreInv, ControlInv, InJob
  <2>2. InFlight = 0
    BY <2>1, NothingBetweenIterations DEF Travelling
  <2> QED BY <2>1, <2>2 DEF CoreInv, PortInv
<1> QED BY <1>1, CoreInvariant, PTL

(* The merge slots a descriptor refers to are all there and stay as they   *)
(* are until the point engine has read them, at whatever pace it does.     *)
THEOREM ReferencesKept == Spec => []FrozenReferences
<1>1. CoreInv => FrozenReferences
  <2> SUFFICES ASSUME CoreInv PROVE FrozenReferences
    OBVIOUS
  <2>1. ASSUME NEW t \in OutstandingTasks
        PROVE  /\ t.sample = sample
               /\ IF firstIter THEN t.mcnt = 0 ELSE t.mcnt = Len(mb[t.bid])
               /\ \A k \in 1..t.mcnt : \E i \in 1..cnt - 1 : mb[t.bid][k] = Results[i]
    <3>1. Travelling
      BY NothingBetweenIterations
    <3>2. InJob /\ InIteration
      BY <3>1 DEF Travelling, InJob, InIteration
    <3>3. t.bid \in OutstandingBuckets
      BY DEF OutstandingBuckets
    <3>4. t.bid \in CloudBuckets /\ t.bid \in Buckets /\ Account(t.bid) = cnt - 1
      BY <3>3, WalkTypes DEF CoreInv, RouteInv, Account, Settled
    <3>5. Slots[t.bid] = mb[t.bid]
      <4>1. CASE mbPort = <<>>
        BY <4>1 DEF Slots
      <4>2. CASE mbPort # <<>>
        <5>1. mbPort[1].addr # t.bid
          BY <3>3, <4>2 DEF CoreInv, PortsClear, TypeInv, TypeOK, PortType
        <5> QED BY <3>4, <4>2, <5>1 DEF Slots, CoreInv, TypeInv, TypeOK, MemoryType
      <4> QED BY <4>1, <4>2
    <3>6. t.sample = sample /\ t.mcnt = Entries[t.bid].mcnt
      BY DEF CoreInv, TaskInv
    <3>7. /\ Entries[t.bid].mcnt = IF cnt - 1 = 0 THEN 0 ELSE Len(Slots[t.bid])
          /\ \A k \in 1..Entries[t.bid].mcnt :
               \E i \in 1..cnt - 1 : Slots[t.bid][k] = Results[i]
      BY <3>2, <3>4 DEF CoreInv, MergeInv
    <3>8. cnt \in Nat /\ (firstIter <=> cnt = 1)
      BY <3>2, WalkTypes DEF CoreInv, ControlInv
    <3> QED BY <3>5, <3>6, <3>7, <3>8
  <2> QED BY <2>1 DEF FrozenReferences, CoreInv, PortsClear
<1> QED BY <1>1, CoreInvariant, PTL

-----------------------------------------------------------------------------
(* The core samples exactly: what it has not recomputed is accounted for   *)
(* in the merge slots and the far points of the buckets, and so the sample *)
(* it takes is the farthest point.                                         *)

(* The distance kept for p is that of one of the first n samples, or none. *)
Sound(p, n) ==
  mdt[p] = Inf \/ \E i \in 1..n : mdt[p] = Dist(cloud, p, Results[i])

(* No sample of the first n is nearer to p of bucket b than the distance   *)
(* kept for p and the merges the bucket still has to apply.                *)
Covered(b, p, n) ==
  \A i \in 1..n :
    \/ mdt[p] <= Dist(cloud, p, Results[i])
    \/ \E k \in 1..Entries[b].mcnt :
         Dist(cloud, p, Slots[b][k]) <= Dist(cloud, p, Results[i])

(* The entry names a point of the bucket with its distance to the first n  *)
(* samples, and any other point has one of them that is nearer, or as near *)
(* if its index is larger.                                                 *)
Summary(b, n) ==
  /\ Entries[b].fidx \in Members(cloud, b)
  /\ \A i \in 1..n : Entries[b].fdist <= Dist(cloud, Entries[b].fidx, Results[i])
  /\ \E i \in 1..n : Entries[b].fdist = Dist(cloud, Entries[b].fidx, Results[i])
  /\ \A p \in Members(cloud, b) \ {Entries[b].fidx} :
       \E i \in 1..n : Better(Entries[b].fdist, Entries[b].fidx,
                              Dist(cloud, p, Results[i]), p)

BucketInv(b) ==
  /\ \A p \in Members(cloud, b) : Sound(p, IF Walked(b) THEN cnt ELSE cnt - 1)
  /\ \A p \in Members(cloud, b) : Covered(b, p, Account(b))
  /\ Account(b) >= 1 => Summary(b, Account(b))

DistanceInv == InJob => \A b \in CloudBuckets : BucketInv(b)

LoadedDistances == state = "IDLE" /\ start => \A p \in Points : mdt[p] = Inf

(* (d, x) is the far point of bucket b in the distance memory. *)
FarOf(b, d, x) ==
  /\ x \in Members(cloud, b)
  /\ d = mdt[x]
  /\ \A p \in Members(cloud, b) \ {x} : Better(d, x, mdt[p], p)

(* The distance memory knows every sample for the points of bucket b. *)
Applied(b) ==
  \A p \in Members(cloud, b) : \A i \in 1..cnt : mdt[p] <= Dist(cloud, p, Results[i])

(* The references of the task, from slots that do not move meanwhile. *)
TaskReference(k) == IF k < task.mcnt THEN Slots[task.bid][k + 1] ELSE task.sample

PassSlots == {j \in pass * L .. pass * L + L - 1 : j <= task.mcnt}

(* The passes done have applied their references, and the tree is cleared  *)
(* for the last pass.                                                      *)
PassInv ==
  /\ pe \in {"LDMERGE", "STREAM"} =>
       \A k \in 0..task.mcnt : k < pass * L =>
         \A p \in Members(cloud, task.bid) : mdt[p] <= Dist(cloud, p, TaskReference(k))
  /\ pe = "STREAM" => /\ refs = {TaskReference(k) : k \in PassSlots}
                      /\ LastPass => far = <<>>

Returns == {fpFifo[i] : i \in DOMAIN fpFifo}

FarInv ==
  /\ pe = "COLLECT" => /\ far # <<>> /\ FarOf(task.bid, far[1].dist, far[1].idx)
                       /\ Applied(task.bid)
  /\ pe = "PUSH" => FarOf(task.bid, hold.dist, hold.idx) /\ Applied(task.bid)
  /\ \A r \in Returns : FarOf(r.bid, r.dist, r.idx) /\ Applied(r.bid)

SamplingInv == CoreInv /\ DistanceInv /\ LoadedDistances /\ PassInv /\ FarInv

-----------------------------------------------------------------------------
(* Distances to samples and merges.                                        *)

LEMMA SampleDistance ==
  ASSUME CoreInv, InJob, NEW p \in Points, NEW i \in 1..cnt
  PROVE  /\ Results[i] \in Places
         /\ Dist(cloud, p, Results[i]) \in Nat /\ Dist(cloud, p, Results[i]) < Inf
<1>1. Results \in Seq(Places) /\ Len(Results) = cnt
  BY ViewTypes DEF CoreInv, TypeInv, TypeOK, ResultInv
<1>2. Results[i] \in Places
  BY <1>1
<1> QED BY <1>2, WalkTypes, DistAssumption DEF CoreInv

LEMMA AccountBound ==
  ASSUME CoreInv, InJob, NEW b
  PROVE  Account(b) \in Nat /\ Account(b) <= cnt /\ cnt \in Nat /\ cnt >= 1
         /\ (Account(b) = cnt \/ Account(b) = cnt - 1)
BY WalkTypes DEF CoreInv, ControlInv, Account

LEMMA SlotIsSample ==
  ASSUME CoreInv, InJob, NEW b \in CloudBuckets, NEW k \in 1..Entries[b].mcnt
  PROVE  \E i \in 1..Account(b) : i \in 1..cnt /\ Slots[b][k] = Results[i]
<1>1. PICK i \in 1..Account(b) : Slots[b][k] = Results[i]
  BY DEF CoreInv, MergeInv
<1> QED BY <1>1, AccountBound

LEMMA MemberTypes ==
  ASSUME CoreInv, NEW b, NEW p \in Members(cloud, b)
  PROVE  p \in Points /\ mdt[p] \in Nat /\ p \in Nat /\ BucketOf(cloud, p) = b
BY ConstantTypes DEF Members, CoreInv, TypeInv, TypeOK, PointType

(* The slots of a pass, in arithmetic. *)
LEMMA LastPassCovers ==
  ASSUME NEW m \in Nat, NEW n \in Nat, NEW l \in Nat \ {0},
         n + 1 = (m + 1 + l - 1) \div l, NEW k \in 0..m
  PROVE  k < n * l + l
OBVIOUS

LEMMA NextPassStarts ==
  ASSUME NEW n \in Nat, NEW l \in Nat
  PROVE  (n + 1) * l = n * l + l /\ n * l \in Nat
OBVIOUS

-----------------------------------------------------------------------------
(* What the invariants look at.                                            *)

(* A bucket's distances and summary stay as they are. *)
LEMMA BucketFrame ==
  ASSUME UNCHANGED <<cloud, mdt, cnt>>, Results' = Results, NEW b,
         BucketInv(b), Walked(b)' = Walked(b), Account(b)' = Account(b),
         Entries'[b] = Entries[b], Slots'[b] = Slots[b]
  PROVE  BucketInv(b)'
<1>1. \A p, n : Sound(p, n)' = Sound(p, n)
  BY DEF Sound
<1>2. \A p, n : Covered(b, p, n)' = Covered(b, p, n)
  BY DEF Covered
<1>3. \A n : Summary(b, n)' = Summary(b, n)
  BY DEF Summary
<1> QED BY <1>1, <1>2, <1>3 DEF BucketInv

(* So do those of all buckets when an edge only moves the engine on. *)
LEMMA DistanceFrame ==
  ASSUME DistanceInv, UNCHANGED <<cloud, mdt, cnt>>, InJob' => InJob,
         Results' = Results, Entries' = Entries, Slots' = Slots,
         CloudBuckets' = CloudBuckets,
         \A b \in CloudBuckets : Walked(b)' = Walked(b) /\ Account(b)' = Account(b)
  PROVE  DistanceInv'
BY BucketFrame DEF DistanceInv

(* The point engine's side is untouched while its registers, the distances *)
(* and the slots of its task are, and the engine issues or collects.       *)
LEMMA PointFrame ==
  ASSUME PassInv, FarInv,
         UNCHANGED <<cloud, mdt, cnt, pe, task, pass, refs, far, hold>>,
         Results' = Results, Returns' \subseteq Returns,
         pe # "IDLE" => Slots'[task.bid] = Slots[task.bid]
  PROVE  PassInv' /\ FarInv'
<1>1. \A b, d, x : FarOf(b, d, x)' = FarOf(b, d, x)
  BY DEF FarOf
<1>2. \A b : Applied(b)' = Applied(b)
  BY DEF Applied
<1>3. FarInv'
  BY <1>1, <1>2 DEF FarInv
<1>4. pe # "IDLE" => \A k : TaskReference(k)' = TaskReference(k)
  BY DEF TaskReference
<1>5. PassSlots' = PassSlots /\ LastPass' = LastPass
  BY DEF PassSlots, LastPass, NumPasses
<1>6. PassInv'
  BY <1>4, <1>5 DEF PassInv
<1> QED BY <1>3, <1>6

(* Nothing is left of a job in the point engine when nothing is on its way. *)
LEMMA PointIdle ==
  ASSUME CoreInv', ~Travelling'
  PROVE  PassInv' /\ FarInv'
<1>1. pe' = "IDLE" /\ fpFifo' = <<>>
  <2>1. InFlight' = 0 /\ TypeInv'
    BY DEF CoreInv, ReturnsMatchIssues
  <2>2. /\ bktFifo' \in Seq(Task) /\ fpFifo' \in Seq(Return)
        /\ Len(bktFifo') + (IF pe' = "IDLE" THEN 0 ELSE 1) + Len(fpFifo') = 0
    BY <2>1 DEF InFlight, TypeInv, TypeOK, FifoType
  <2>3. Len(bktFifo') \in Nat /\ Len(fpFifo') \in Nat
    BY <2>2
  <2>4. pe' = "IDLE" /\ Len(fpFifo') = 0
    BY <2>2, <2>3
  <2> QED BY <2>2, <2>4
<1>2. Returns' = {}
  BY <1>1 DEF Returns
<1> QED BY <1>1, <1>2 DEF PassInv, FarInv

-----------------------------------------------------------------------------
(* The steps that settle no bucket.                                        *)

LEMMA MovesSample ==
  ASSUME SamplingInv, Moves
  PROVE  DistanceInv' /\ LoadedDistances' /\ PassInv' /\ FarInv'
<1> USE DEF SamplingInv
<1>0. TypeInv /\ ControlInv
  BY DEF CoreInv
<1>1. DistanceInv'
  BY <1>0, MovesView, DistanceFrame
<1>2. LoadedDistances'
  <2>1. state' = "IDLE" /\ start' => state = "IDLE" /\ start
    BY DEF Moves, Idle, InitP0, IterInit, Fetch, NextBucket, TravelDone, Wait, Done,
           host, control
  <2> QED BY <1>0, <2>1, MovesView DEF LoadedDistances
<1>3. PassInv' /\ FarInv'
  <2>1. Returns' = Returns
    BY <1>0, MovesView DEF Returns
  <2> QED BY <1>0, <2>1, MovesView, PointFrame
<1> QED BY <1>1, <1>2, <1>3

(* An issued bucket may have its distances to the sample from now on.      *)
LEMMA IssueSample ==
  ASSUME SamplingInv, Issue
  PROVE  DistanceInv' /\ LoadedDistances' /\ PassInv' /\ FarInv'
<1> USE DEF SamplingInv
<1>1. /\ Entries' = Entries /\ Slots' = Slots /\ Results' = Results
      /\ CloudBuckets' = CloudBuckets /\ InJob /\ state' = "NEXT"
      /\ UNCHANGED <<cloud, mdt, cnt, fpFifo, pe, task, pass, refs, far, hold>>
  <2>1. Quiet
    BY DEF Issue
  <2>2. state = "ACTION"
    BY DEF Issue
  <2> QED BY <2>1, <2>2, QuietView, DecisionView, DecisionContext
<1>2. ~Settled(pend.bid) /\ pend.bid \notin OutstandingBuckets
  BY DecisionContext DEF Issue
<1>3. ASSUME NEW b \in CloudBuckets
      PROVE  /\ Account(b)' = Account(b)
             /\ Walked(b)' <=> Walked(b) \/ b = pend.bid
  <2>1. Walked(b)' <=> Walked(b) \/ b = pend.bid
    BY DecisionView
  <2>2. Settled(b)' <=> Settled(b)
    BY <1>2, <2>1, IssueRoute DEF Settled
  <2> QED BY <1>1, <2>1, <2>2 DEF Account
<1>4. DistanceInv'
  <2> SUFFICES ASSUME NEW b \in CloudBuckets
               PROVE  BucketInv(b)'
    BY <1>1 DEF DistanceInv
  <2>1. BucketInv(b)
    BY <1>1 DEF DistanceInv
  <2>2. CASE b # pend.bid
    <3>1. Walked(b)' = Walked(b)
      BY <1>3, <2>2 DEF Walked
    <3> QED BY <1>1, <1>3, <2>1, <3>1, BucketFrame
  <2>3. CASE b = pend.bid
    <3>1. \A p \in Members(cloud, b) : Sound(p, cnt)
      <4>1. cnt \in Nat
        BY <1>1, AccountBound
      <4> QED BY <2>1, <4>1 DEF BucketInv, Sound
    <3>2. \A p, n : Sound(p, n)' = Sound(p, n)
      BY <1>1 DEF Sound
    <3>3. \A p, n : Covered(b, p, n)' = Covered(b, p, n)
      BY <1>1 DEF Covered
    <3>4. \A n : Summary(b, n)' = Summary(b, n)
      BY <1>1 DEF Summary
    <3>5. Walked(b)'
      BY <1>3, <2>3
    <3> QED BY <1>1, <1>3, <2>1, <3>1, <3>2, <3>3, <3>4, <3>5 DEF BucketInv
  <2> QED BY <2>2, <2>3
<1>5. LoadedDistances'
  BY <1>1 DEF LoadedDistances
<1>6. PassInv' /\ FarInv'
  <2>1. Returns' = Returns
    BY <1>1 DEF Returns
  <2> QED BY <1>1, <2>1, PointFrame
<1> QED BY <1>4, <1>5, <1>6

-----------------------------------------------------------------------------
(* The pruning decisions.                                                  *)

(* The far point of a bucket outlives a sample that is farther from it     *)
(* than it is from an earlier one.                                         *)
LEMMA SummaryOutlives ==
  ASSUME CoreInv, InJob, cnt > 1, NEW b, Summary(b, cnt - 1),
         Entries[b].fdist < Dist(cloud, Entries[b].fidx, sample)
  PROVE  Summary(b, cnt)
<1>1. cnt \in Nat /\ Results[cnt] = sample
  BY WalkTypes DEF CoreInv, ResultInv
<1>2. \A i \in 1..cnt : i \in 1..cnt - 1 \/ i = cnt
  BY <1>1
<1>3. \A i \in 1..cnt - 1 : i \in 1..cnt
  BY <1>1
<1>4. Entries[b].fdist <= Dist(cloud, Entries[b].fidx, Results[cnt])
  <2>1. Entries[b].fidx \in Points
    BY MemberTypes DEF Summary
  <2>2. cnt \in 1..cnt
    BY <1>1
  <2>3. Dist(cloud, Entries[b].fidx, Results[cnt]) \in Nat
    BY <2>1, <2>2, SampleDistance
  <2>4. PICK i \in 1..cnt - 1 : Entries[b].fdist = Dist(cloud, Entries[b].fidx, Results[i])
    BY DEF Summary
  <2>5. Entries[b].fdist \in Nat
    BY <1>3, <2>1, <2>4, SampleDistance
  <2> QED BY <1>1, <2>3, <2>5
<1> QED BY <1>1, <1>2, <1>3, <1>4 DEF Summary

(* No point of a bucket is farther from the samples before than its far    *)
(* point, so that every point has a sample as near as that.                *)
LEMMA FarthestBounds ==
  ASSUME CoreInv, InJob, cnt > 1, NEW b \in CloudBuckets, Summary(b, cnt - 1),
         NEW p \in Members(cloud, b), Covered(b, p, cnt - 1)
  PROVE  /\ Entries[b].fdist \in Nat
         /\ \/ mdt[p] <= Entries[b].fdist
            \/ \E k \in 1..Entries[b].mcnt :
                 /\ Dist(cloud, p, Slots[b][k]) \in Nat
                 /\ Dist(cloud, p, Slots[b][k]) <= Entries[b].fdist
<1> DEFINE e == Entries[b]
<1>1. cnt \in Nat /\ p \in Points /\ p \in Nat /\ mdt[p] \in Nat
  BY WalkTypes, MemberTypes DEF CoreInv
<1>2. \A i \in 1..cnt - 1 : i \in 1..cnt
  BY <1>1
<1>3. e.fidx \in Points /\ e.fdist \in Nat
  BY WalkTypes, ViewTypes DEF CoreInv, TypeInv, TypeOK, Entry
<1>4. PICK i \in 1..cnt - 1 : Dist(cloud, p, Results[i]) <= e.fdist
  <2>1. CASE p = e.fidx
    <3>1. PICK i \in 1..cnt - 1 : e.fdist = Dist(cloud, e.fidx, Results[i])
      BY DEF Summary
    <3> QED BY <1>3, <2>1, <3>1
  <2>2. CASE p # e.fidx
    <3>1. PICK i \in 1..cnt - 1 : Better(e.fdist, e.fidx, Dist(cloud, p, Results[i]), p)
      BY <2>2 DEF Summary
    <3>2. Dist(cloud, p, Results[i]) \in Nat
      BY <1>1, <1>2, SampleDistance
    <3> QED BY <1>3, <3>1, <3>2 DEF Better
  <2> QED BY <2>1, <2>2
<1>5. Dist(cloud, p, Results[i]) \in Nat
  BY <1>1, <1>2, <1>4, SampleDistance
<1>6. \A k \in 1..e.mcnt : Dist(cloud, p, Slots[b][k]) \in Nat
  BY <1>1, SlotIsSample, SampleDistance
<1>7. \/ mdt[p] <= Dist(cloud, p, Results[i])
      \/ \E k \in 1..e.mcnt : Dist(cloud, p, Slots[b][k]) <= Dist(cloud, p, Results[i])
  BY <1>4 DEF Covered
<1> HIDE DEF e
<1>8. CASE mdt[p] <= Dist(cloud, p, Results[i])
  BY <1>1, <1>3, <1>4, <1>5, <1>8 DEF e
<1>9. ASSUME NEW k \in 1..e.mcnt, Dist(cloud, p, Slots[b][k]) <= Dist(cloud, p, Results[i])
      PROVE  Dist(cloud, p, Slots[b][k]) <= e.fdist
  BY <1>3, <1>4, <1>5, <1>6, <1>9
<1> QED BY <1>3, <1>6, <1>7, <1>8, <1>9 DEF e

(* What the two decisions have found out about the bucket.                 *)
LEMMA DecidedBucket ==
  ASSUME SamplingInv, Defer \/ Skip
  PROVE  /\ InJob /\ cnt \in Nat /\ cnt > 1 /\ Account(pend.bid) = cnt - 1
         /\ Summary(pend.bid, cnt - 1) /\ Summary(pend.bid, cnt)
         /\ \A p \in Members(cloud, pend.bid) :
              Sound(p, cnt - 1) /\ Sound(p, cnt) /\ Covered(pend.bid, p, cnt - 1)
         /\ Entries[pend.bid].fdist < Dist(cloud, Entries[pend.bid].fidx, sample)
<1> USE DEF SamplingInv
<1>1. /\ state = "ACTION" /\ ~firstIter /\ MergeOk
  BY DEF Defer, Skip, ActDefer, RawDefer, RawSkip
<1>2. /\ pend.bid \in CloudBuckets /\ ~Walked(pend.bid) /\ ~Settled(pend.bid)
      /\ pend.entry = Entries[pend.bid] /\ InJob /\ InIteration
  BY <1>1, DecisionContext
<1>3. cnt \in Nat /\ cnt > 1
  BY <1>1, <1>2, WalkTypes DEF CoreInv, ControlInv
<1>4. Account(pend.bid) = cnt - 1
  BY <1>2 DEF Account
<1>5. /\ Summary(pend.bid, cnt - 1)
      /\ \A p \in Members(cloud, pend.bid) : Sound(p, cnt - 1) /\ Covered(pend.bid, p, cnt - 1)
  BY <1>2, <1>3, <1>4 DEF DistanceInv, BucketInv
<1>6. Entries[pend.bid].fdist < Dist(cloud, Entries[pend.bid].fidx, sample)
  BY <1>1, <1>2 DEF MergeOk, CoreInv, FetchedInv
<1>7. Summary(pend.bid, cnt)
  BY <1>2, <1>3, <1>5, <1>6, SummaryOutlives
<1>8. \A p \in Members(cloud, pend.bid) : Sound(p, cnt)
  BY <1>3, <1>5 DEF Sound
<1> QED BY <1>2, <1>3, <1>4, <1>5, <1>6, <1>7, <1>8

(* A skipped bucket has a nearer sample for each of its points: its box is *)
(* farther from the new sample than its far point is from the old ones.    *)
LEMMA SkipSample ==
  ASSUME SamplingInv, Skip
  PROVE  DistanceInv' /\ LoadedDistances' /\ PassInv' /\ FarInv'
<1> USE DEF SamplingInv
<1> DEFINE x == pend.bid
<1>1. /\ Entries' = Entries /\ Slots' = Slots /\ Results' = Results
      /\ CloudBuckets' = CloudBuckets /\ state' = "NEXT"
      /\ UNCHANGED <<cloud, mdt, cnt, fpFifo, pe, task, pass, refs, far, hold>>
      /\ \A b \in CloudBuckets : Walked(b)' <=> Walked(b) \/ b = x
  <2>1. Quiet
    BY DEF Skip
  <2> QED BY <2>1, QuietView, DecisionView
<1>2. x \in CloudBuckets /\ InJob
  BY DecisionContext DEF Skip
<1>3. ASSUME NEW p \in Members(cloud, x)
      PROVE  Covered(x, p, cnt)
  <2>1. /\ cnt \in Nat /\ cnt > 1 /\ Summary(x, cnt - 1) /\ Covered(x, p, cnt - 1)
    BY DecidedBucket
  <2>2. Results[cnt] = sample /\ sample \in Points
    BY <1>2, WalkTypes DEF CoreInv, ResultInv
  <2>3. cnt \in 1..cnt
    BY <2>1
  <2>4. p \in Points /\ mdt[p] \in Nat /\ BucketOf(cloud, p) = x
    BY MemberTypes
  <2>5. /\ Entries[x].fdist < Gap(cloud, sample, x)
        /\ Gap(cloud, sample, x) <= Dist(cloud, p, sample)
        /\ Gap(cloud, sample, x) \in Nat /\ Dist(cloud, p, sample) \in Nat
    <3>1. Entries[x].fdist < Gap(cloud, sample, x)
      BY DecisionContext DEF Skip, RawSkip, ImplicitOk, CoreInv, FetchedInv
    <3>2. cloud \in Clouds /\ x \in Buckets
      BY <1>2, WalkTypes DEF CoreInv
    <3>3. Dist(cloud, p, sample) \in Nat
      BY <1>2, <2>2, <2>3, <2>4, SampleDistance
    <3> QED BY <2>2, <2>4, <3>1, <3>2, <3>3, DistAssumption
  <2>6. \/ mdt[p] <= Dist(cloud, p, sample)
        \/ \E k \in 1..Entries[x].mcnt : Dist(cloud, p, Slots[x][k]) <= Dist(cloud, p, sample)
    <3>1. /\ Entries[x].fdist \in Nat
          /\ \/ mdt[p] <= Entries[x].fdist
             \/ \E k \in 1..Entries[x].mcnt :
                  /\ Dist(cloud, p, Slots[x][k]) \in Nat
                  /\ Dist(cloud, p, Slots[x][k]) <= Entries[x].fdist
      BY <1>2, <2>1, FarthestBounds
    <3>2. CASE mdt[p] <= Entries[x].fdist
      BY <2>4, <2>5, <3>1, <3>2
    <3>3. ASSUME NEW k \in 1..Entries[x].mcnt,
                 Dist(cloud, p, Slots[x][k]) \in Nat,
                 Dist(cloud, p, Slots[x][k]) <= Entries[x].fdist
          PROVE  Dist(cloud, p, Slots[x][k]) <= Dist(cloud, p, sample)
      BY <2>5, <3>1, <3>3
    <3> QED BY <3>1, <3>2, <3>3
  <2>7. \A i \in 1..cnt : i \in 1..cnt - 1 \/ i = cnt
    BY <2>1
  <2> QED BY <2>1, <2>2, <2>6, <2>7 DEF Covered
<1>4. /\ \A p, n : Sound(p, n)' = Sound(p, n)
      /\ \A b, p, n : Covered(b, p, n)' = Covered(b, p, n)
      /\ \A b, n : Summary(b, n)' = Summary(b, n)
  BY <1>1 DEF Sound, Covered, Summary
<1>5. DistanceInv'
  <2> SUFFICES ASSUME NEW b \in CloudBuckets
               PROVE  BucketInv(b)'
    BY <1>1 DEF DistanceInv
  <2>1. CASE b # x
    <3>1. Walked(b)' = Walked(b)
      BY <1>1, <2>1 DEF Walked
    <3>2. BucketInv(b)
      BY <1>2 DEF DistanceInv
    <3> QED BY <1>1, <2>1, <3>1, <3>2, SettledByDecision, BucketFrame
  <2>2. CASE b = x
    <3>1. Walked(b)' /\ Account(b)' = cnt
      BY <1>1, <2>2, SettledByDecision
    <3>2. Summary(b, cnt) /\ \A p \in Members(cloud, b) : Sound(p, cnt)
      BY <2>2, DecidedBucket
    <3> QED BY <1>1, <1>3, <1>4, <2>2, <3>1, <3>2 DEF BucketInv
  <2> QED BY <2>1, <2>2
<1>6. LoadedDistances'
  BY <1>1 DEF LoadedDistances
<1>7. PassInv' /\ FarInv'
  <2>1. Returns' = Returns
    BY <1>1 DEF Returns
  <2> QED BY <1>1, <2>1, PointFrame
<1> QED BY <1>5, <1>6, <1>7

(* A deferred bucket covers the new sample by the merge slot it gets.      *)
LEMMA DeferSample ==
  ASSUME SamplingInv, Defer
  PROVE  DistanceInv' /\ LoadedDistances' /\ PassInv' /\ FarInv'
<1> USE DEF SamplingInv
<1>0. PICK x \in CloudBuckets : x = pend.bid
  BY DecisionContext DEF Defer
<1> DEFINE m == Entries[x].mcnt
<1>1. /\ Results' = Results /\ CloudBuckets' = CloudBuckets /\ state' = "NEXT"
      /\ UNCHANGED <<cloud, mdt, cnt, fpFifo, pe, task, pass, refs, far, hold>>
      /\ \A b \in CloudBuckets : Walked(b)' <=> Walked(b) \/ b = x
  BY <1>0, DecisionView
<1>2. /\ x \in CloudBuckets /\ x \in Buckets /\ InJob /\ x \notin OutstandingBuckets
      /\ pend.entry = Entries[x] /\ pend.entry \in Entry /\ sample \in Points
  BY <1>0, DecisionContext, WalkTypes DEF Defer, CoreInv
<1>3. /\ Entries \in [Buckets -> Entry] /\ Slots \in [Buckets -> Seq(Points)]
      /\ CloudBuckets \subseteq Buckets
  BY ViewTypes, WalkTypes DEF CoreInv, TypeInv, TypeOK
<1>4. /\ Entries'[x].fdist = Entries[x].fdist /\ Entries'[x].fidx = Entries[x].fidx
      /\ Entries'[x].mcnt = m + 1 /\ m \in Nat /\ Len(Slots[x]) = m
      /\ \A b \in Buckets \ {x} : Entries'[b] = Entries[b] /\ Slots'[b] = Slots[b]
  BY <1>0, <1>2, <1>3, DeferView DEF Entry
<1>5. Slots'[x][m + 1] = sample /\ \A k \in 1..m : Slots'[x][k] = Slots[x][k]
  <2>1. Slots[x] \in Seq(Points) /\ Slots'[x] = Append(Slots[x], sample)
    BY <1>0, <1>2, <1>3, DeferView
  <2> QED BY <1>2, <1>4, <2>1
<1>6. \A b, p, n : Sound(p, n)' = Sound(p, n)
  BY <1>1 DEF Sound
<1>7. \A n : Summary(x, n)' = Summary(x, n)
  BY <1>1, <1>4 DEF Summary
<1> HIDE DEF m
<1>8. ASSUME NEW p \in Members(cloud, x)
      PROVE  Covered(x, p, cnt)'
  <2>1. cnt \in Nat /\ cnt > 1 /\ Covered(x, p, cnt - 1)
    BY <1>0, DecidedBucket
  <2>2. Results[cnt] = sample
    BY <1>2 DEF CoreInv, ResultInv
  <2>3. Dist(cloud, p, sample) \in Nat
    <3>1. p \in Points /\ cnt \in 1..cnt
      BY <2>1, MemberTypes
    <3> QED BY <1>2, <2>2, <3>1, SampleDistance
  <2>4. m + 1 \in 1..m + 1 /\ \A k \in 1..m : k \in 1..m + 1
    BY <1>4
  <2>5. ASSUME NEW i \in 1..cnt
        PROVE  \/ mdt[p] <= Dist(cloud, p, Results[i])
               \/ \E k \in 1..m + 1 :
                    Dist(cloud, p, Slots'[x][k]) <= Dist(cloud, p, Results[i])
    <3>1. CASE i = cnt
      BY <1>5, <2>2, <2>3, <2>4, <3>1
    <3>2. CASE i # cnt
      <4>1. i \in 1..cnt - 1
        BY <2>1, <3>2
      <4>2. \/ mdt[p] <= Dist(cloud, p, Results[i])
            \/ \E k \in 1..m : Dist(cloud, p, Slots[x][k]) <= Dist(cloud, p, Results[i])
        BY <2>1, <4>1 DEF Covered, m
      <4> QED BY <1>5, <2>4, <4>2
    <3> QED BY <3>1, <3>2
  <2> QED BY <1>1, <1>4, <2>5 DEF Covered
<1>9. DistanceInv'
  <2> SUFFICES ASSUME NEW b \in CloudBuckets
               PROVE  BucketInv(b)'
    BY <1>1 DEF DistanceInv
  <2>1. CASE b # x
    <3>1. Walked(b)' = Walked(b)
      BY <1>1, <2>1 DEF Walked
    <3>2. BucketInv(b)
      BY <1>2 DEF DistanceInv
    <3>3. Entries'[b] = Entries[b] /\ Slots'[b] = Slots[b]
      BY <1>3, <1>4, <2>1
    <3> QED BY <1>0, <1>1, <2>1, <3>1, <3>2, <3>3, SettledByDecision, BucketFrame
  <2>2. CASE b = x
    <3>1. Walked(b)' /\ Account(b)' = cnt
      BY <1>0, <1>1, <2>2, SettledByDecision
    <3>2. Summary(b, cnt) /\ \A p \in Members(cloud, b) : Sound(p, cnt)
      BY <1>0, <2>2, DecidedBucket
    <3> QED BY <1>1, <1>6, <1>7, <1>8, <2>2, <3>1, <3>2 DEF BucketInv
  <2> QED BY <2>1, <2>2
<1>10. LoadedDistances'
  BY <1>1 DEF LoadedDistances
<1>11. PassInv' /\ FarInv'
  <2>1. Returns' = Returns
    BY <1>1 DEF Returns
  <2>2. pe # "IDLE" => Slots'[task.bid] = Slots[task.bid]
    <3>1. pe # "IDLE" => task.bid \in OutstandingBuckets /\ task.bid \in Buckets
      BY OutstandingIn DEF CoreInv, TypeInv, TypeOK, PointType, Task
    <3> QED BY <1>2, <1>4, <3>1
  <2> QED BY <1>1, <2>1, <2>2, PointFrame
<1> QED BY <1>9, <1>10, <1>11

-----------------------------------------------------------------------------
(* The return of a recomputed bucket.                                      *)

(* The far point of up-to-date distances is the summary of its bucket.     *)
LEMMA ReturnSummary ==
  ASSUME SamplingInv, InJob, NEW b \in CloudBuckets, Walked(b),
         Applied(b), NEW d, NEW x, FarOf(b, d, x)
  PROVE  /\ x \in Members(cloud, b)
         /\ \A i \in 1..cnt : d <= Dist(cloud, x, Results[i])
         /\ \A p \in Members(cloud, b) : \E i \in 1..cnt : mdt[p] = Dist(cloud, p, Results[i])
<1> USE DEF SamplingInv
<1>1. ASSUME NEW p \in Members(cloud, b)
      PROVE  \E i \in 1..cnt : mdt[p] = Dist(cloud, p, Results[i])
  <2>1. Sound(p, cnt)
    BY DEF DistanceInv, BucketInv
  <2>2. cnt \in Nat /\ 1 \in 1..cnt
    BY AccountBound
  <2>3. p \in Points /\ mdt[p] \in Nat
    BY MemberTypes
  <2>4. /\ mdt[p] <= Dist(cloud, p, Results[1])
        /\ Dist(cloud, p, Results[1]) \in Nat /\ Dist(cloud, p, Results[1]) < Inf
    BY <2>2, <2>3, SampleDistance DEF Applied
  <2>5. mdt[p] # Inf
    BY <2>3, <2>4, ConstantTypes
  <2> QED BY <2>1, <2>5 DEF Sound
<1> QED BY <1>1 DEF Applied, FarOf

LEMMA CollectSample ==
  ASSUME SamplingInv, Collect
  PROVE  DistanceInv' /\ LoadedDistances' /\ PassInv' /\ FarInv'
<1> USE DEF SamplingInv
<1>0. PICK x \in CloudBuckets : x = Returned.bid
  BY CollectView
<1>1. /\ Results' = Results /\ CloudBuckets' = CloudBuckets
      /\ state' \in {"COLLECT", "ITEREND"} /\ InJob
      /\ UNCHANGED <<cloud, mdt, cnt, pe, task, pass, refs, far, hold>>
      /\ \A b : Walked(b)' = Walked(b)
      /\ \A b \in CloudBuckets : Account(b)' = IF b = x THEN cnt ELSE Account(b)
  <2>1. state = "COLLECT"
    BY CollectView
  <2> QED BY <1>0, <2>1, CollectView DEF InJob
<1>2. x \in CloudBuckets /\ Walked(x) /\ x \in OutstandingBuckets
  BY <1>0, CollectRoute DEF CoreInv, RouteInv
<1>3. /\ Entries'[x].fdist = Returned.dist /\ Entries'[x].fidx = Returned.idx
      /\ \A b \in CloudBuckets \ {x} : Entries'[b] = Entries[b] /\ Slots'[b] = Slots[b]
  <2>1. CloudBuckets \subseteq Buckets
    BY WalkTypes DEF CoreInv
  <2> QED BY <1>0, <2>1, CollectView
<1>4. Returned \in Returns /\ Returns' \subseteq Returns
  <2>1. fpFifo \in Seq(Return) /\ fpFifo # <<>> /\ fpFifo' = Tail(fpFifo)
    BY DEF Collect, CoreInv, TypeInv, TypeOK, FifoType
  <2>2. Returned = fpFifo[1] /\ 1 \in DOMAIN fpFifo
    BY <2>1 DEF Returned
  <2>3. \A i \in DOMAIN fpFifo' : i + 1 \in DOMAIN fpFifo /\ fpFifo'[i] = fpFifo[i + 1]
    BY <2>1
  <2> QED BY <2>2, <2>3 DEF Returns
<1>5. FarOf(x, Returned.dist, Returned.idx) /\ Applied(x)
  BY <1>0, <1>4 DEF FarInv
<1>6. /\ Returned.idx \in Members(cloud, x)
      /\ \A i \in 1..cnt : Returned.dist <= Dist(cloud, Returned.idx, Results[i])
      /\ \A p \in Members(cloud, x) : \E i \in 1..cnt : mdt[p] = Dist(cloud, p, Results[i])
      /\ Returned.dist = mdt[Returned.idx]
  BY <1>1, <1>2, <1>5, ReturnSummary DEF FarOf
<1>7. ASSUME NEW p \in Members(cloud, x) \ {Returned.idx}
      PROVE  \E i \in 1..cnt : Better(Returned.dist, Returned.idx,
                                      Dist(cloud, p, Results[i]), p)
  BY <1>5, <1>6 DEF FarOf
<1>8. Summary(x, cnt)'
  BY <1>1, <1>3, <1>6, <1>7 DEF Summary
<1>9. \A p \in Members(cloud, x) : Covered(x, p, cnt)'
  BY <1>1, <1>5 DEF Covered, Applied
<1>10. \A p, n : Sound(p, n)' = Sound(p, n)
  BY <1>1 DEF Sound
<1>11. DistanceInv'
  <2> SUFFICES ASSUME NEW b \in CloudBuckets
               PROVE  BucketInv(b)'
    BY <1>1 DEF DistanceInv
  <2>1. BucketInv(b)
    BY <1>1 DEF DistanceInv
  <2>2. CASE b # x
    BY <1>1, <1>3, <2>1, <2>2, BucketFrame
  <2>3. CASE b = x
    <3>1. Account(b)' = cnt /\ Walked(b)' = Walked(b)
      BY <1>1, <2>3
    <3> QED BY <1>1, <1>8, <1>9, <1>10, <2>1, <2>3, <3>1 DEF BucketInv
  <2> QED BY <2>2, <2>3
<1>12. LoadedDistances'
  BY <1>1 DEF LoadedDistances
<1>13. PassInv' /\ FarInv'
  <2>1. pe # "IDLE" => Slots'[task.bid] = Slots[task.bid]
    <3>1. pe # "IDLE" => task.bid # x /\ task.bid \in OutstandingBuckets
      <4>1. \E i \in DOMAIN fpFifo : fpFifo[i] = Returned
        BY <1>4 DEF Returns
      <4> QED BY <1>0, <4>1, OutstandingIn DEF CoreInv, RouteInv, Distinct
    <3>2. pe # "IDLE" => task.bid \in CloudBuckets
      BY <3>1 DEF CoreInv, RouteInv
    <3> QED BY <1>3, <3>1, <3>2
  <2> QED BY <1>1, <1>4, <2>1, PointFrame
<1> QED BY <1>11, <1>12, <1>13

-----------------------------------------------------------------------------
(* The ends of iterations and of jobs.                                     *)

LEMMA IterEndSample ==
  ASSUME SamplingInv, IterEnd
  PROVE  DistanceInv' /\ LoadedDistances' /\ PassInv' /\ FarInv'
<1> USE DEF SamplingInv
<1>1. /\ Entries' = Entries /\ Slots' = Slots /\ CloudBuckets' = CloudBuckets
      /\ Len(Results) = cnt /\ cnt \in Nat /\ cnt >= 1
      /\ Results' = Append(Results, best.idx)
      /\ state = "ITEREND" /\ state' \in {"ITERINIT", "DONE"}
      /\ UNCHANGED <<cloud, mdt>>
  BY IterEndView
<1>2. Results \in Seq(Places) /\ best.idx \in Places
  BY ViewTypes, ConstantTypes DEF CoreInv, TypeInv, TypeOK, WalkType
<1>3. \A i \in 1..cnt : Results'[i] = Results[i]
  BY <1>1, <1>2
<1>4. DistanceInv'
  <2> SUFFICES ASSUME state' = "ITERINIT", NEW b \in CloudBuckets
               PROVE  BucketInv(b)'
    BY <1>1 DEF DistanceInv, InJob
  <2>1. cnt' = cnt + 1
    BY DEF IterEnd
  <2>2. InJob /\ BucketInv(b) /\ Walked(b) /\ Account(b) = cnt
    BY <1>1, AllSettled DEF DistanceInv, InJob, Settled
  <2>3. ~Walked(b)' /\ Account(b)' = cnt
    <3>1. Decided' = 0
      BY DEF Decided
    <3>2. Position(b)' \in Nat
      <4>1. b \in Nat
        BY DEF CloudBuckets
      <4> QED BY <4>1 DEF Position
    <3>3. ~Walked(b)'
      BY <3>1, <3>2 DEF Walked
    <3> QED BY <1>1, <2>1, <3>3 DEF Settled, Account
  <2>5. \A p \in Members(cloud, b) :
          mdt[p] = Inf \/ (\E i \in 1..cnt : mdt[p] = Dist(cloud, p, Results'[i]))
    BY <1>3, <2>2 DEF BucketInv, Sound
  <2>6. \A p \in Members(cloud, b) : \A i \in 1..cnt :
          \/ mdt[p] <= Dist(cloud, p, Results'[i])
          \/ \E k \in 1..Entries[b].mcnt :
               Dist(cloud, p, Slots[b][k]) <= Dist(cloud, p, Results'[i])
    BY <1>3, <2>2 DEF BucketInv, Covered
  <2>7. /\ Entries[b].fidx \in Members(cloud, b)
        /\ \A i \in 1..cnt : Entries[b].fdist <= Dist(cloud, Entries[b].fidx, Results'[i])
        /\ \E i \in 1..cnt : Entries[b].fdist = Dist(cloud, Entries[b].fidx, Results'[i])
        /\ \A p \in Members(cloud, b) \ {Entries[b].fidx} :
             \E i \in 1..cnt : Better(Entries[b].fdist, Entries[b].fidx,
                                      Dist(cloud, p, Results'[i]), p)
    BY <1>1, <1>3, <2>2 DEF BucketInv, Summary
  <2>8. cnt' - 1 = cnt
    BY <1>1, <2>1
  <2> QED BY <1>1, <2>3, <2>5, <2>6, <2>7, <2>8 DEF BucketInv, Sound, Covered, Summary
<1>5. LoadedDistances'
  BY <1>1 DEF LoadedDistances
<1>6. PassInv' /\ FarInv'
  BY <1>1, IterEndKeeps, PointIdle DEF Travelling
<1> QED BY <1>4, <1>5, <1>6

LEMMA StartSample ==
  ASSUME SamplingInv, Start
  PROVE  DistanceInv' /\ LoadedDistances' /\ PassInv' /\ FarInv'
<1> USE DEF SamplingInv
<1>1. /\ state = "IDLE" /\ start /\ state' = "INITP0" /\ cnt' = 1
      /\ UNCHANGED <<cloud, mdt>> /\ CloudBuckets' = CloudBuckets
      /\ \A b \in CloudBuckets : ~Walked(b)' /\ Account(b)' = 0
  BY StartView
<1>2. DistanceInv'
  <2> SUFFICES ASSUME NEW b \in CloudBuckets
               PROVE  BucketInv(b)'
    BY <1>1 DEF DistanceInv
  <2>1. \A p \in Members(cloud, b) : mdt'[p] = Inf
    BY <1>1 DEF LoadedDistances, Members
  <2> QED BY <1>1, <2>1 DEF BucketInv, Sound, Covered
<1>3. LoadedDistances'
  BY <1>1 DEF LoadedDistances
<1>4. PassInv' /\ FarInv'
  BY <1>1, StartKeeps, PointIdle DEF Travelling
<1> QED BY <1>2, <1>3, <1>4

LEMMA HostSample ==
  ASSUME SamplingInv, HostStart \/ HostRelease
  PROVE  DistanceInv' /\ LoadedDistances' /\ PassInv' /\ FarInv'
<1> USE DEF SamplingInv
<1>1. CASE HostStart
  <2>1. ~InJob /\ state \in {"IDLE", "DONE"}
    BY <1>1 DEF HostStart, CoreInv, ControlInv, InJob
  <2>2. state' = state /\ mdt' = [p \in Points |-> Inf]
    BY <1>1 DEF HostStart, control
  <2>3. PassInv' /\ FarInv'
    BY <2>1, <2>2, HostKeeps, PointIdle DEF Travelling
  <2> QED BY <2>1, <2>2, <2>3 DEF DistanceInv, InJob, LoadedDistances
<1>2. CASE HostRelease
  <2>1. /\ ~start'
        /\ UNCHANGED <<cloud, state, cnt, winner, pos, bbPort, mbPort, resPort, bb, mb,
                       res, mdt, bktFifo, fpFifo, pe, task, pass, refs, far, hold>>
    BY <1>2 DEF HostRelease, control, walk, ports, memory, point
  <2>2. /\ Entries' = Entries /\ Slots' = Slots /\ Results' = Results
        /\ CloudBuckets' = CloudBuckets /\ Returns' = Returns
        /\ OutstandingBuckets' = OutstandingBuckets
    BY <2>1, RouteView DEF Entries, Committed, Slots, Results, CloudBuckets, Returns
  <2>3. \A b : Walked(b)' = Walked(b) /\ Account(b)' = Account(b)
    BY <2>1, <2>2 DEF Walked, Position, Decided, Account, Settled
  <2>4. DistanceInv'
    BY <2>1, <2>2, <2>3, DistanceFrame DEF InJob
  <2>5. PassInv' /\ FarInv'
    BY <2>1, <2>2, PointFrame
  <2> QED BY <2>1, <2>4, <2>5 DEF LoadedDistances
<1> QED BY <1>1, <1>2

LEMMA ResetSample ==
  ASSUME SamplingInv, Reset
  PROVE  DistanceInv' /\ LoadedDistances' /\ PassInv' /\ FarInv'
<1>1. state' = "IDLE" /\ ~start'
  BY DEF Reset
<1>2. PassInv' /\ FarInv'
  BY <1>1, ResetKeeps, PointIdle DEF SamplingInv, Travelling
<1> QED BY <1>1, <1>2 DEF DistanceInv, InJob, LoadedDistances

LEMMA StutterSample ==
  ASSUME SamplingInv, UNCHANGED vars
  PROVE  DistanceInv' /\ LoadedDistances' /\ PassInv' /\ FarInv'
<1> USE DEF SamplingInv
<1>1. UNCHANGED <<cloud, start, state, cnt, winner, pos, bbPort, mbPort, resPort, bb, mb,
                  res, mdt, bktFifo, fpFifo, pe, task, pass, refs, far, hold>>
  BY DEF vars, host, control, walk, ports, memory, point
<1>2. /\ Entries' = Entries /\ Slots' = Slots /\ Results' = Results
      /\ CloudBuckets' = CloudBuckets /\ Returns' = Returns
      /\ OutstandingBuckets' = OutstandingBuckets
  BY <1>1, RouteView DEF Entries, Committed, Slots, Results, CloudBuckets, Returns
<1>3. \A b : Walked(b)' = Walked(b) /\ Account(b)' = Account(b)
  BY <1>1, <1>2 DEF Walked, Position, Decided, Account, Settled
<1>4. DistanceInv'
  BY <1>1, <1>2, <1>3, DistanceFrame DEF InJob
<1>5. PassInv' /\ FarInv'
  BY <1>1, <1>2, PointFrame
<1> QED BY <1>1, <1>4, <1>5 DEF LoadedDistances

-----------------------------------------------------------------------------
(* The point engine.                                                       *)

(* What a task is while the point engine works on it: its references are   *)
(* the merge slots its bucket has and the sample, samples of the job all.  *)
LEMMA TaskContext ==
  ASSUME CoreInv, pe # "IDLE"
  PROVE  /\ InJob /\ cnt \in Nat /\ cnt >= 1 /\ state # "IDLE"
         /\ task.bid \in CloudBuckets /\ task.bid \in Buckets
         /\ task.bid \in OutstandingBuckets
         /\ Walked(task.bid) /\ Account(task.bid) = cnt - 1
         /\ task.sample = Results[cnt]
         /\ task.mcnt = Entries[task.bid].mcnt /\ task.mcnt \in Nat
         /\ \A k \in 0..task.mcnt :
              /\ Reference(k) = TaskReference(k)
              /\ \E i \in 1..cnt : TaskReference(k) = Results[i]
<1>1. Travelling
  BY NothingBetweenIterations
<1>2. InJob /\ state # "IDLE"
  BY <1>1 DEF Travelling, InJob
<1>3. cnt \in Nat /\ cnt >= 1 /\ Results[cnt] = sample
  BY <1>2, WalkTypes DEF CoreInv, ControlInv, ResultInv
<1>4. task \in OutstandingTasks /\ task.bid \in OutstandingBuckets
  BY DEF OutstandingTasks, OutstandingBuckets
<1>5. /\ task.bid \in CloudBuckets /\ task.bid \in Buckets /\ Walked(task.bid)
      /\ Account(task.bid) = cnt - 1
  BY <1>4, WalkTypes DEF CoreInv, RouteInv, Account, Settled
<1>6. /\ task.sample = sample /\ task.mcnt = Entries[task.bid].mcnt
      /\ task.mcnt \in Nat
  BY <1>4 DEF CoreInv, TaskInv, TypeInv, TypeOK, PointType, Task
<1>7. /\ task.mcnt = IF cnt - 1 = 0 THEN 0 ELSE Len(Slots[task.bid])
      /\ \A k \in 1..task.mcnt : \E i \in 1..cnt - 1 : Slots[task.bid][k] = Results[i]
  <2>1. /\ Entries[task.bid].mcnt = IF cnt - 1 = 0 THEN 0 ELSE Len(Slots[task.bid])
        /\ \A k \in 1..Entries[task.bid].mcnt :
             \E i \in 1..cnt - 1 : Slots[task.bid][k] = Results[i]
    BY <1>2, <1>5 DEF CoreInv, MergeInv
  <2> QED BY <1>6, <2>1
<1>8. Slots[task.bid] = mb[task.bid] /\ Len(Slots[task.bid]) \in Nat
  <2>1. Slots \in [Buckets -> Seq(Points)]
    BY ViewTypes DEF CoreInv, TypeInv, TypeOK
  <2>2. CASE mbPort = <<>>
    BY <1>5, <2>1, <2>2 DEF Slots
  <2>3. CASE mbPort # <<>>
    <3>1. mbPort[1].addr # task.bid
      BY <1>4, <2>3 DEF CoreInv, PortsClear, TypeInv, TypeOK, PortType
    <3> QED BY <1>5, <2>1, <2>3, <3>1 DEF Slots, CoreInv, TypeInv, TypeOK, MemoryType
  <2> QED BY <2>2, <2>3
<1>9. ASSUME NEW k \in 0..task.mcnt
      PROVE  /\ Reference(k) = TaskReference(k)
             /\ \E i \in 1..cnt : TaskReference(k) = Results[i]
  <2>1. CASE k < task.mcnt
    <3>1. k + 1 \in 1..task.mcnt /\ k < Len(mb[task.bid])
      BY <1>6, <1>7, <1>8, <2>1
    <3>2. Reference(k) = TaskReference(k) /\ TaskReference(k) = Slots[task.bid][k + 1]
      BY <1>8, <2>1, <3>1 DEF Reference, TaskReference, MergeRead
    <3>3. PICK i \in 1..cnt - 1 : Slots[task.bid][k + 1] = Results[i]
      BY <1>7, <3>1
    <3> QED BY <1>3, <3>2, <3>3
  <2>2. CASE ~(k < task.mcnt)
    <3>1. cnt \in 1..cnt
      BY <1>3
    <3> QED BY <1>3, <1>6, <2>2, <3>1 DEF Reference, TaskReference
  <2> QED BY <2>1, <2>2
<1> QED BY <1>2, <1>3, <1>4, <1>5, <1>6, <1>9

(* A step that writes no distance. *)
LEMMA DistancesKept ==
  ASSUME SamplingInv, PointEngine, UNCHANGED mdt
  PROVE  /\ DistanceInv' /\ LoadedDistances'
         /\ \A b, d, x : FarOf(b, d, x)' = FarOf(b, d, x)
         /\ \A b : Applied(b)' = Applied(b)
<1>1. /\ UNCHANGED <<cloud, cnt, state, start>> /\ Results' = Results
      /\ Entries' = Entries /\ Slots' = Slots /\ CloudBuckets' = CloudBuckets
      /\ \A b : Walked(b)' = Walked(b)
  BY PointView
<1>2. \A b : Account(b)' = Account(b)
  BY <1>1, PointRoute DEF Account, Settled, SamplingInv
<1>3. DistanceInv'
  BY <1>1, <1>2, DistanceFrame DEF SamplingInv, InJob
<1>4. LoadedDistances'
  BY <1>1 DEF SamplingInv, LoadedDistances
<1> QED BY <1>1, <1>3, <1>4 DEF FarOf, Applied

LEMMA AcceptSample ==
  ASSUME SamplingInv, Accept
  PROVE  DistanceInv' /\ LoadedDistances' /\ PassInv' /\ FarInv'
<1>1. /\ pe' = "LDMERGE" /\ pass' = 0 /\ UNCHANGED <<mdt, fpFifo>>
      /\ PointEngine
  BY DEF Accept, PointEngine
<1>2. Returns' = Returns
  BY <1>1 DEF Returns
<1>3. \A k \in 0..task'.mcnt : ~(k < 0 * L)
  BY ConstantTypes
<1> QED BY <1>1, <1>2, <1>3, DistancesKept DEF SamplingInv, PassInv, FarInv

LEMMA LoadMergeSample ==
  ASSUME SamplingInv, LoadMerge
  PROVE  DistanceInv' /\ LoadedDistances' /\ PassInv' /\ FarInv'
<1>1. /\ pe = "LDMERGE" /\ pe' = "STREAM" /\ UNCHANGED <<cloud, mdt, fpFifo, task, pass>>
      /\ far' = TreeAtLoad /\ PointEngine
  BY DEF LoadMerge, PointEngine, host
<1>2. refs' = {Reference(k) : k \in PassSlots}
  BY DEF LoadMerge, PassSlots
<1>3. Slots' = Slots /\ Returns' = Returns
  BY <1>1, PointView DEF Returns
<1>4. /\ \A k : TaskReference(k)' = TaskReference(k)
      /\ PassSlots' = PassSlots /\ LastPass' = LastPass
  BY <1>1, <1>3 DEF TaskReference, PassSlots, LastPass, NumPasses
<1>5. PassSlots \subseteq 0..task.mcnt
  <2>1. pass \in Nat /\ L \in Nat /\ task.mcnt \in Nat
    BY ConstantTypes DEF SamplingInv, CoreInv, TypeInv, TypeOK, PointType, Task
  <2>2. pass * L \in Nat
    BY <2>1
  <2> QED BY <2>1, <2>2 DEF PassSlots
<1>6. \A k \in PassSlots : Reference(k) = TaskReference(k)
  BY <1>1, <1>5, TaskContext DEF SamplingInv
<1>7. refs' = {TaskReference(k) : k \in PassSlots}
  BY <1>2, <1>6
<1>8. PassInv'
  BY <1>1, <1>4, <1>7 DEF SamplingInv, PassInv, TreeAtLoad
<1>9. FarInv'
  BY <1>1, <1>3, DistancesKept DEF SamplingInv, FarInv
<1> QED BY <1>1, <1>8, <1>9, DistancesKept

LEMMA CollectFarSample ==
  ASSUME SamplingInv, CollectFar
  PROVE  DistanceInv' /\ LoadedDistances' /\ PassInv' /\ FarInv'
<1>1. /\ pe = "COLLECT" /\ pe' = "PUSH" /\ UNCHANGED <<mdt, fpFifo, task>>
      /\ hold' = [bid |-> task.bid, dist |-> far[1].dist, idx |-> far[1].idx]
      /\ PointEngine
  BY DEF CollectFar, PointEngine
<1>2. Returns' = Returns
  BY <1>1 DEF Returns
<1>3. FarInv'
  <2>1. hold'.dist = far[1].dist /\ hold'.idx = far[1].idx
    BY <1>1
  <2> QED BY <1>1, <1>2, <2>1, DistancesKept DEF SamplingInv, FarInv
<1> QED BY <1>1, <1>3, DistancesKept DEF PassInv

LEMMA PushSample ==
  ASSUME SamplingInv, Push
  PROVE  DistanceInv' /\ LoadedDistances' /\ PassInv' /\ FarInv'
<1>1. /\ pe = "PUSH" /\ pe' = "IDLE" /\ UNCHANGED mdt
      /\ fpFifo' = Append(fpFifo, hold) /\ hold.bid = task.bid /\ PointEngine
  BY DEF Push, PointEngine, SamplingInv, CoreInv, RouteInv
<1>2. Returns' = Returns \cup {hold}
  <2>1. fpFifo \in Seq(Return) /\ Len(fpFifo) \in Nat
    BY DEF SamplingInv, CoreInv, TypeInv, TypeOK, FifoType
  <2>2. /\ DOMAIN fpFifo = 1..Len(fpFifo) /\ DOMAIN fpFifo' = 1..Len(fpFifo) + 1
        /\ fpFifo'[Len(fpFifo) + 1] = hold
        /\ \A i \in 1..Len(fpFifo) : fpFifo'[i] = fpFifo[i]
    BY <1>1, <2>1
  <2> QED BY <2>1, <2>2 DEF Returns
<1>3. FarInv'
  BY <1>1, <1>2, DistancesKept DEF SamplingInv, FarInv
<1> QED BY <1>1, <1>3, DistancesKept DEF PassInv

-----------------------------------------------------------------------------
(* A pass over a bucket.                                                   *)

(* Each point of the bucket takes the nearest of its references. *)
LEMMA StreamDistances ==
  ASSUME SamplingInv, Stream
  PROVE  /\ \A p \in Members(cloud, task.bid) :
              /\ mdt'[p] = Nearest(p) /\ mdt'[p] \in Nat /\ mdt'[p] <= mdt[p]
              /\ \A k \in PassSlots : mdt'[p] <= Dist(cloud, p, TaskReference(k))
              /\ mdt'[p] = mdt[p] \/ \E i \in 1..cnt : mdt'[p] = Dist(cloud, p, Results[i])
         /\ \A p \in Points \ Members(cloud, task.bid) : mdt'[p] = mdt[p]
         /\ PassSlots \subseteq 0..task.mcnt
<1> USE DEF SamplingInv
<1>1. pe = "STREAM" /\ refs = {TaskReference(k) : k \in PassSlots}
  BY DEF Stream, PassInv
<1>2. PassSlots \subseteq 0..task.mcnt
  <2>1. pass \in Nat /\ L \in Nat /\ task.mcnt \in Nat
    BY ConstantTypes DEF CoreInv, TypeInv, TypeOK, PointType, Task
  <2>2. pass * L \in Nat
    BY <2>1
  <2> QED BY <2>1, <2>2 DEF PassSlots
<1>3. InJob /\ \A k \in PassSlots : \E i \in 1..cnt : TaskReference(k) = Results[i]
  BY <1>1, <1>2, TaskContext
<1>4. mdt \in [Points -> Nat]
  BY DEF CoreInv, TypeInv, TypeOK, PointType
<1>5. mdt' = [p \in Points |-> IF p \in Members(cloud, task.bid) THEN Nearest(p)
                               ELSE mdt[p]]
  BY DEF Stream
<1>6. ASSUME NEW p \in Members(cloud, task.bid)
      PROVE  /\ mdt'[p] = Nearest(p) /\ mdt'[p] \in Nat /\ mdt'[p] <= mdt[p]
             /\ \A k \in PassSlots : mdt'[p] <= Dist(cloud, p, TaskReference(k))
             /\ mdt'[p] = mdt[p] \/ \E i \in 1..cnt : mdt'[p] = Dist(cloud, p, Results[i])
  <2>1. p \in Points /\ mdt'[p] = Nearest(p)
    BY <1>5 DEF Members
  <2>2. \A q \in refs : Dist(cloud, p, q) \in Nat
    BY <1>1, <1>3, <2>1, SampleDistance
  <2>3. /\ Nearest(p) \in {mdt[p]} \cup {Dist(cloud, p, q) : q \in refs}
        /\ Nearest(p) \in Nat /\ Nearest(p) <= mdt[p]
        /\ \A q \in refs : Nearest(p) <= Dist(cloud, p, q)
    BY <1>4, <2>1, <2>2, NearestIsLeast
  <2>4. \A k \in PassSlots : Nearest(p) <= Dist(cloud, p, TaskReference(k))
    BY <1>1, <2>3
  <2>5. Nearest(p) = mdt[p] \/ \E i \in 1..cnt : Nearest(p) = Dist(cloud, p, Results[i])
    BY <1>1, <1>3, <2>3
  <2> QED BY <2>1, <2>3, <2>4, <2>5
<1>7. ASSUME NEW p \in Points \ Members(cloud, task.bid)
      PROVE  mdt'[p] = mdt[p]
  BY <1>5
<1> QED BY <1>2, <1>6, <1>7

(* What the distances mean for a bucket survives the pass. *)
LEMMA StreamBuckets ==
  ASSUME SamplingInv, Stream
  PROVE  DistanceInv' /\ LoadedDistances'
<1> USE DEF SamplingInv
<1>1. /\ UNCHANGED <<cloud, cnt, state, start>> /\ Results' = Results
      /\ Entries' = Entries /\ Slots' = Slots /\ CloudBuckets' = CloudBuckets
      /\ \A b : Walked(b)' = Walked(b)
  BY PointView DEF PointEngine
<1>2. \A b : Account(b)' = Account(b)
  BY <1>1, PointRoute DEF Account, Settled, PointEngine
<1>3. InJob /\ Walked(task.bid) /\ state # "IDLE"
  BY TaskContext DEF Stream
<1>4. \A b, n : Summary(b, n)' = Summary(b, n)
  BY <1>1 DEF Summary
<1>5. ASSUME NEW b \in CloudBuckets, NEW p \in Members(cloud, b), NEW n \in Nat, n <= cnt,
             Covered(b, p, n)
      PROVE  Covered(b, p, n)'
  <2>1. p \in Points /\ mdt[p] \in Nat
    BY MemberTypes
  <2>2. mdt'[p] <= mdt[p] /\ mdt'[p] \in Nat
    BY <2>1, StreamDistances
  <2>3. \A i \in 1..n : Dist(cloud, p, Results[i]) \in Nat
    <3>1. cnt \in Nat /\ \A i \in 1..n : i \in 1..cnt
      BY <1>3, <1>5, AccountBound
    <3> QED BY <1>3, <2>1, <3>1, SampleDistance
  <2>4. \A i \in 1..n : mdt[p] <= Dist(cloud, p, Results[i])
                          => mdt'[p] <= Dist(cloud, p, Results[i])
    BY <2>1, <2>2, <2>3
  <2> QED BY <1>1, <1>5, <2>4 DEF Covered
<1>6. ASSUME NEW b \in CloudBuckets, NEW p \in Members(cloud, b)
      PROVE  Sound(p, IF Walked(b) THEN cnt ELSE cnt - 1)'
  <2>1. Sound(p, IF Walked(b) THEN cnt ELSE cnt - 1) /\ p \in Points
    BY <1>3, MemberTypes DEF DistanceInv, BucketInv
  <2>2. CASE b = task.bid
    <3>1. Walked(b)' /\ Sound(p, cnt)
      BY <1>1, <1>3, <2>1, <2>2
    <3>2. mdt'[p] = mdt[p] \/ \E i \in 1..cnt : mdt'[p] = Dist(cloud, p, Results[i])
      BY <2>2, StreamDistances
    <3> QED BY <1>1, <3>1, <3>2 DEF Sound
  <2>3. CASE b # task.bid
    <3>1. mdt'[p] = mdt[p]
      BY <2>1, <2>3, StreamDistances DEF Members
    <3> QED BY <1>1, <2>1, <3>1 DEF Sound
  <2> QED BY <2>2, <2>3
<1>7. DistanceInv'
  <2> SUFFICES ASSUME NEW b \in CloudBuckets
               PROVE  BucketInv(b)'
    BY <1>1 DEF DistanceInv
  <2>1. BucketInv(b) /\ Account(b) \in Nat /\ Account(b) <= cnt
    BY <1>3, AccountBound DEF DistanceInv
  <2>2. \A p \in Members(cloud, b) : Covered(b, p, Account(b))'
    BY <1>5, <2>1, <1>2, <1>1 DEF BucketInv, Covered
  <2> QED BY <1>1, <1>2, <1>4, <1>6, <2>1, <2>2 DEF BucketInv
<1>8. LoadedDistances'
  BY <1>1, <1>3 DEF LoadedDistances
<1> QED BY <1>7, <1>8

(* The passes so far have applied the references loaded for them. *)
LEMMA StreamPasses ==
  ASSUME SamplingInv, Stream
  PROVE  \A k \in 0..task.mcnt : k < pass * L + L =>
           \A p \in Members(cloud, task.bid) : mdt'[p] <= Dist(cloud, p, TaskReference(k))
<1> USE DEF SamplingInv
<1> SUFFICES ASSUME NEW k \in 0..task.mcnt, k < pass * L + L,
                    NEW p \in Members(cloud, task.bid)
             PROVE  mdt'[p] <= Dist(cloud, p, TaskReference(k))
  OBVIOUS
<1>1. pass \in Nat /\ L \in Nat /\ task.mcnt \in Nat /\ pass * L \in Nat
  BY ConstantTypes, NextPassStarts DEF CoreInv, TypeInv, TypeOK, PointType, Task
<1>2. CASE k < pass * L
  <2>1. pe = "STREAM"
    BY DEF Stream
  <2>2. mdt[p] <= Dist(cloud, p, TaskReference(k))
    BY <1>2, <2>1 DEF PassInv
  <2>3. mdt'[p] \in Nat /\ mdt'[p] <= mdt[p] /\ p \in Points /\ mdt[p] \in Nat
    BY StreamDistances, MemberTypes
  <2>4. Dist(cloud, p, TaskReference(k)) \in Nat
    <3>1. InJob /\ \E i \in 1..cnt : TaskReference(k) = Results[i]
      BY <2>1, TaskContext
    <3> QED BY <2>3, <3>1, SampleDistance
  <2> QED BY <2>2, <2>3, <2>4
<1>3. CASE ~(k < pass * L)
  <2>1. k \in PassSlots
    BY <1>1, <1>3 DEF PassSlots
  <2> QED BY <2>1, StreamDistances
<1> QED BY <1>2, <1>3

(* After the last pass the distance memory knows every sample for the      *)
(* points of the bucket.                                                   *)
LEMMA StreamApplied ==
  ASSUME SamplingInv, Stream, LastPass
  PROVE  Applied(task.bid)'
<1> USE DEF SamplingInv
<1>1. /\ InJob /\ cnt \in Nat /\ cnt >= 1 /\ task.bid \in CloudBuckets
      /\ Account(task.bid) = cnt - 1 /\ task.sample = Results[cnt]
      /\ task.mcnt = Entries[task.bid].mcnt /\ task.mcnt \in Nat
  BY TaskContext DEF Stream
<1>2. UNCHANGED <<cloud, cnt, task>> /\ Results' = Results
  BY PointView DEF PointEngine, Stream
<1>3. pass \in Nat /\ L \in Nat \ {0} /\ pass + 1 = (task.mcnt + 1 + L - 1) \div L
  BY ConstantTypes DEF CoreInv, TypeInv, TypeOK, PointType, LastPass, NumPasses
<1>4. \A k \in 0..task.mcnt : k < pass * L + L
  BY <1>1, <1>3, LastPassCovers
<1>5. ASSUME NEW p \in Members(cloud, task.bid), NEW i \in 1..cnt
      PROVE  mdt'[p] <= Dist(cloud, p, Results[i])
  <2>1. \A k \in 0..task.mcnt : mdt'[p] <= Dist(cloud, p, TaskReference(k))
    BY <1>4, StreamPasses
  <2>2. CASE i = cnt
    <3>1. task.mcnt \in 0..task.mcnt /\ TaskReference(task.mcnt) = Results[cnt]
      BY <1>1 DEF TaskReference
    <3> QED BY <2>1, <2>2, <3>1
  <2>3. CASE i # cnt
    <3>1. i \in 1..cnt - 1
      BY <1>1, <2>3
    <3>2. \/ mdt[p] <= Dist(cloud, p, Results[i])
          \/ \E k \in 1..task.mcnt :
               Dist(cloud, p, Slots[task.bid][k]) <= Dist(cloud, p, Results[i])
      BY <1>1, <3>1 DEF DistanceInv, BucketInv, Covered
    <3>3. mdt'[p] \in Nat /\ mdt'[p] <= mdt[p] /\ p \in Points /\ mdt[p] \in Nat
      BY StreamDistances, MemberTypes
    <3>4. Dist(cloud, p, Results[i]) \in Nat
      BY <1>1, <3>3, SampleDistance
    <3>5. ASSUME NEW k \in 1..task.mcnt,
                 Dist(cloud, p, Slots[task.bid][k]) <= Dist(cloud, p, Results[i])
          PROVE  mdt'[p] <= Dist(cloud, p, Results[i])
      <4>1. k - 1 \in 0..task.mcnt /\ TaskReference(k - 1) = Slots[task.bid][k]
        BY <1>1 DEF TaskReference
      <4>2. mdt'[p] <= Dist(cloud, p, Slots[task.bid][k])
        BY <2>1, <4>1
      <4>3. Dist(cloud, p, Slots[task.bid][k]) \in Nat
        BY <1>1, <3>3, SlotIsSample, SampleDistance
      <4> QED BY <3>3, <3>4, <3>5, <4>2, <4>3
    <3>6. CASE mdt[p] <= Dist(cloud, p, Results[i])
      BY <3>3, <3>4, <3>6
    <3> QED BY <3>2, <3>5, <3>6
  <2> QED BY <2>2, <2>3
<1> QED BY <1>2, <1>5 DEF Applied

(* The tree, cleared for the last pass, then holds the bucket's far point. *)
LEMMA StreamFar ==
  ASSUME SamplingInv, Stream, LastPass
  PROVE  far' # <<>> /\ FarOf(task.bid, far[1].dist, far[1].idx)'
<1> USE DEF SamplingInv
<1> DEFINE b == Members(cloud, task.bid)
           rows == {[dist |-> Nearest(p), idx |-> p] : p \in b}
<1>1. far = <<>> /\ far' = Tree(rows)
  <2>1. far = <<>>
    BY DEF Stream, PassInv
  <2>2. far' = Tree(rows \cup {far[i] : i \in DOMAIN far})
    BY DEF Stream
  <2>3. {far[i] : i \in DOMAIN far} = {}
    BY <2>1
  <2> QED BY <2>1, <2>2, <2>3
<1>2. UNCHANGED <<cloud, task>> /\ pe = "STREAM" /\ TypeInv
  BY PointView DEF PointEngine, Stream, CoreInv
<1>3. ASSUME NEW p \in b
      PROVE  mdt'[p] = Nearest(p) /\ Nearest(p) \in Nat /\ Nearest(p) <= Inf
             /\ p \in Points
  <2>1. /\ mdt'[p] = Nearest(p) /\ mdt'[p] \in Nat /\ mdt'[p] <= mdt[p]
        /\ p \in Points /\ mdt[p] \in Nat
    BY StreamDistances, MemberTypes
  <2>2. mdt[p] <= Inf /\ Inf \in Nat
    BY <1>2, <2>1, ConstantTypes DEF TypeInv, Bounded
  <2>3. mdt'[p] <= Inf
    BY <2>1, <2>2
  <2> QED BY <2>1, <2>3
<1>4. b # {}
  <2>1. cloud \in Clouds /\ task.bid \in 0..LastBucket(cloud)
    BY <1>2, TaskContext, WalkTypes DEF CloudBuckets
  <2> QED BY <2>1, CloudAssumption DEF Members
<1>5. rows \subseteq Far /\ rows # {} /\ \A f \in rows : f.dist <= Inf
  <2> HIDE DEF b
  <2>1. \A p \in b : /\ [dist |-> Nearest(p), idx |-> p] \in Far
                     /\ [dist |-> Nearest(p), idx |-> p].dist <= Inf
    BY <1>3 DEF Far
  <2>2. \E p \in b : [dist |-> Nearest(p), idx |-> p] \in rows
    BY <1>4
  <2> QED BY <2>1, <2>2
<1>6. /\ FarthestRow(rows) \in rows
      /\ \A g \in rows : \/ g = FarthestRow(rows)
                         \/ Better(FarthestRow(rows).dist, FarthestRow(rows).idx,
                                   g.dist, g.idx)
  <2> HIDE DEF rows
  <2> QED BY <1>5, FarthestExists
<1>7. far' = <<FarthestRow(rows)>>
  <2> HIDE DEF rows
  <2> QED BY <1>1, <1>5 DEF Tree
<1>8. PICK x \in b : FarthestRow(rows) = [dist |-> Nearest(x), idx |-> x]
  BY <1>6
<1>9. far'[1].dist = Nearest(x) /\ far'[1].idx = x /\ far' # <<>>
  BY <1>7, <1>8
<1>10. ASSUME NEW p \in b \ {x}
       PROVE  Better(Nearest(x), x, Nearest(p), p)
  <2>1. PICK g \in rows : g = [dist |-> Nearest(p), idx |-> p]
    OBVIOUS
  <2>2. g # FarthestRow(rows)
    <3>1. g.idx = p /\ FarthestRow(rows).idx = x
      BY <1>8, <2>1
    <3> QED BY <3>1
  <2>3. Better(FarthestRow(rows).dist, FarthestRow(rows).idx, g.dist, g.idx)
    BY <1>6, <2>2
  <2>4. /\ FarthestRow(rows).dist = Nearest(x) /\ FarthestRow(rows).idx = x
        /\ g.dist = Nearest(p) /\ g.idx = p
    BY <1>8, <2>1
  <2> QED BY <2>3, <2>4
<1>11. \A p \in Members(cloud, task.bid) \ {x} : Better(mdt'[x], x, mdt'[p], p)
  BY <1>3, <1>10
<1>12. x \in Members(cloud, task.bid) /\ far'[1].dist = mdt'[x]
  BY <1>3, <1>9
<1> HIDE DEF b
<1> QED BY <1>2, <1>9, <1>11, <1>12 DEF FarOf, Members

LEMMA StreamSample ==
  ASSUME SamplingInv, Stream
  PROVE  DistanceInv' /\ LoadedDistances' /\ PassInv' /\ FarInv'
<1> USE DEF SamplingInv
<1>1. /\ UNCHANGED <<cloud, cnt, task, fpFifo, refs>> /\ Results' = Results
      /\ Slots' = Slots /\ pe = "STREAM"
  BY PointView DEF PointEngine, Stream
<1>2. /\ pe' = IF LastPass THEN "COLLECT" ELSE "LDMERGE"
      /\ pass' = IF LastPass THEN pass ELSE pass + 1
  BY DEF Stream
<1>3. PassInv'
  <2>1. \A k : TaskReference(k)' = TaskReference(k)
    BY <1>1 DEF TaskReference
  <2>2. pass \in Nat /\ L \in Nat
    BY ConstantTypes DEF CoreInv, TypeInv, TypeOK, PointType
  <2>3. (pass + 1) * L = pass * L + L
    BY <2>2, NextPassStarts
  <2> QED BY <1>1, <1>2, <2>1, <2>3, StreamPasses DEF PassInv
<1>4. ASSUME NEW r \in Returns
      PROVE  FarOf(r.bid, r.dist, r.idx)' /\ Applied(r.bid)'
  <2>1. FarOf(r.bid, r.dist, r.idx) /\ Applied(r.bid)
    BY DEF FarInv
  <2>2. r.bid # task.bid
    BY <1>1 DEF Returns, CoreInv, RouteInv, Distinct
  <2>3. \A p \in Members(cloud, r.bid) : mdt'[p] = mdt[p]
    BY <2>2, StreamDistances DEF Members
  <2> QED BY <1>1, <2>1, <2>3 DEF FarOf, Applied
<1>5. FarInv'
  <2>1. Returns' = Returns
    BY <1>1 DEF Returns
  <2>2. CASE LastPass
    BY <1>1, <1>2, <1>4, <2>1, <2>2, StreamApplied, StreamFar DEF FarInv
  <2>3. CASE ~LastPass
    BY <1>2, <1>4, <2>1, <2>3 DEF FarInv
  <2> QED BY <2>2, <2>3
<1> QED BY <1>3, <1>5, StreamBuckets

-----------------------------------------------------------------------------
(* The invariant.                                                          *)

LEMMA InitSamplingInv == Init => SamplingInv
<1> SUFFICES ASSUME Init PROVE SamplingInv
  OBVIOUS
<1>1. /\ state = "IDLE" /\ ~start /\ pe = "IDLE" /\ fpFifo = <<>>
  BY DEF Init
<1>2. Returns = {}
  BY <1>1 DEF Returns
<1> QED BY <1>1, <1>2, InitCoreInv
        DEF SamplingInv, DistanceInv, InJob, LoadedDistances, PassInv, FarInv

LEMMA StepSamplingInv == SamplingInv /\ [Next]_vars => SamplingInv'
<1> SUFFICES ASSUME SamplingInv, [Next]_vars PROVE SamplingInv'
  OBVIOUS
<1>1. CoreInv'
  BY StepCoreInv DEF SamplingInv
<1>2. DistanceInv' /\ LoadedDistances' /\ PassInv' /\ FarInv'
  <2>1. CASE BucketEngine
    BY <2>1, MovesSample, IssueSample, SkipSample, DeferSample, CollectSample,
       StartSample, IterEndSample DEF BucketEngine, Moves
  <2>2. CASE PointEngine
    BY <2>2, AcceptSample, LoadMergeSample, StreamSample, CollectFarSample, PushSample
       DEF PointEngine
  <2>3. CASE HostStart \/ HostRelease
    BY <2>3, HostSample
  <2>4. CASE Reset
    BY <2>4, ResetSample
  <2>5. CASE UNCHANGED vars
    BY <2>5, StutterSample
  <2> QED BY <2>1, <2>2, <2>3, <2>4, <2>5 DEF Next
<1> QED BY <1>1, <1>2 DEF SamplingInv

(* Every reachable state of the core satisfies the sampling invariant. *)
LEMMA SamplingInvariant == Spec => []SamplingInv
BY InitSamplingInv, StepSamplingInv, PTL DEF Spec

-----------------------------------------------------------------------------
(* The summaries between iterations.                                       *)

(* The least of what is known of a point is its distance to the samples.   *)
LEMMA LeastKnown ==
  ASSUME SamplingInv, InJob, NEW b \in CloudBuckets, ~Walked(b), Account(b) = cnt - 1,
         cnt > 1, NEW p \in Members(cloud, b)
  PROVE  LET known == {mdt[p]} \cup {Dist(cloud, p, Slots[b][k]) : k \in 1..Entries[b].mcnt}
         IN  \E m \in known :
               /\ m \in Nat /\ \A n \in known : m <= n
               /\ \A i \in 1..cnt - 1 : m <= Dist(cloud, p, Results[i])
               /\ \E i \in 1..cnt - 1 : m = Dist(cloud, p, Results[i])
<1> USE DEF SamplingInv
<1> DEFINE known == {mdt[p]} \cup {Dist(cloud, p, Slots[b][k]) : k \in 1..Entries[b].mcnt}
<1>1. p \in Points /\ mdt[p] \in Nat /\ cnt \in Nat
  BY MemberTypes, AccountBound
<1>2. \A i \in 1..cnt - 1 : /\ Dist(cloud, p, Results[i]) \in Nat
                            /\ Dist(cloud, p, Results[i]) < Inf
  <2>1. \A i \in 1..cnt - 1 : i \in 1..cnt
    BY <1>1
  <2> QED BY <1>1, <2>1, SampleDistance
<1>3. \A k \in 1..Entries[b].mcnt : \E i \in 1..cnt - 1 : Slots[b][k] = Results[i]
  BY SlotIsSample
<1>4. known \subseteq Nat /\ known # {}
  BY <1>1, <1>2, <1>3
<1>5. PICK m \in known : \A n \in known : m <= n
  <2> HIDE DEF known
  <2> QED BY <1>4, NatMin
<1>6. m \in Nat
  BY <1>4, <1>5
<1>7. ASSUME NEW i \in 1..cnt - 1
      PROVE  m <= Dist(cloud, p, Results[i])
  <2>1. PICK n \in known : n <= Dist(cloud, p, Results[i])
    <3>1. Covered(b, p, cnt - 1)
      BY DEF DistanceInv, BucketInv
    <3> QED BY <3>1 DEF Covered
  <2>2. n \in Nat /\ m <= n /\ Dist(cloud, p, Results[i]) \in Nat
    BY <1>2, <1>4, <1>5
  <2> QED BY <1>6, <2>1, <2>2
<1>8. \E i \in 1..cnt - 1 : m = Dist(cloud, p, Results[i])
  <2>1. CASE m = mdt[p]
    <3>1. Sound(p, cnt - 1)
      BY DEF DistanceInv, BucketInv
    <3>2. 1 \in 1..cnt - 1
      BY <1>1
    <3>3. m # Inf
      BY <1>2, <1>6, <1>7, <3>2, ConstantTypes
    <3> QED BY <2>1, <3>1, <3>3 DEF Sound
  <2>2. ASSUME NEW k \in 1..Entries[b].mcnt, m = Dist(cloud, p, Slots[b][k])
        PROVE  \E i \in 1..cnt - 1 : m = Dist(cloud, p, Results[i])
    BY <1>3, <2>2
  <2> QED BY <1>5, <2>1, <2>2
<1> QED BY <1>5, <1>6, <1>7, <1>8

(* Between iterations every bucket's summary is exact: the distance memory *)
(* and the merge slots the bucket has give the distance of each point to   *)
(* the samples, and the entry names the far point, though a deferred or    *)
(* skipped bucket's points were never visited.                             *)
THEOREM SummariesKept == Spec => []SummariesExact
<1>1. SamplingInv => SummariesExact
  <2> SUFFICES ASSUME SamplingInv, state = "ITERINIT", cnt > 1,
                      NEW b \in 0..LastBucket(cloud)
               PROVE  LET S == {Results[i] : i \in 1..cnt - 1}
                          e == bb[b]
                          merges == {mb[b][i] : i \in DOMAIN mb[b]}
                          known(p) == {mdt[p]} \cup {Dist(cloud, p, q) : q \in merges}
                      IN  /\ e.mcnt = Len(mb[b])
                          /\ e.fidx \in Members(cloud, b)
                          /\ IsNearest(S, e.fidx, e.fdist)
                          /\ \A p \in Members(cloud, b) :
                               \E m \in known(p) :
                                 /\ \A n \in known(p) : m <= n
                                 /\ IsNearest(S, p, m)
                                 /\ p = e.fidx \/ Better(e.fdist, e.fidx, m, p)
    BY DEF SummariesExact
  <2> USE DEF SamplingInv
  <2> DEFINE S == {Results[i] : i \in 1..cnt - 1}
             e == bb[b]
             merges == {mb[b][i] : i \in DOMAIN mb[b]}
             known(p) == {mdt[p]} \cup {Dist(cloud, p, q) : q \in merges}
  <2>1. InJob /\ b \in CloudBuckets /\ cnt \in Nat /\ b \in Buckets
    BY WalkTypes DEF InJob, CloudBuckets, CoreInv
  <2>2. bb = Entries /\ mb = Slots
    <3>1. bbPort = <<>> /\ mbPort = <<>>
      BY DEF CoreInv, PortInv
    <3> QED BY <3>1 DEF Entries, Committed, Slots
  <2>3. ~Walked(b) /\ Account(b) = cnt - 1
    <3>1. ~Walked(b)
      BY <2>1 DEF Walked, Position, Decided, CloudBuckets
    <3> QED BY <3>1 DEF Account, Settled
  <2>4. e.mcnt = Len(mb[b]) /\ DOMAIN mb[b] = 1..e.mcnt
    <3>1. e.mcnt = Len(mb[b])
      BY <2>1, <2>2, <2>3 DEF CoreInv, MergeInv
    <3>2. mb[b] \in Seq(Points)
      BY <2>1 DEF CoreInv, TypeInv, TypeOK, MemoryType
    <3> QED BY <3>1, <3>2
  <2>5. Summary(b, cnt - 1)
    BY <2>1, <2>3 DEF DistanceInv, BucketInv
  <2>6. e.fidx \in Members(cloud, b) /\ IsNearest(S, e.fidx, e.fdist)
    BY <2>2, <2>5 DEF Summary, IsNearest
  <2>7. ASSUME NEW p \in Members(cloud, b)
        PROVE  \E m \in known(p) :
                 /\ \A n \in known(p) : m <= n
                 /\ IsNearest(S, p, m)
                 /\ p = e.fidx \/ Better(e.fdist, e.fidx, m, p)
    <3>1. known(p) = {mdt[p]} \cup {Dist(cloud, p, Slots[b][k]) : k \in 1..Entries[b].mcnt}
      BY <2>2, <2>4
    <3>2. PICK m \in known(p) :
            /\ m \in Nat /\ \A n \in known(p) : m <= n
            /\ \A i \in 1..cnt - 1 : m <= Dist(cloud, p, Results[i])
            /\ \E i \in 1..cnt - 1 : m = Dist(cloud, p, Results[i])
      <4> HIDE DEF known
      <4> QED BY <2>1, <2>3, <3>1, LeastKnown
    <3>3. IsNearest(S, p, m)
      BY <3>2 DEF IsNearest
    <3>4. p = e.fidx \/ Better(e.fdist, e.fidx, m, p)
      <4> SUFFICES ASSUME p # e.fidx
                   PROVE  Better(e.fdist, e.fidx, m, p)
        OBVIOUS
      <4>1. PICK i \in 1..cnt - 1 : Better(e.fdist, e.fidx, Dist(cloud, p, Results[i]), p)
        BY <2>2, <2>5 DEF Summary
      <4>2. Dist(cloud, p, Results[i]) \in Nat /\ m <= Dist(cloud, p, Results[i])
        <5>1. p \in Points /\ i \in 1..cnt
          BY <2>1, MemberTypes
        <5> QED BY <2>1, <3>2, <5>1, SampleDistance
      <4>3. e.fdist \in Nat /\ e.fidx \in Nat /\ p \in Nat
        BY <2>1, ConstantTypes, MemberTypes
           DEF CoreInv, TypeInv, TypeOK, MemoryType, Entry
      <4> QED BY <3>2, <4>1, <4>2, <4>3 DEF Better
    <3> QED BY <3>2, <3>3, <3>4
  <2> QED BY <2>4, <2>6, <2>7
<1> QED BY <1>1, SamplingInvariant, PTL

-----------------------------------------------------------------------------
(* Farthest-point sampling.                                                *)

(* The iteration's best is the farthest point of the cloud. *)
LEMMA BestIsFarthest ==
  ASSUME SamplingInv, state = "ITEREND"
  PROVE  /\ best.idx \in Points
         /\ \A r \in Points \ {best.idx} :
              \E i \in 1..cnt : \A j \in 1..cnt :
                \/ Dist(cloud, r, Results[i]) < Dist(cloud, best.idx, Results[j])
                \/ /\ Dist(cloud, r, Results[i]) = Dist(cloud, best.idx, Results[j])
                   /\ best.idx < r
<1> USE DEF SamplingInv
<1>1. /\ InJob /\ InIteration /\ cnt \in Nat /\ cnt >= 1 /\ cloud \in Clouds
      /\ best.idx \in Points /\ best.idx \in Nat /\ best.dist \in Nat
  BY WalkTypes, ConstantTypes
     DEF InJob, InIteration, CoreInv, ControlInv, TypeInv, TypeOK, WalkType
<1>2. ASSUME NEW b \in CloudBuckets
      PROVE  /\ Settled(b) /\ Summary(b, cnt)
             /\ Entries[b].fdist \in Nat /\ Entries[b].fidx \in Points
             /\ Entries[b].fidx \in Nat
  <2>1. Settled(b) /\ Account(b) = cnt
    BY AllSettled
  <2>2. Summary(b, cnt)
    BY <1>1, <2>1 DEF DistanceInv, BucketInv
  <2>3. Entries[b] \in Entry
    BY ViewTypes, WalkTypes DEF CoreInv, TypeInv, TypeOK
  <2> QED BY <2>1, <2>2, <2>3, ConstantTypes DEF Entry
<1>3. /\ best.valid
      /\ \A b \in CloudBuckets :
           \/ best.dist = Entries[b].fdist /\ best.idx = Entries[b].fidx
           \/ Better(best.dist, best.idx, Entries[b].fdist, Entries[b].fidx)
  <2>1. 0 \in CloudBuckets
    BY WalkTypes DEF CloudBuckets, CoreInv
  <2> QED BY <1>1, <1>2, <2>1 DEF CoreInv, BestInv
<1>4. PICK c \in CloudBuckets : best.dist = Entries[c].fdist /\ best.idx = Entries[c].fidx
  BY <1>1, <1>3 DEF CoreInv, BestInv
<1>5. ASSUME NEW j \in 1..cnt
      PROVE  /\ best.dist <= Dist(cloud, best.idx, Results[j])
             /\ Dist(cloud, best.idx, Results[j]) \in Nat
  BY <1>1, <1>2, <1>4, SampleDistance DEF Summary
<1>6. ASSUME NEW r \in Points \ {best.idx}
      PROVE  \E i \in 1..cnt : Better(best.dist, best.idx, Dist(cloud, r, Results[i]), r)
  <2> DEFINE b == BucketOf(cloud, r)
             e == Entries[b]
  <2>1. b \in CloudBuckets /\ r \in Members(cloud, b) /\ r \in Nat
    BY <1>1, CloudAssumption, ConstantTypes DEF CloudBuckets, Members
  <2>2. /\ Summary(b, cnt) /\ e.fdist \in Nat /\ e.fidx \in Nat
        /\ \/ best.dist = e.fdist /\ best.idx = e.fidx
           \/ Better(best.dist, best.idx, e.fdist, e.fidx)
    BY <1>2, <1>3, <2>1
  <2>3. \A i \in 1..cnt : Dist(cloud, r, Results[i]) \in Nat
    BY <1>1, SampleDistance
  <2> HIDE DEF b
  <2>4. CASE r = e.fidx
    <3>1. PICK i \in 1..cnt : e.fdist = Dist(cloud, r, Results[i])
      BY <2>2, <2>4 DEF Summary
    <3>2. Better(best.dist, best.idx, e.fdist, e.fidx)
      BY <2>2, <2>4
    <3> QED BY <2>4, <3>1, <3>2
  <2>5. CASE r # e.fidx
    <3>1. PICK i \in 1..cnt : Better(e.fdist, e.fidx, Dist(cloud, r, Results[i]), r)
      BY <2>1, <2>2, <2>5 DEF Summary
    <3>2. Better(best.dist, best.idx, Dist(cloud, r, Results[i]), r)
      BY <1>1, <2>1, <2>2, <2>3, <3>1 DEF Better
    <3> QED BY <3>2
  <2> QED BY <2>4, <2>5
<1>7. ASSUME NEW r \in Points \ {best.idx}
      PROVE  \E i \in 1..cnt : \A j \in 1..cnt :
               \/ Dist(cloud, r, Results[i]) < Dist(cloud, best.idx, Results[j])
               \/ /\ Dist(cloud, r, Results[i]) = Dist(cloud, best.idx, Results[j])
                  /\ best.idx < r
  <2>1. PICK i \in 1..cnt : Better(best.dist, best.idx, Dist(cloud, r, Results[i]), r)
    BY <1>6
  <2>2. Dist(cloud, r, Results[i]) \in Nat
    BY <1>1, SampleDistance
  <2> QED BY <1>1, <1>5, <2>1, <2>2 DEF Better
<1> QED BY <1>1, <1>7

(* The walk and the two engines only move towards the next sample. *)
LEMMA WorkStutters ==
  ASSUME SamplingInv,
         \/ InitP0 \/ IterInit \/ Fetch \/ NextBucket \/ TravelDone \/ Wait
         \/ Issue \/ Defer \/ Skip \/ Collect
         \/ PointEngine \/ HostRelease \/ UNCHANGED vars
  PROVE  UNCHANGED <<cloud, sampleN, Delivered, done>>
<1> USE DEF SamplingInv
<1>1. CASE InitP0 \/ IterInit \/ Fetch \/ NextBucket \/ TravelDone \/ Wait
  <2>1. UNCHANGED <<cloud, sampleN, done>> /\ Results' = Results
        /\ state # "IDLE" /\ state' # "IDLE"
    BY <1>1, MovesView DEF CoreInv, Moves, InitP0, IterInit, Fetch, NextBucket,
                           TravelDone, Wait, control
  <2> QED BY <2>1 DEF Delivered
<1>2. CASE Issue \/ Defer \/ Skip
  BY <1>2, DecisionView DEF Delivered
<1>3. CASE Collect
  <2>1. UNCHANGED done
    BY <1>3 DEF Collect
  <2> QED BY <1>3, <2>1, CollectView DEF Delivered
<1>4. CASE PointEngine
  BY <1>4, PointView DEF Delivered
<1>5. CASE HostRelease \/ UNCHANGED vars
  <2>1. UNCHANGED <<cloud, sampleN, state, done, res, resPort>>
    BY <1>5 DEF HostRelease, vars, host, control, ports, memory
  <2> QED BY <2>1 DEF Delivered, Results
<1> QED BY <1>1, <1>2, <1>3, <1>4, <1>5

(* Each other step is the step of the definition it stands for. *)
LEMMA LoadLoads == ASSUME SamplingInv, HostStart PROVE FPS!Load
<1>1. state = "IDLE" /\ ~done
  BY DEF HostStart, SamplingInv, CoreInv, TypeInv, WalkInCloud
<1>2. UNCHANGED <<state, done>>
  BY DEF HostStart, control
<1>3. Delivered = <<>> /\ Delivered' = <<>>
  BY <1>1, <1>2 DEF Delivered
<1>4. cloud' \in Clouds /\ sampleN' \in Nat
  BY CloudAssumption, ConstantTypes
     DEF HostStart, SamplingInv, CoreInv, TypeInv, TypeOK, HostType
<1> QED BY <1>2, <1>3, <1>4 DEF FPS!Load

LEMMA StartBegins == ASSUME SamplingInv, Start PROVE FPS!Begin
<1>1. Delivered = <<>>
  BY StartView DEF SamplingInv, Delivered
<1>2. Delivered' = <<p0>> /\ UNCHANGED <<cloud, sampleN>>
  BY StartView DEF SamplingInv, Delivered
<1>3. done' = done
  <2>1. ~done /\ ~done' /\ done \in BOOLEAN
    BY StartView DEF SamplingInv, CoreInv, TypeInv, TypeOK, ControlType
  <2>2. done' \in BOOLEAN
    BY DEF Start
  <2> QED BY <2>1, <2>2
<1>4. p0 \in Points
  BY DEF SamplingInv, CoreInv, TypeInv, TypeOK, HostType
<1> QED BY <1>1, <1>2, <1>3, <1>4 DEF FPS!Begin

LEMMA IterEndPicks == ASSUME SamplingInv, IterEnd PROVE FPS!Pick
<1> USE DEF SamplingInv
<1>1. /\ state = "ITEREND" /\ state' # "IDLE" /\ Len(Results) = cnt /\ cnt \in Nat
      /\ cnt >= 1 /\ Results' = Append(Results, best.idx)
      /\ UNCHANGED <<cloud, sampleN, done>>
  BY IterEndView
<1>2. Delivered = Results /\ Delivered' = Append(Delivered, best.idx)
  BY <1>1 DEF Delivered
<1>3. Results \in Seq(Places) /\ DOMAIN Results = 1..cnt /\ Results # <<>>
  <2>1. Results \in Seq(Places)
    BY ViewTypes DEF CoreInv, TypeInv, TypeOK
  <2> QED BY <1>1, <2>1
<1>4. ~FPS!Complete
  <2>1. cnt < sampleN /\ sampleN \in Nat
    BY <1>1, WalkTypes DEF CoreInv, ControlInv, InJob
  <2> QED BY <1>1, <1>2, <2>1 DEF FPS!Complete
<1>5. FPS!SampleSet = {Results[i] : i \in 1..cnt}
  BY <1>2, <1>3 DEF FPS!SampleSet
<1>6. best.idx \in Points /\ FPS!Farthest(cloud, FPS!SampleSet, best.idx)
  BY <1>1, <1>5, BestIsFarthest DEF FPS!Farthest, FPS!Beats
<1> QED BY <1>1, <1>2, <1>3, <1>4, <1>6 DEF FPS!Pick

LEMMA DoneReports == ASSUME SamplingInv, Done PROVE FPS!Report
<1> USE DEF SamplingInv
<1>1. /\ state = "DONE" /\ state' \in {"DONE", "IDLE"} /\ done' = TRUE
      /\ Results' = Results /\ UNCHANGED <<cloud, sampleN>>
  BY MovesView DEF Done, Moves, CoreInv
<1>2. Delivered = Results /\ Delivered' = Results
  BY <1>1 DEF Delivered
<1>3. FPS!Complete
  <2>1. Len(Results) >= 1 /\ Len(Results) >= sampleN /\ Results # <<>>
    BY <1>1 DEF CoreInv, ResultInv
  <2> QED BY <1>2, <2>1 DEF FPS!Complete
<1> QED BY <1>1, <1>2, <1>3 DEF FPS!Report

LEMMA IdleRetires == ASSUME SamplingInv, Idle PROVE FPS!Retire
<1>1. state = "IDLE" /\ state' = "IDLE" /\ done /\ done' = FALSE
      /\ UNCHANGED <<cloud, sampleN>>
  BY DEF Idle, host
<1>2. Delivered' = <<>>
  BY <1>1 DEF Delivered
<1> QED BY <1>1, <1>2 DEF FPS!Retire

LEMMA ResetAborts == ASSUME Reset PROVE FPS!Abort
<1>1. state' = "IDLE" /\ done' = FALSE /\ UNCHANGED <<cloud, sampleN>>
  BY DEF Reset
<1> QED BY <1>1 DEF FPS!Abort, Delivered

(* The functional core implements farthest-point sampling: pruned,         *)
(* deferred and recomputed in any order, for every cloud whose box bound   *)
(* is sound, it delivers the samples of the definition, and it reports the *)
(* job done only over all of them.                                         *)
THEOREM SamplesExactly == Spec => ExactSampling
<1>1. Init => FPS!Init
  <2> SUFFICES ASSUME Init PROVE FPS!Init
    OBVIOUS
  <2> QED BY DEF Init, FPS!Init, Delivered
<1>2. SamplingInv /\ [Next]_vars => [FPS!Next]_FPS!vars
  <2> SUFFICES ASSUME SamplingInv, [Next]_vars
               PROVE  FPS!Next \/ UNCHANGED FPS!vars
    OBVIOUS
  <2>1. CASE \/ InitP0 \/ IterInit \/ Fetch \/ NextBucket \/ TravelDone \/ Wait
             \/ Issue \/ Defer \/ Skip \/ Collect
             \/ PointEngine \/ HostRelease \/ UNCHANGED vars
    BY <2>1, WorkStutters DEF FPS!vars
  <2>2. CASE HostStart
    BY <2>2, LoadLoads DEF FPS!Next
  <2>3. CASE Start
    BY <2>3, StartBegins DEF FPS!Next
  <2>4. CASE IterEnd
    BY <2>4, IterEndPicks DEF FPS!Next
  <2>5. CASE Done
    BY <2>5, DoneReports DEF FPS!Next
  <2>6. CASE Idle
    BY <2>6, IdleRetires DEF FPS!Next
  <2>7. CASE Reset
    BY <2>7, ResetAborts DEF FPS!Next
  <2> QED BY <2>1, <2>2, <2>3, <2>4, <2>5, <2>6, <2>7 DEF Next, BucketEngine
<1> QED BY <1>1, <1>2, SamplingInvariant, PTL DEF Spec, ExactSampling, FPS!Spec
=============================================================================
