------------------------- MODULE ClosedLoop_proofs --------------------------
(***************************************************************************)
(* The closed-loop model: every issued bucket is counted and comes back    *)
(* once, what a decision was made from still holds when it is carried out, *)
(* and the samples are those of the definition, for every cloud, every     *)
(* metric with a sound box bound, all queue depths and latencies, and      *)
(* whatever order the memory answers in.                                   *)
(***************************************************************************)
EXTENDS ClosedLoop, WellFoundedInduction, FiniteSetTheorems, SequenceTheorems, FunctionTheorems, TLAPS

-----------------------------------------------------------------------------
(* What the queues hold. *)

Decision   == [bid : BucketIds, kind : {"issue", "defer", "skip"}, sample : Points,
               mcnt : Nat, refs : Seq(Points)]
Dists      == -1..Inf
Far        == [bid : BucketIds, idx : Points, dist : Dists]
Entry      == [far : Points, dist : Dists, merges : Seq(Points)]
TimedOf(X) == [item : X, wait : Nat]

ChunkIdsOf(b) == DOMAIN MakeChunks(b)

TaskOf(b) == [decision : Decision, phase : [ChunkIdsOf(b) -> Phases],
              best : [dist : Dists, idx : Points]]

NoWork ==
  /\ fetching = <<>> /\ fetched = <<>> /\ cd = <<>> /\ decided = <<>> /\ writebacks = <<>>
  /\ bucketFifo = <<>> /\ farFifo = <<>> /\ task = <<>>

QueueTypes ==
  /\ fetching \in Seq(TimedOf(BucketIds)) /\ fetched \in Seq(BucketIds)
  /\ cd \in Seq(TimedOf(Decision)) /\ decided \in Seq(Decision)
  /\ writebacks \in Seq(TimedOf(Far))
  /\ bucketFifo \in Seq(Decision) /\ farFifo \in Seq(Far)
  /\ task = <<>> \/ \E b \in BucketIds : \E t \in TaskOf(b) : t.decision.bid = b /\ task = <<t>>
  /\ table \in [BucketIds -> Entry]
  /\ mdt \in [Points -> 0..Inf]

(* Where the walk of an iteration that sampled cur visits a bucket. *)
Winner(cur)      == BucketOf(cloud, cur)
Position(cur, b) == IF b = Winner(cur) THEN 0 ELSE IF b < Winner(cur) THEN b + 1 ELSE b
VisitOf(cur, k)  ==
  IF k = 0 THEN Winner(cur) ELSE IF k - 1 < Winner(cur) THEN k - 1 ELSE k

(* The positions of the walk whose decision has left, the walk being at w. *)
Carried(w) == w - Len(fetching) - Len(fetched) - Len(cd) - Len(decided)

(* The queues up to the decision hold the positions since in order. *)
WalkInv(cur, w) ==
  /\ w \in 0..BucketCount /\ Carried(w) \in Nat
  /\ \A i \in DOMAIN decided : decided[i].bid = VisitOf(cur, Carried(w) + i - 1)
  /\ \A i \in DOMAIN cd :
       cd[i].item.bid = VisitOf(cur, Carried(w) + Len(decided) + i - 1)
  /\ \A i \in DOMAIN fetched :
       fetched[i] = VisitOf(cur, Carried(w) + Len(decided) + Len(cd) + i - 1)
  /\ \A i \in DOMAIN fetching :
       fetching[i].item
         = VisitOf(cur, Carried(w) + Len(decided) + Len(cd) + Len(fetched) + i - 1)

(* The buckets in service were visited before, in their order. *)
ServiceInv(cur, w) ==
  /\ \A i \in DOMAIN InService : Position(cur, InService[i]) < Carried(w)
  /\ \A i, j \in DOMAIN InService :
       i < j => Position(cur, InService[i]) < Position(cur, InService[j])

(* A decision against the entry of its bucket. *)
Stands(n, cur, d) ==
  LET e == table[d.bid]
  IN  /\ d.sample = cur /\ d.mcnt = Len(e.merges)
      /\ d.kind = "issue" => d.refs = Append(e.merges, cur)
      /\ d.kind # "issue" => n > 1 /\ e.dist < Dist(cloud, e.far, cur)
      /\ d.kind = "defer" => Len(e.merges) < MERGE_CAP
      /\ d.kind = "skip" => e.dist < Gap(cloud, cur, d.bid)

DepthInv ==
  /\ Len(bucketFifo) <= BUCKET_DEPTH /\ Len(farFifo) <= FAR_DEPTH
  /\ Len(cd) + Len(decided) <= DECISION_DEPTH
  /\ Len(fetching) + Len(fetched) <= DECISION_DEPTH

-----------------------------------------------------------------------------
(* What is known of the distances, the samples being s[1], ..., s[n].      *)

(* The distance kept for p is that to a sample, or none. *)
Sound(n, s, p) == mdt[p] = Inf \/ \E i \in 1..n : mdt[p] = Dist(cloud, p, s[i])

(* It knows the first m of them. *)
Knows(m, s, p) == \A i \in 1..m : mdt[p] <= Dist(cloud, p, s[i])

(* It will, once the references are applied. *)
WillKnow(m, s, p, refs) ==
  \A i \in 1..m : \/ mdt[p] <= Dist(cloud, p, s[i])
                  \/ \E k \in DOMAIN refs : Dist(cloud, p, refs[k]) <= Dist(cloud, p, s[i])

(* (d, x) is the far point of bucket b by the first m samples. *)
Summary(m, s, b, x, d) ==
  /\ x \in Members(b)
  /\ \A i \in 1..m : d <= Dist(cloud, x, s[i])
  /\ \E i \in 1..m : d = Dist(cloud, x, s[i])
  /\ \A p \in Members(b) \ {x} : \E i \in 1..m : Better(d, x, Dist(cloud, p, s[i]), p)

AreSamples(n, s, refs) == \A k \in DOMAIN refs : \E i \in 1..n : refs[k] = s[i]

(* The samples a bucket's entry accounts for. *)
Settled(cur, w, b) == Position(cur, b) < Carried(w) /\ b \notin Elements(InService)
Account(n, cur, w, b) == IF Settled(cur, w, b) THEN n ELSE n - 1

EntryInv(n, cur, w, s, b) ==
  LET e == table[b]
      m == Account(n, cur, w, b)
  IN  /\ AreSamples(n, s, e.merges)
      /\ b \notin Elements(InService) =>
           /\ \A p \in Members(b) : WillKnow(m, s, p, e.merges)
           /\ m >= 1 => Summary(m, s, b, e.far, e.dist)

(* An issued bucket will know every sample, also when its chunks have been *)
(* computed in part. *)
Finished(t) == {k \in DOMAIN t.phase : t.phase[k] \in {"writing", "done"}}
Reached(t)  == UNION {Chunk(t.decision.bid, k) : k \in Finished(t)}

IssuedInv(n, s, d) ==
  /\ AreSamples(n, s, d.refs)
  /\ \A p \in Members(d.bid) : WillKnow(n, s, p, d.refs)

BestInv(t) ==
  \/ Reached(t) = {} /\ t.best = [dist |-> -1, idx |-> PointPtr(t.decision.bid)]
  \/ /\ t.best.idx \in Reached(t) /\ t.best.dist = mdt[t.best.idx]
     /\ \A p \in Reached(t) \ {t.best.idx} : Better(t.best.dist, t.best.idx, mdt[p], p)

TaskInv(n, s, t) ==
  /\ IssuedInv(n, s, t.decision)
  /\ \A p \in Reached(t) : Knows(n, s, p)
  /\ BestInv(t)

FarInv(n, s, r) ==
  /\ r.idx \in Members(r.bid) /\ r.dist = mdt[r.idx]
  /\ \A p \in Members(r.bid) : Knows(n, s, p)
  /\ \A p \in Members(r.bid) \ {r.idx} : Better(r.dist, r.idx, mdt[p], p)

DataInv(n, cur, w, s) ==
  /\ \A p \in Points : Sound(n, s, p)
  /\ \A b \in BucketIds : EntryInv(n, cur, w, s, b)
  /\ \A d \in Elements(bucketFifo) : IssuedInv(n, s, d)
  /\ task # <<>> => TaskInv(n, s, task[1])
  /\ \A r \in Items(writebacks) \cup Elements(farFifo) : FarInv(n, s, r)

-----------------------------------------------------------------------------
(* The loop of a run that has taken the samples s[1], ..., s[n] = cur and  *)
(* whose walk is at w.                                                     *)

LoopInv(n, cur, w, s) ==
  /\ n \in Nat \ {0} /\ cur \in Points /\ s \in Seq(Points) /\ Len(s) = n /\ s[n] = cur
  /\ QueueTypes /\ DepthInv
  /\ WalkInv(cur, w) /\ ServiceInv(cur, w)
  /\ outstanding = Len(InService)
  /\ \A d \in Waiting : Stands(n, cur, d)
  /\ DataInv(n, cur, w, s)

RunInv ==
  /\ status \in Statuses /\ cloud \in Clouds /\ goal \in SampleCounts
  /\ cooldown \in Nat /\ mdt \in [Points -> 0..Inf]
  /\ status \in {"none", "built"} => samples = <<>>
  /\ status = "built" => mdt = [p \in Points |-> Inf]
  /\ status = "running" =>
       \E n \in {sampledCount} : \E cur \in {current} : \E w \in {pos} : \E s \in {samples} :
         LoopInv(n, cur, w, s) /\ n < goal /\ ~done
  /\ status # "running" => NoWork /\ outstanding = 0
  /\ status \in {"ended", "returned"} => samples \in Seq(Points) /\ Len(samples) = goal

-----------------------------------------------------------------------------
(* Constants, and the walk. *)

LEMMA NatLess == IsWellFoundedOn({ss \in Nat \X Nat : ss[1] < ss[2]}, Nat)
BY NatLessThanWellFounded, Zenon DEF OpToRel

(* The least element is found by well-foundedness of <. *)
LEMMA NatMin ==
  ASSUME NEW S, S \subseteq Nat, S # {}
  PROVE  \E x \in S : \A y \in S : x <= y
<1> DEFINE R == {ss \in Nat \X Nat : ss[1] < ss[2]}
<1>1. PICK x \in S : \A y \in S : ~(<<y, x>> \in R)
  <2> HIDE DEF R
  <2>1. IsWellFoundedOn(R, Nat) BY NatLess DEF R
  <2> QED BY <2>1, WFMin, Zenon
<1>2. \A y \in S : ~(y < x)
  BY <1>1
<1> QED BY <1>1, <1>2

LEMMA CloudFacts ==
  ASSUME cloud \in Clouds
  PROVE  /\ Points \subseteq Nat /\ Points # {} /\ IsFiniteSet(Points)
         /\ LastBucket(cloud) \in Nat /\ BucketCount = LastBucket(cloud) + 1
         /\ \A p \in Points : BucketOf(cloud, p) \in BucketIds
         /\ \A b \in BucketIds : Members(b) # {} /\ Members(b) \subseteq Points
         /\ Inf \in Nat
         /\ \A p, q \in Points : /\ Dist(cloud, p, q) \in Nat /\ Dist(cloud, p, q) < Inf
                                 /\ Dist(cloud, p, q) = Dist(cloud, q, p)
                                 /\ Gap(cloud, q, BucketOf(cloud, p)) \in Nat
                                 /\ Gap(cloud, q, BucketOf(cloud, p)) <= Dist(cloud, p, q)
<1>1. Cardinality(Points) \in Nat
  BY PointsAssumption, FS_CardinalityType
<1>2. Points \subseteq Nat /\ Points # {}
  BY <1>1, PointsAssumption
<1> QED BY <1>2, PointsAssumption, RangesAssumption, DistAssumption
       DEF BucketIds, Members, BucketCount

LEMMA Sizes ==
  /\ DECISION_DEPTH \in Nat \ {0} /\ MERGE_CAP \in Nat \ {0} /\ CD_LATENCY \in Nat
  /\ ISSUE_II \in Nat \ {0} /\ READ_LATENCY \in Nat /\ WRITE_LATENCY \in Nat
  /\ CHUNK_POINTS \in Nat \ {0} /\ BUCKET_DEPTH \in Nat \ {0} /\ FAR_DEPTH \in Nat \ {0}
BY ConfigAssumption, EngineAssumption

(* The walk visits each bucket once. *)
LEMMA Walk ==
  ASSUME cloud \in Clouds, NEW cur \in Points
  PROVE  /\ \A k \in 0..LastBucket(cloud) : /\ VisitOf(cur, k) \in BucketIds
                                            /\ Position(cur, VisitOf(cur, k)) = k
         /\ \A b \in BucketIds : /\ Position(cur, b) \in 0..LastBucket(cloud)
                                 /\ VisitOf(cur, Position(cur, b)) = b
<1>1. PICK l \in Nat : l = LastBucket(cloud)
  BY CloudFacts
<1>2. PICK x \in 0..l : x = Winner(cur)
  BY <1>1, CloudFacts DEF Winner, BucketIds
<1>3. ASSUME NEW k \in 0..l
      PROVE  VisitOf(cur, k) \in 0..l /\ Position(cur, VisitOf(cur, k)) = k
  <2>1. PICK v : v = VisitOf(cur, k)
    OBVIOUS
  <2>2. v = IF k = 0 THEN x ELSE IF k - 1 < x THEN k - 1 ELSE k
    BY <1>2, <2>1 DEF VisitOf
  <2>3. v \in 0..l /\ (IF v = x THEN 0 ELSE IF v < x THEN v + 1 ELSE v) = k
    BY <2>2
  <2> QED BY <1>2, <2>1, <2>3 DEF Position
<1>4. ASSUME NEW b \in 0..l
      PROVE  Position(cur, b) \in 0..l /\ VisitOf(cur, Position(cur, b)) = b
  <2>1. PICK k : k = Position(cur, b)
    OBVIOUS
  <2>2. k = IF b = x THEN 0 ELSE IF b < x THEN b + 1 ELSE b
    BY <1>2, <2>1 DEF Position
  <2>3. k \in 0..l /\ (IF k = 0 THEN x ELSE IF k - 1 < x THEN k - 1 ELSE k) = b
    BY <2>2
  <2> QED BY <1>2, <2>1, <2>3 DEF VisitOf
<1> QED BY <1>1, <1>3, <1>4 DEF BucketIds

-----------------------------------------------------------------------------
(* Queues. *)

LEMMA ShortQueue ==
  ASSUME NEW V, NEW x, NEW t \in BOOLEAN, t => x \in V
  PROVE  LET q == IF t THEN <<x>> ELSE <<>>
         IN  q \in Seq(V) /\ Len(q) = (IF t THEN 1 ELSE 0) /\ (t => q[1] = x)
<1>1. CASE t
  <2>1. <<x>> \in Seq(V) /\ Len(<<x>>) = 1 /\ <<x>>[1] = x
    BY <1>1
  <2> QED BY <1>1, <2>1
<1>2. CASE ~t
  BY <1>2, EmptySeq
<1> QED BY <1>1, <1>2

(* A queue that loses its head, or not, and takes something up. *)
Onward(q, t, more) == Rest(q, t) \o more
Flag(t) == IF t THEN 1 ELSE 0

LEMMA FlagIs ==
  ASSUME NEW t \in BOOLEAN
  PROVE  Flag(t) \in {0, 1} /\ (Flag(t) = 1 <=> t) /\ (Flag(t) = 0 <=> ~t)
BY DEF Flag

(* r is q without its first one, and then more. *)
MovesOn(V, q, one, more, r) ==
  /\ r \in Seq(V) /\ Len(r) = Len(q) - one + Len(more) /\ Len(q) >= one
  /\ \A i \in 1..Len(q) - one : r[i] = q[i + one]
  /\ \A i \in 1..Len(more) : r[Len(q) - one + i] = more[i]

LEMMA QueueMoves ==
  ASSUME NEW V, NEW q \in Seq(V), NEW t \in BOOLEAN, t => q # <<>>,
         NEW more \in Seq(V)
  PROVE  MovesOn(V, q, Flag(t), more, Onward(q, t, more))
<1>1. PICK one \in {0, 1} : one = Flag(t)
  BY FlagIs
<1>2. PICK rest : rest = Rest(q, t)
  OBVIOUS
<1>8. PICK r : r = Onward(q, t, more)
  OBVIOUS
<1>3. /\ rest \in Seq(V) /\ Len(rest) = Len(q) - one /\ Len(q) >= one
      /\ \A i \in 1..Len(rest) : rest[i] = q[i + one]
  <2>1. CASE t
    <3>1. rest = Tail(q) /\ one = 1 /\ q # <<>>
      BY <1>1, <1>2, <2>1 DEF Rest, Flag
    <3>2. Len(q) \in Nat \ {0}
      BY <3>1, EmptySeq
    <3> QED BY <3>1, <3>2, HeadTailProperties
  <2>2. CASE ~t
    BY <1>1, <1>2, <2>2, LenProperties DEF Rest, Flag
  <2> QED BY <2>1, <2>2
<1>4. /\ rest \o more \in Seq(V) /\ Len(rest \o more) = Len(rest) + Len(more)
      /\ \A i \in 1..Len(rest) + Len(more) :
           (rest \o more)[i] = IF i <= Len(rest) THEN rest[i] ELSE more[i - Len(rest)]
  BY <1>3, ConcatProperties
<1>5. r = rest \o more /\ Len(rest) \in Nat /\ Len(more) \in Nat
  BY <1>2, <1>3, <1>8, LenProperties DEF Onward
<1>6. \A i \in 1..Len(rest) : r[i] = q[i + one]
  BY <1>3, <1>4, <1>5
<1>7. ASSUME NEW i \in 1..Len(more)
      PROVE  r[Len(rest) + i] = more[i]
  <2>1. Len(rest) + i \in 1..Len(rest) + Len(more) /\ ~(Len(rest) + i <= Len(rest))
        /\ Len(rest) + i - Len(rest) = i
    BY <1>5
  <2> QED BY <1>4, <1>5, <2>1
<1> QED BY <1>1, <1>3, <1>4, <1>5, <1>6, <1>7, <1>8 DEF MovesOn

(* Waiting shorter changes what is waited for in nothing. *)
LEMMA ElapseKeeps ==
  ASSUME NEW X, NEW q \in Seq(TimedOf(X))
  PROVE  /\ Elapse(q) \in Seq(TimedOf(X)) /\ Len(Elapse(q)) = Len(q)
         /\ DOMAIN Elapse(q) = DOMAIN q
         /\ \A i \in DOMAIN q : Elapse(q)[i].item = q[i].item
<1>1. /\ Len(q) \in Nat /\ DOMAIN q = 1..Len(q)
      /\ \A i \in DOMAIN q : q[i] \in TimedOf(X)
  BY LenProperties, ElementOfSeq
<1>2. \A i \in DOMAIN q : Elapse(q)[i] \in TimedOf(X) /\ Elapse(q)[i].item = q[i].item
  BY <1>1 DEF Elapse, TimedOf
<1>3. Elapse(q) \in [1..Len(q) -> TimedOf(X)]
  BY <1>1, <1>2 DEF Elapse
<1>4. Elapse(q) \in Seq(TimedOf(X))
  BY <1>1, <1>3, SeqDef
<1> QED BY <1>1, <1>2, <1>3, <1>4, LenProperties

-----------------------------------------------------------------------------
(* The buckets in service, as one queue. *)

Map(F, q)   == [i \in DOMAIN q |-> F[q[i]]]
IfThen(t, x) == IF t THEN <<x>> ELSE <<>>

LEMMA SameInterval ==
  ASSUME NEW m \in Nat, NEW n \in Nat, 1..m = 1..n
  PROVE  m = n
<1>1. ~(m < n)
  <2>1. m < n => n \in 1..n /\ ~(n \in 1..m)
    OBVIOUS
  <2> QED BY <2>1
<1>2. ~(n < m)
  <2>1. n < m => m \in 1..m /\ ~(m \in 1..n)
    OBVIOUS
  <2> QED BY <2>1
<1> QED BY <1>1, <1>2

LEMMA MapValues ==
  ASSUME NEW V, NEW q \in Seq(V), NEW F
  PROVE  /\ Map(F, q) \in Seq({F[v] : v \in V}) /\ Len(Map(F, q)) = Len(q)
         /\ \A i \in 1..Len(q) : Map(F, q)[i] = F[q[i]]
<1> DEFINE B == {F[v] : v \in V}
<1>1. Len(q) \in Nat /\ DOMAIN q = 1..Len(q) /\ \A i \in 1..Len(q) : q[i] \in V
  BY LenProperties, ElementOfSeq
<1>2. Map(F, q) \in [1..Len(q) -> B]
  BY <1>1 DEF Map
<1> HIDE DEF B
<1>3. Map(F, q) \in Seq(B)
  BY <1>1, <1>2, SeqDef
<1>4. DOMAIN Map(F, q) = 1..Len(Map(F, q)) /\ Len(Map(F, q)) \in Nat
  BY <1>3, LenProperties
<1>5. DOMAIN Map(F, q) = 1..Len(q)
  BY <1>1 DEF Map
<1>6. Len(Map(F, q)) = Len(q)
  BY <1>1, <1>4, <1>5, SameInterval
<1> QED BY <1>1, <1>3, <1>6 DEF Map, B

LEMMA MapType ==
  ASSUME NEW V, NEW B, NEW F, \A v \in V : F[v] \in B, NEW q \in Seq(V)
  PROVE  Map(F, q) \in Seq(B)
<1>1. /\ Len(Map(F, q)) = Len(q) /\ Len(q) \in Nat
      /\ \A i \in 1..Len(q) : Map(F, q)[i] = F[q[i]] /\ q[i] \in V
  <2>1. Len(Map(F, q)) = Len(q) /\ \A i \in 1..Len(q) : Map(F, q)[i] = F[q[i]]
    BY MapValues
  <2>2. Len(q) \in Nat /\ \A i \in 1..Len(q) : q[i] \in V
    BY ElementOfSeq, LenProperties
  <2> QED BY <2>1, <2>2
<1>2. Map(F, q) \in Seq({F[v] : v \in V})
  BY MapValues
<1>3. PICK C : C = {F[v] : v \in V}
  OBVIOUS
<1>6. PICK m \in Seq(C) : m = Map(F, q)
  BY <1>2, <1>3
<1>4. m \in [1..Len(m) -> C]
  BY LenProperties, ElementOfSeq
<1>5. m \in [1..Len(q) -> B]
  BY <1>1, <1>4, <1>6
<1> QED BY <1>1, <1>5, <1>6, SeqDef

LEMMA MapConcat ==
  ASSUME NEW V, NEW F, NEW q \in Seq(V), NEW r \in Seq(V)
  PROVE  Map(F, q \o r) = Map(F, q) \o Map(F, r)
<1>1. PICK c \in Seq(V) : c = q \o r
  BY ConcatProperties
<1>2. /\ Len(c) = Len(q) + Len(r)
      /\ \A i \in 1..Len(q) + Len(r) : c[i] = IF i <= Len(q) THEN q[i] ELSE r[i - Len(q)]
  BY <1>1, ConcatProperties
<1>3. Len(q) \in Nat /\ Len(r) \in Nat
  BY LenProperties
<1>4. PICK B : B = {F[v] : v \in V}
  OBVIOUS
<1>5. \A u \in Seq(V) : /\ Map(F, u) \in Seq(B) /\ Len(Map(F, u)) = Len(u)
                        /\ \A i \in 1..Len(u) : Map(F, u)[i] = F[u[i]]
  BY <1>4, MapValues
<1>6. PICK a \in Seq(B) : a = Map(F, q)
  BY <1>5
<1>7. PICK b \in Seq(B) : b = Map(F, r)
  BY <1>5
<1>8. PICK m \in Seq(B) : m = Map(F, c)
  BY <1>5
<1>9. /\ Len(a) = Len(q) /\ \A i \in 1..Len(q) : a[i] = F[q[i]]
      /\ Len(b) = Len(r) /\ \A i \in 1..Len(r) : b[i] = F[r[i]]
      /\ Len(m) = Len(c) /\ \A i \in 1..Len(c) : m[i] = F[c[i]]
  BY <1>5, <1>6, <1>7, <1>8
<1>10. /\ a \o b \in Seq(B) /\ Len(a \o b) = Len(a) + Len(b)
       /\ \A i \in 1..Len(a) + Len(b) :
            (a \o b)[i] = IF i <= Len(a) THEN a[i] ELSE b[i - Len(a)]
  BY ConcatProperties
<1>11. ASSUME NEW i \in 1..Len(m)
       PROVE  m[i] = (a \o b)[i]
  <2>1. i \in 1..Len(q) + Len(r) /\ m[i] = F[c[i]]
    BY <1>2, <1>9
  <2>2. CASE i <= Len(q)
    BY <1>2, <1>3, <1>9, <1>10, <2>1, <2>2
  <2>3. CASE ~(i <= Len(q))
    <3>1. i - Len(q) \in 1..Len(r)
      BY <1>3, <2>1, <2>3
    <3>2. m[i] = F[r[i - Len(q)]]
      BY <1>2, <2>1, <2>3
    <3>3. (a \o b)[i] = b[i - Len(q)]
      BY <1>9, <1>10, <2>1, <2>3
    <3> QED BY <1>9, <3>1, <3>2, <3>3
  <2> QED BY <2>2, <2>3
<1>12. m = a \o b
  <2>1. Len(m) = Len(a \o b)
    BY <1>2, <1>9, <1>10
  <2> QED BY <1>10, <1>11, <2>1, SeqEqual
<1> QED BY <1>1, <1>6, <1>7, <1>8, <1>12

(* A queue is its head, if that is taken, and the rest. *)
LEMMA HeadAndRest ==
  ASSUME NEW V, NEW q \in Seq(V), NEW t \in BOOLEAN, t => q # <<>>
  PROVE  /\ IfThen(t, q[1]) \in Seq(V) /\ Rest(q, t) \in Seq(V)
         /\ q = IfThen(t, q[1]) \o Rest(q, t)
<1>1. CASE t
  <2>1. Len(q) \in Nat \ {0} /\ q[1] \in V
    <3>1. Len(q) \in Nat \ {0}
      BY <1>1, EmptySeq
    <3> QED BY <3>1, ElementOfSeq
  <2>2. PICK one : one = <<q[1]>>
    OBVIOUS
  <2>3. one \in Seq(V)
    BY <2>1, <2>2
  <2>4. Len(one) = 1 /\ one[1] = q[1]
    BY <2>2
  <2>5. PICK rest \in Seq(V) : rest = Tail(q)
    BY <1>1, HeadTailProperties
  <2>6. Len(rest) = Len(q) - 1 /\ \A i \in 1..Len(rest) : rest[i] = q[i + 1]
    BY <1>1, <2>5, HeadTailProperties
  <2>7. PICK c \in Seq(V) : c = one \o rest
    BY <2>3, ConcatProperties
  <2>8. /\ Len(c) = Len(one) + Len(rest)
        /\ \A i \in 1..Len(one) + Len(rest) :
             c[i] = IF i <= Len(one) THEN one[i] ELSE rest[i - Len(one)]
    BY <2>3, <2>7, ConcatProperties
  <2>9. ASSUME NEW i \in 1..Len(q) PROVE q[i] = c[i]
    <3>1. CASE i = 1
      BY <2>1, <2>4, <2>6, <2>8, <3>1
    <3>2. CASE i # 1
      <4>1. i - 1 \in 1..Len(rest) /\ i \in 1..Len(one) + Len(rest) /\ ~(i <= 1) /\ i - 1 + 1 = i
        BY <2>1, <2>4, <2>6, <3>2
      <4> QED BY <2>4, <2>6, <2>8, <4>1
    <3> QED BY <3>1, <3>2
  <2>10. Len(q) = Len(c)
    BY <2>1, <2>4, <2>6, <2>8
  <2>11. q = c
    BY <2>9, <2>10, SeqEqual
  <2> QED BY <1>1, <2>2, <2>3, <2>5, <2>7, <2>11 DEF IfThen, Rest
<1>2. CASE ~t
  BY <1>2, EmptySeq, ConcatEmptySeq DEF IfThen, Rest
<1> QED BY <1>1, <1>2

(* Concatenation, as an operator the provers leave alone. *)
Join(a, b) == a \o b

LEMMA JoinType ==
  ASSUME NEW X, NEW a \in Seq(X), NEW b \in Seq(X)
  PROVE  /\ Join(a, b) \in Seq(X) /\ Len(Join(a, b)) = Len(a) + Len(b)
         /\ \A i \in 1..Len(a) + Len(b) :
              Join(a, b)[i] = IF i <= Len(a) THEN a[i] ELSE b[i - Len(a)]
BY ConcatProperties DEF Join

LEMMA JoinAssociative ==
  ASSUME NEW X, NEW a \in Seq(X), NEW b \in Seq(X), NEW c \in Seq(X)
  PROVE  Join(Join(a, b), c) = Join(a, Join(b, c))
BY ConcatAssociative DEF Join

Regrouped(X, w0, w1, f0, f1, t1, t2, b0, b1, fin, iss) ==
  \E r \in Seq(X) :
    /\ Join(Join(Join(Join(w0, w1), Join(f0, f1)), t1), Join(b0, b1)) = Join(w0, r)
    /\ Join(Join(Join(Join(w1, f0), Join(f1, fin)), t2), Join(b1, iss)) = Join(r, iss)

LEMMA Regroup ==
  ASSUME NEW X, NEW w0 \in Seq(X), NEW w1 \in Seq(X), NEW f0 \in Seq(X), NEW f1 \in Seq(X),
         NEW t1 \in Seq(X), NEW t2 \in Seq(X), NEW b0 \in Seq(X), NEW b1 \in Seq(X),
         NEW fin \in Seq(X), NEW iss \in Seq(X), Join(t1, b0) = Join(fin, t2)
  PROVE  Regrouped(X, w0, w1, f0, f1, t1, t2, b0, b1, fin, iss)
<1>1. \A a, b \in Seq(X) : Join(a, b) \in Seq(X)
  BY JoinType
<1>2. \A a, b, c \in Seq(X) : Join(Join(a, b), c) = Join(a, Join(b, c))
  BY JoinAssociative
<1>3. PICK f \in Seq(X) : f = Join(f0, f1)
  BY <1>1
<1>4. PICK b \in Seq(X) : b = Join(b0, b1)
  BY <1>1
<1>5. PICK g \in Seq(X) : g = Join(w1, f)
  BY <1>1
<1>6. PICK h \in Seq(X) : h = Join(g, t1)
  BY <1>1
<1>7. PICK r \in Seq(X) : r = Join(h, b)
  BY <1>1
<1>8. Join(Join(Join(Join(w0, w1), f), t1), b) = Join(w0, r)
  <2>1. Join(Join(w0, w1), f) = Join(w0, g)
    BY <1>2, <1>5
  <2>2. Join(Join(w0, g), t1) = Join(w0, h)
    BY <1>2, <1>6
  <2>3. Join(Join(w0, h), b) = Join(w0, r)
    BY <1>2, <1>7
  <2> QED BY <2>1, <2>2, <2>3
<1>9. Join(Join(Join(Join(w1, f0), Join(f1, fin)), t2), Join(b1, iss)) = Join(r, iss)
  <2>1. Join(Join(w1, f0), Join(f1, fin)) = Join(g, fin)
    <3>1. PICK a \in Seq(X) : a = Join(w1, f0)
      BY <1>1
    <3>2. Join(a, Join(f1, fin)) = Join(Join(a, f1), fin)
      BY <1>2
    <3>3. Join(a, f1) = Join(w1, Join(f0, f1))
      BY <1>2, <3>1
    <3> QED BY <1>3, <1>5, <3>1, <3>2, <3>3
  <2>2. Join(Join(g, fin), t2) = Join(h, b0)
    <3>1. Join(Join(g, fin), t2) = Join(g, Join(fin, t2))
      BY <1>2
    <3>2. Join(g, Join(t1, b0)) = Join(Join(g, t1), b0)
      BY <1>2
    <3> QED BY <1>6, <3>1, <3>2
  <2>3. Join(Join(h, b0), Join(b1, iss)) = Join(r, iss)
    <3>1. PICK a \in Seq(X) : a = Join(h, b0)
      BY <1>1
    <3>2. Join(a, Join(b1, iss)) = Join(Join(a, b1), iss)
      BY <1>2
    <3>3. Join(a, b1) = Join(h, b)
      BY <1>2, <1>4, <3>1
    <3> QED BY <1>7, <3>1, <3>2, <3>3
  <2> QED BY <2>1, <2>2, <2>3
<1> QED BY <1>3, <1>4, <1>8, <1>9 DEF Regrouped

-----------------------------------------------------------------------------
(* The queues of the walk in one cycle.                                    *)

TimedOn(X, q, one, more, r) ==
  /\ r \in Seq(TimedOf(X)) /\ Len(r) = Len(q) - one + Len(more) /\ Len(q) >= one
  /\ \A i \in 1..Len(q) - one : r[i].item = q[i + one].item
  /\ \A i \in 1..Len(more) : r[Len(q) - one + i].item = more[i].item

LEMMA TimedMoves ==
  ASSUME NEW X, NEW q \in Seq(TimedOf(X)), NEW t \in BOOLEAN, t => q # <<>>,
         NEW more \in Seq(TimedOf(X))
  PROVE  TimedOn(X, q, Flag(t), more, Elapse(Onward(q, t, more)))
<1>1. PICK one \in {0, 1} : one = Flag(t)
  BY FlagIs
<1>2. PICK V : V = TimedOf(X)
  OBVIOUS
<1>3. PICK u : u = Onward(q, t, more)
  OBVIOUS
<1>4. MovesOn(V, q, one, more, u)
  BY <1>1, <1>2, <1>3, QueueMoves
<1>5. PICK r : r = Elapse(u)
  OBVIOUS
<1>6. /\ r \in Seq(V) /\ Len(r) = Len(u) /\ DOMAIN u = 1..Len(u)
      /\ \A i \in DOMAIN u : r[i].item = u[i].item
  <2>1. u \in Seq(TimedOf(X))
    BY <1>2, <1>4 DEF MovesOn
  <2> QED BY <1>2, <1>5, <2>1, ElapseKeeps, LenProperties
<1>7. Len(q) \in Nat /\ Len(more) \in Nat
  BY LenProperties
<1>8. ASSUME NEW i \in 1..Len(q) - one
      PROVE  r[i].item = q[i + one].item
  <2>1. i \in DOMAIN u
    BY <1>4, <1>6, <1>7 DEF MovesOn
  <2> QED BY <1>4, <1>6, <2>1 DEF MovesOn
<1>9. ASSUME NEW i \in 1..Len(more)
      PROVE  r[Len(q) - one + i].item = more[i].item
  <2>1. Len(q) - one + i \in DOMAIN u
    BY <1>4, <1>6, <1>7 DEF MovesOn
  <2> QED BY <1>4, <1>6, <2>1 DEF MovesOn
<1>10. TimedOn(X, q, one, more, r)
  BY <1>2, <1>4, <1>6, <1>8, <1>9 DEF MovesOn, TimedOn
<1> QED BY <1>1, <1>3, <1>5, <1>10

(* One passes on, or not, and one comes, or not.                           *)
PassOn(V, q, one, more, x, r) ==
  /\ r \in Seq(V) /\ Len(r) = Len(q) - one + more /\ Len(q) >= one
  /\ \A i \in 1..Len(q) - one : r[i] = q[i + one]
  /\ more = 1 => r[Len(q) - one + 1] = x /\ x \in V

LEMMA Passes ==
  ASSUME NEW V, NEW q \in Seq(V), NEW t \in BOOLEAN, t => q # <<>>,
         NEW u \in BOOLEAN, NEW x, u => x \in V
  PROVE  PassOn(V, q, Flag(t), Flag(u), x, Onward(q, t, IfThen(u, x)))
<1>1. PICK more : more = IfThen(u, x)
  OBVIOUS
<1>2. more \in Seq(V) /\ Len(more) = Flag(u) /\ (u => more[1] = x)
  BY <1>1, ShortQueue DEF IfThen, Flag
<1>3. PICK r : r = Onward(q, t, more)
  OBVIOUS
<1>4. MovesOn(V, q, Flag(t), more, r)
  BY <1>2, <1>3, QueueMoves
<1>5. PICK a \in {0, 1} : a = Flag(t)
  BY FlagIs
<1>6. PICK b \in {0, 1} : b = Flag(u) /\ (b = 1 => u)
  BY FlagIs
<1>7. PassOn(V, q, a, b, x, r)
  BY <1>2, <1>4, <1>5, <1>6 DEF MovesOn, PassOn
<1> QED BY <1>1, <1>3, <1>5, <1>6, <1>7

TimedPassOn(X, q, one, more, x, r) ==
  /\ r \in Seq(TimedOf(X)) /\ Len(r) = Len(q) - one + more /\ Len(q) >= one
  /\ \A i \in 1..Len(q) - one : r[i].item = q[i + one].item
  /\ more = 1 => r[Len(q) - one + 1].item = x /\ x \in X

LEMMA TimedPasses ==
  ASSUME NEW X, NEW q \in Seq(TimedOf(X)), NEW t \in BOOLEAN, t => q # <<>>,
         NEW u \in BOOLEAN, NEW x, u => x \in X, NEW l \in Nat
  PROVE  TimedPassOn(X, q, Flag(t), Flag(u), x,
                     Elapse(Onward(q, t, IfThen(u, [item |-> x, wait |-> l]))))
<1>0. PICK y : y = [item |-> x, wait |-> l]
  OBVIOUS
<1>1. PICK more : more = IfThen(u, y)
  OBVIOUS
<1>2. PICK V : V = TimedOf(X)
  OBVIOUS
<1>3. u => y \in V
  BY <1>0, <1>2 DEF TimedOf
<1>4. more \in Seq(V) /\ Len(more) = Flag(u) /\ (u => more[1] = y)
  BY <1>1, <1>3, ShortQueue DEF IfThen, Flag
<1>5. more \in Seq(TimedOf(X))
  BY <1>2, <1>4
<1>6. PICK r : r = Elapse(Onward(q, t, more))
  OBVIOUS
<1>7. TimedOn(X, q, Flag(t), more, r)
  BY <1>5, <1>6, TimedMoves
<1>8. PICK a \in {0, 1} : a = Flag(t)
  BY FlagIs
<1>9. PICK b \in {0, 1} : b = Flag(u) /\ (b = 1 => u)
  BY FlagIs
<1>10. TimedPassOn(X, q, a, b, x, r)
  BY <1>0, <1>4, <1>7, <1>8, <1>9 DEF TimedOn, TimedPassOn
<1> QED BY <1>0, <1>1, <1>6, <1>8, <1>9, <1>10

Ready == CanEnqueueBucket

(* The head of a queue that has one. *)
LEMMA HeadOf ==
  ASSUME NEW V, NEW q \in Seq(V), q # <<>>
  PROVE  Len(q) \in Nat \ {0} /\ q[1] \in V
<1>1. Len(q) \in Nat \ {0}
  BY EmptySeq
<1> QED BY <1>1, ElementOfSeq

LEMMA DueHead ==
  ASSUME NEW X, NEW q \in Seq(TimedOf(X)), Due(q)
  PROVE  Len(q) \in Nat \ {0} /\ q[1].item \in X /\ q # <<>>
<1>1. q # <<>>
  BY DEF Due
<1>2. PICK V : V = TimedOf(X)
  OBVIOUS
<1>3. Len(q) \in Nat \ {0} /\ q[1] \in V
  BY <1>1, <1>2, HeadOf
<1> QED BY <1>1, <1>2, <1>3 DEF TimedOf

LEMMA DecidedMoves ==
  ASSUME QueueTypes, NEW moved, CycleWith(moved)
  PROVE  PassOn(Decision, decided, Flag(HeadLeaves(Ready)), Flag(Due(cd)), cd[1].item, decided')
<1>1. PICK V : V = Decision
  OBVIOUS
<1>2. PICK q \in Seq(V) : q = decided
  BY <1>1 DEF QueueTypes
<1>3. PICK c \in Seq(TimedOf(V)) : c = cd
  BY <1>1 DEF QueueTypes
<1>4. PICK t \in BOOLEAN : t <=> HeadLeaves(Ready)
  OBVIOUS
<1>5. PICK u \in BOOLEAN : u <=> Due(cd)
  OBVIOUS
<1>6. t => q # <<>>
  BY <1>2, <1>4 DEF HeadLeaves
<1>7. u => c[1].item \in V
  BY <1>3, <1>5, DueHead
<1>8. PICK x : x = c[1].item
  OBVIOUS
<1>9. PICK r : r = decided'
  OBVIOUS
<1>10. r = Onward(q, t, IfThen(u, x))
  BY <1>2, <1>3, <1>4, <1>5, <1>8, <1>9
     DEF CycleWith, Step, Pipelines, Ready, Rest, IfThen, Onward
<1>11. PassOn(V, q, Flag(t), Flag(u), x, r)
  BY <1>6, <1>7, <1>8, <1>10, Passes
<1>12. Flag(t) = Flag(HeadLeaves(Ready)) /\ Flag(u) = Flag(Due(cd))
  BY <1>4, <1>5 DEF Flag
<1> QED BY <1>1, <1>2, <1>3, <1>8, <1>9, <1>11, <1>12

LEMMA FetchedMoves ==
  ASSUME QueueTypes, NEW moved, CycleWith(moved)
  PROVE  PassOn(BucketIds, fetched, Flag(Injects), Flag(Responds), fetching[1].item, fetched')
<1>1. PICK V : V = BucketIds
  OBVIOUS
<1>2. PICK q \in Seq(V) : q = fetched
  BY <1>1 DEF QueueTypes
<1>3. PICK c \in Seq(TimedOf(V)) : c = fetching
  BY <1>1 DEF QueueTypes
<1>4. PICK t \in BOOLEAN : t <=> Injects
  OBVIOUS
<1>5. PICK u \in BOOLEAN : u <=> Responds
  OBVIOUS
<1>6. t => q # <<>>
  BY <1>2, <1>4 DEF Injects
<1>7. u => c[1].item \in V
  BY <1>3, <1>5, DueHead DEF Responds
<1>8. PICK x : x = c[1].item
  OBVIOUS
<1>9. PICK r : r = fetched'
  OBVIOUS
<1>10. r = Onward(q, t, IfThen(u, x))
  BY <1>2, <1>3, <1>4, <1>5, <1>8, <1>9
     DEF CycleWith, Step, Pipelines, Rest, IfThen, Onward
<1>11. PassOn(V, q, Flag(t), Flag(u), x, r)
  BY <1>6, <1>7, <1>8, <1>10, Passes
<1>12. Flag(t) = Flag(Injects) /\ Flag(u) = Flag(Responds)
  BY <1>4, <1>5 DEF Flag
<1> QED BY <1>1, <1>2, <1>3, <1>8, <1>9, <1>11, <1>12

LEMMA FetchingMoves ==
  ASSUME cloud \in Clouds, current \in Points, pos \in Nat,
         QueueTypes, NEW moved, CycleWith(moved)
  PROVE  /\ TimedPassOn(BucketIds, fetching, Flag(Responds), Flag(Requests),
                        VisitOf(current, pos), fetching')
         /\ Walked = pos + Flag(Requests) /\ Walked \in Nat
         /\ pos <= BucketCount => Walked <= BucketCount
<1>1. PICK V : V = BucketIds
  OBVIOUS
<1>2. PICK q \in Seq(TimedOf(V)) : q = fetching
  BY <1>1 DEF QueueTypes
<1>3. PICK t \in BOOLEAN : t <=> Responds
  OBVIOUS
<1>4. PICK u \in BOOLEAN : u <=> Requests
  OBVIOUS
<1>5. t => q # <<>>
  BY <1>2, <1>3 DEF Responds, Due
<1>6. PICK x : x = VisitOf(current, pos)
  OBVIOUS
<1>7. x = Traversal(pos)
  BY <1>6 DEF VisitOf, Winner, Traversal
<1>8. u => x \in V
  <2>1. PICK cur \in Points : cur = current
    OBVIOUS
  <2>2. PICK w \in Nat : w = pos
    OBVIOUS
  <2>3. u => w \in 0..LastBucket(cloud)
    <3>1. PICK l \in Nat : l = LastBucket(cloud) /\ BucketCount = l + 1
      BY CloudFacts
    <3>2. u => w < l + 1
      BY <1>4, <2>2, <3>1 DEF Requests
    <3> QED BY <3>1, <3>2
  <2> QED BY <1>1, <1>6, <2>1, <2>2, <2>3, Walk
<1>9. PICK r : r = fetching'
  OBVIOUS
<1>10. READ_LATENCY \in Nat
  BY Sizes
<1>11. r = Elapse(Onward(q, t, IfThen(u, [item |-> x, wait |-> READ_LATENCY])))
  BY <1>2, <1>3, <1>4, <1>7, <1>9
     DEF CycleWith, Step, Pipelines, Rest, IfThen, Onward, Timed
<1>12. TimedPassOn(V, q, Flag(t), Flag(u), x, r)
  BY <1>5, <1>8, <1>10, <1>11, TimedPasses
<1>13. Flag(t) = Flag(Responds) /\ Flag(u) = Flag(Requests)
  BY <1>3, <1>4 DEF Flag
<1>14. Walked = pos + Flag(Requests) /\ Walked \in Nat
  BY DEF Walked, Flag
<1>15. pos <= BucketCount => Walked <= BucketCount
  <2>1. PICK n \in Nat : n = BucketCount
    BY CloudFacts
  <2>2. PICK w \in Nat : w = pos
    OBVIOUS
  <2>3. Requests => w < n
    BY <2>1, <2>2 DEF Requests
  <2> QED BY <2>1, <2>2, <2>3 DEF Walked
<1> QED BY <1>1, <1>2, <1>6, <1>9, <1>12, <1>13, <1>14, <1>15

(* What a step makes of the entry of a bucket.                             *)
CommittedEntry(b) ==
  IF Due(writebacks) /\ b = writebacks[1].item.bid
  THEN [far |-> writebacks[1].item.idx, dist |-> writebacks[1].item.dist, merges |-> <<>>]
  ELSE table[b]

DecidedEntry(e, d) ==
  [e EXCEPT !.merges = CASE d.kind = "issue" -> <<>>
                         [] d.kind = "defer" -> Append(@, d.sample)
                         [] d.kind = "skip"  -> @]

LEMMA DecidedEntryType ==
  ASSUME NEW e \in Entry, NEW d \in Decision
  PROVE  /\ DecidedEntry(e, d) \in Entry
         /\ DecidedEntry(e, d).far = e.far /\ DecidedEntry(e, d).dist = e.dist
         /\ DecidedEntry(e, d).merges = IF d.kind = "issue" THEN <<>>
                                        ELSE IF d.kind = "defer" THEN Append(e.merges, d.sample)
                                        ELSE e.merges
<1>1. d.kind \in {"issue", "defer", "skip"} /\ d.sample \in Points
  BY DEF Decision
<1>2. e.merges \in Seq(Points)
  BY DEF Entry
<1>3. PICK m \in Seq(Points) : m = IF d.kind = "issue" THEN <<>>
                                   ELSE IF d.kind = "defer" THEN Append(e.merges, d.sample)
                                   ELSE e.merges
  BY <1>1, <1>2, AppendProperties, EmptySeq
<1>4. DecidedEntry(e, d) = [e EXCEPT !.merges = m]
  BY <1>1, <1>3 DEF DecidedEntry
<1> QED BY <1>3, <1>4 DEF Entry

LEMMA TableMoves ==
  ASSUME QueueTypes, NEW moved, CycleWith(moved)
  PROVE  /\ table' \in [BucketIds -> Entry]
         /\ \A b \in BucketIds :
              /\ CommittedEntry(b) \in Entry
              /\ table'[b] = IF HeadLeaves(Ready) /\ b = decided[1].bid
                             THEN DecidedEntry(CommittedEntry(b), decided[1])
                             ELSE CommittedEntry(b)
<1>1. PICK B : B = BucketIds
  OBVIOUS
<1>2. PICK E : E = Entry
  OBVIOUS
<1>3. PICK t \in [B -> E] : t = table
  BY <1>1, <1>2 DEF QueueTypes
<1>4. PICK c : c = CommitWriteback
  OBVIOUS
<1>5. c \in [B -> E] /\ \A b \in B : c[b] = CommittedEntry(b)
  <2>1. CASE Due(writebacks)
    <3>1. PICK X : X = Far
      OBVIOUS
    <3>2. writebacks \in Seq(TimedOf(X))
      BY <3>1 DEF QueueTypes
    <3>3. writebacks[1].item \in X
      BY <2>1, <3>2, DueHead
    <3>4. PICK r \in X : r = writebacks[1].item
      BY <3>3
    <3>5. PICK e : e = [far |-> r.idx, dist |-> r.dist, merges |-> <<>>]
      OBVIOUS
    <3>6. r.bid \in B /\ r.idx \in Points /\ r.dist \in Dists
      BY <1>1, <3>1 DEF Far
    <3>7. e \in E
      BY <1>2, <3>5, <3>6, EmptySeq DEF Entry
    <3>8. c = [t EXCEPT ![r.bid] = e]
      BY <1>3, <1>4, <2>1, <3>4, <3>5 DEF CommitWriteback
    <3>9. \A b \in B : CommittedEntry(b) = IF b = r.bid THEN e ELSE t[b]
      BY <1>3, <2>1, <3>4, <3>5 DEF CommittedEntry
    <3> QED BY <1>3, <3>6, <3>7, <3>8, <3>9
  <2>2. CASE ~Due(writebacks)
    BY <1>3, <1>4, <2>2 DEF CommitWriteback, CommittedEntry
  <2> QED BY <2>1, <2>2
<1>6. CASE HeadLeaves(Ready)
  <2>1. PICK V : V = Decision
    OBVIOUS
  <2>2. decided \in Seq(V) /\ decided # <<>>
    BY <1>6, <2>1 DEF QueueTypes, HeadLeaves
  <2>3. PICK d \in V : d = decided[1]
    BY <2>2, HeadOf
  <2>4. d.bid \in B
    BY <1>1, <2>1, <2>3 DEF Decision
  <2>5. PICK e \in E : e = c[d.bid]
    BY <1>5, <2>4
  <2>6. PICK f \in E : f = DecidedEntry(e, d)
    BY <1>2, <2>1, DecidedEntryType
  <2>7. AfterDecision(c, d) = [c EXCEPT ![d.bid] = f]
    BY <1>5, <2>4, <2>5, <2>6 DEF AfterDecision, DecidedEntry
  <2>8. table' = AfterDecision(c, d)
    BY <1>4, <1>6, <2>3 DEF CycleWith, Step, Pipelines, Ready
  <2>9. table' = [c EXCEPT ![d.bid] = f]
    BY <2>7, <2>8
  <2>10. \A b \in B : table'[b] = IF b = d.bid THEN f ELSE c[b]
    BY <1>5, <2>9
  <2>11. table' \in [B -> E]
    BY <1>5, <2>4, <2>9
  <2> QED BY <1>1, <1>2, <1>5, <1>6, <2>3, <2>5, <2>6, <2>10, <2>11
<1>7. CASE ~HeadLeaves(Ready)
  <2>1. table' = c
    BY <1>4, <1>7 DEF CycleWith, Step, Pipelines, Ready
  <2> QED BY <1>1, <1>2, <1>5, <1>7, <2>1
<1> QED BY <1>6, <1>7

LEMMA DecideType ==
  ASSUME NEW t \in [BucketIds -> Entry], NEW b \in BucketIds, current \in Points
  PROVE  LET d == Decide(t, b)
         IN  d \in Decision /\ d.bid = b /\ d.sample = current /\ d.mcnt = Len(t[b].merges)
<1>1. PICK e \in Entry : e = t[b]
  OBVIOUS
<1>2. e.merges \in Seq(Points) /\ Len(e.merges) \in Nat
  BY LenProperties DEF Entry
<1>3. Append(e.merges, current) \in Seq(Points)
  BY <1>2, AppendProperties
<1>4. PICK d : d = Decide(t, b)
  OBVIOUS
<1>5. PICK k \in {"issue", "defer", "skip"} :
        d = [bid |-> b, kind |-> k, sample |-> current, mcnt |-> Len(e.merges),
             refs |-> IF k = "issue" THEN Append(e.merges, current) ELSE <<>>]
  BY <1>1, <1>4 DEF Decide
<1> QED BY <1>1, <1>2, <1>3, <1>4, <1>5, EmptySeq DEF Decision

LEMMA CdMoves ==
  ASSUME current \in Points, QueueTypes, NEW moved, CycleWith(moved)
  PROVE  TimedPassOn(Decision, cd, Flag(Due(cd)), Flag(Injects),
                     Decide(table', fetched[1]), cd')
<1>1. PICK V : V = Decision
  OBVIOUS
<1>2. PICK q \in Seq(TimedOf(V)) : q = cd
  BY <1>1 DEF QueueTypes
<1>3. PICK t \in BOOLEAN : t <=> Due(cd)
  OBVIOUS
<1>4. PICK u \in BOOLEAN : u <=> Injects
  OBVIOUS
<1>5. t => q # <<>>
  BY <1>2, <1>3 DEF Due
<1>6. PICK B : B = BucketIds
  OBVIOUS
<1>7. u => fetched[1] \in B
  BY <1>4, <1>6, HeadOf DEF QueueTypes, Injects
<1>8. PICK x : x = Decide(table', fetched[1])
  OBVIOUS
<1>9. u => x \in V
  <2>1. PICK t2 \in [BucketIds -> Entry] : t2 = table'
    BY TableMoves
  <2>2. SUFFICES ASSUME u PROVE x \in V
    OBVIOUS
  <2>3. PICK b \in BucketIds : b = fetched[1]
    BY <1>6, <1>7, <2>2
  <2>4. Decide(t2, b) \in Decision
    BY DecideType
  <2>5. x = Decide(t2, b)
    BY <1>8, <2>1, <2>3 DEF Decide
  <2> QED BY <1>1, <2>4, <2>5
<1>10. PICK r : r = cd'
  OBVIOUS
<1>11. CD_LATENCY \in Nat
  BY Sizes
<1>12. r = Elapse(Onward(q, t, IfThen(u, [item |-> x, wait |-> CD_LATENCY])))
  BY <1>2, <1>3, <1>4, <1>8, <1>10
     DEF CycleWith, Step, Pipelines, Rest, IfThen, Onward, Timed
<1>13. TimedPassOn(V, q, Flag(t), Flag(u), x, r)
  BY <1>5, <1>9, <1>11, <1>12, TimedPasses
<1>14. Flag(t) = Flag(Due(cd)) /\ Flag(u) = Flag(Injects)
  BY <1>3, <1>4 DEF Flag
<1> QED BY <1>1, <1>2, <1>8, <1>10, <1>13, <1>14

-----------------------------------------------------------------------------
(* The walk goes on in its order.                                          *)

(* The first n of q are the visits from position k on. *)
Follows(H, k, n, q) == \A i \in 1..n : q[i] = H[k + i - 1]

Ids(q)      == [i \in 1..Len(q) |-> q[i].bid]
TimedIds(q) == [i \in 1..Len(q) |-> q[i].item.bid]
ItemsOf(q)  == [i \in 1..Len(q) |-> q[i].item]

(* One, or none, of the first a of q is gone and x, or nothing, follows. *)
Shift(a, one, m, q, x, r) ==
  /\ a >= one
  /\ \A i \in 1..a - one : r[i] = q[i + one]
  /\ m = 1 => r[a - one + 1] = x

LEMMA FollowsOn ==
  ASSUME NEW a \in Nat, NEW one \in {0, 1}, NEW m \in {0, 1}, NEW q, NEW x, NEW r,
         Shift(a, one, m, q, x, r),
         NEW H, NEW k \in Int, Follows(H, k, a, q), m = 1 => x = H[k + a]
  PROVE  Follows(H, k + one, a - one + m, r)
<1>1. SUFFICES ASSUME NEW i \in 1..a - one + m
               PROVE  r[i] = H[k + one + i - 1]
  BY DEF Follows
<1>2. CASE i \in 1..a - one
  <2>1. i + one \in 1..a /\ k + (i + one) - 1 = k + one + i - 1
    BY <1>2
  <2>2. q[i + one] = H[k + (i + one) - 1]
    BY <2>1 DEF Follows
  <2>3. r[i] = q[i + one]
    BY <1>2 DEF Shift
  <2> QED BY <2>1, <2>2, <2>3
<1>3. CASE ~(i \in 1..a - one)
  <2>1. m = 1 /\ i = a - one + 1 /\ k + one + i - 1 = k + a
    BY <1>1, <1>3 DEF Shift
  <2>2. r[a - one + 1] = H[k + a]
    BY <2>1 DEF Shift
  <2> QED BY <2>1, <2>2
<1> QED BY <1>2, <1>3

(* The walk in values: the ids along each queue, from position c on. *)
WalkOf(H, c, dq, cq, fq, gq) ==
  /\ Follows(H, c, Len(dq), Ids(dq))
  /\ Follows(H, c + Len(dq), Len(cq), TimedIds(cq))
  /\ Follows(H, c + Len(dq) + Len(cq), Len(fq), fq)
  /\ Follows(H, c + Len(dq) + Len(cq) + Len(fq), Len(gq), ItemsOf(gq))

LEMMA WalkIs ==
  ASSUME NEW cur, NEW w \in Nat, NEW c \in Int, c = Carried(w), NEW H,
         \A k \in Int : H[k] = VisitOf(cur, k), QueueTypes
  PROVE  WalkInv(cur, w) <=> /\ w \in 0..BucketCount /\ c \in Nat
                             /\ WalkOf(H, c, decided, cd, fetched, fetching)
<1>1. /\ Len(decided) \in Nat /\ Len(cd) \in Nat /\ Len(fetched) \in Nat /\ Len(fetching) \in Nat
      /\ DOMAIN decided = 1..Len(decided) /\ DOMAIN cd = 1..Len(cd)
      /\ DOMAIN fetched = 1..Len(fetched) /\ DOMAIN fetching = 1..Len(fetching)
  BY LenProperties DEF QueueTypes
<1>2. PICK a \in Nat : a = Len(decided)
  BY <1>1
<1>3. PICK b \in Nat : b = Len(cd)
  BY <1>1
<1>4. PICK f \in Nat : f = Len(fetched)
  BY <1>1
<1>5. PICK g \in Nat : g = Len(fetching)
  BY <1>1
<1>10. ASSUME NEW k \in Int, NEW n \in Nat, NEW q
       PROVE  Follows(H, k, n, q) <=> \A i \in 1..n : q[i] = VisitOf(cur, k + i - 1)
  <2>1. \A i \in 1..n : H[k + i - 1] = VisitOf(cur, k + i - 1)
    <3>1. \A i \in 1..n : k + i - 1 \in Int
      OBVIOUS
    <3> QED BY <3>1
  <2> QED BY <2>1 DEF Follows
<1>6. (\A i \in 1..a : decided[i].bid = VisitOf(cur, c + i - 1)) <=> Follows(H, c, a, Ids(decided))
  <2>1. \A i \in 1..a : Ids(decided)[i] = decided[i].bid
    BY <1>2 DEF Ids
  <2> QED BY <1>10, <2>1
<1>7. (\A i \in 1..b : cd[i].item.bid = VisitOf(cur, c + a + i - 1))
        <=> Follows(H, c + a, b, TimedIds(cd))
  <2>1. \A i \in 1..b : TimedIds(cd)[i] = cd[i].item.bid
    BY <1>3 DEF TimedIds
  <2> QED BY <1>10, <2>1
<1>8. (\A i \in 1..f : fetched[i] = VisitOf(cur, c + a + b + i - 1))
        <=> Follows(H, c + a + b, f, fetched)
  BY <1>10
<1>9. (\A i \in 1..g : fetching[i].item = VisitOf(cur, c + a + b + f + i - 1))
        <=> Follows(H, c + a + b + f, g, ItemsOf(fetching))
  <2>1. \A i \in 1..g : ItemsOf(fetching)[i] = fetching[i].item
    BY <1>5 DEF ItemsOf
  <2> QED BY <1>10, <2>1
<1> QED BY <1>1, <1>2, <1>3, <1>4, <1>5, <1>6, <1>7, <1>8, <1>9 DEF WalkInv, WalkOf

LEMMA WalkIsNext ==
  ASSUME NEW cur, NEW w \in Nat, NEW c \in Int, NEW H
  PROVE  (c = Carried(w) /\ (\A k \in Int : H[k] = VisitOf(cur, k)) /\ QueueTypes)'
           => (WalkInv(cur, w) <=> /\ w \in 0..BucketCount /\ c \in Nat
                                   /\ WalkOf(H, c, decided, cd, fetched, fetching))'
<1>1. c = Carried(w) /\ (\A k \in Int : H[k] = VisitOf(cur, k)) /\ QueueTypes
        => (WalkInv(cur, w) <=> /\ w \in 0..BucketCount /\ c \in Nat
                                /\ WalkOf(H, c, decided, cd, fetched, fetching))
  BY WalkIs
<1> QED BY <1>1, PTL

(* The same queue by queue, in values: its length, first id and ids. *)
Onwards(H, k, a, one, m, l, first, ids) ==
  /\ l = a - one + m /\ a >= one
  /\ a >= 1 => first = H[k]
  /\ Follows(H, k + one, a - one + m, ids)

LEMMA FirstFollows ==
  ASSUME NEW k \in Int, NEW n \in Nat, NEW q, NEW H, Follows(H, k, n, q), n >= 1
  PROVE  q[1] = H[k]
<1>1. 1 \in 1..n /\ k + 1 - 1 = k
  OBVIOUS
<1> QED BY <1>1 DEF Follows

LEMMA IdsFollow ==
  ASSUME NEW V, NEW q, NEW one \in {0, 1}, NEW m \in {0, 1}, NEW x, NEW r,
         Len(q) \in Nat, PassOn(V, q, one, m, x, r),
         NEW H, NEW k \in Int, Follows(H, k, Len(q), Ids(q)), m = 1 => x.bid = H[k + Len(q)]
  PROVE  Onwards(H, k, Len(q), one, m, Len(r), q[1].bid, Ids(r))
<1>1. PICK a \in Nat : a = Len(q)
  OBVIOUS
<1>2. PICK l : l = Len(r)
  OBVIOUS
<1>3. l = a - one + m /\ a >= one
  BY <1>1, <1>2 DEF PassOn
<1>4. PICK f : f = Ids(q)
  OBVIOUS
<1>5. PICK g : g = Ids(r)
  OBVIOUS
<1>6. \A i \in 1..a : f[i] = q[i].bid
  BY <1>1, <1>4 DEF Ids
<1>7. \A i \in 1..l : g[i] = r[i].bid
  BY <1>2, <1>5 DEF Ids
<1>8. /\ \A i \in 1..a - one : r[i] = q[i + one]
      /\ m = 1 => r[a - one + 1] = x
  BY <1>1 DEF PassOn
<1>9. \A i \in 1..a - one : g[i] = f[i + one]
  BY <1>3, <1>6, <1>7, <1>8
<1>10. m = 1 => g[a - one + 1] = x.bid
  BY <1>3, <1>7, <1>8
<1>11. Shift(a, one, m, f, x.bid, g)
  BY <1>3, <1>9, <1>10 DEF Shift
<1>12. Follows(H, k + one, a - one + m, g)
  BY <1>1, <1>4, <1>11, FollowsOn
<1>13. a >= 1 => f[1] = H[k]
  BY <1>1, <1>4, FirstFollows
<1>14. a >= 1 => q[1].bid = H[k]
  BY <1>6, <1>13
<1> QED BY <1>1, <1>2, <1>3, <1>5, <1>12, <1>14 DEF Onwards

LEMMA TimedIdsFollow ==
  ASSUME NEW V, NEW q, NEW one \in {0, 1}, NEW m \in {0, 1}, NEW x, NEW r,
         Len(q) \in Nat, TimedPassOn(V, q, one, m, x, r),
         NEW H, NEW k \in Int, Follows(H, k, Len(q), TimedIds(q)),
         m = 1 => x.bid = H[k + Len(q)]
  PROVE  Onwards(H, k, Len(q), one, m, Len(r), q[1].item.bid, TimedIds(r))
<1>1. PICK a \in Nat : a = Len(q)
  OBVIOUS
<1>2. PICK l : l = Len(r)
  OBVIOUS
<1>3. l = a - one + m /\ a >= one
  BY <1>1, <1>2 DEF TimedPassOn
<1>4. PICK f : f = TimedIds(q)
  OBVIOUS
<1>5. PICK g : g = TimedIds(r)
  OBVIOUS
<1>6. \A i \in 1..a : f[i] = q[i].item.bid
  BY <1>1, <1>4 DEF TimedIds
<1>7. \A i \in 1..l : g[i] = r[i].item.bid
  BY <1>2, <1>5 DEF TimedIds
<1>8. /\ \A i \in 1..a - one : r[i].item = q[i + one].item
      /\ m = 1 => r[a - one + 1].item = x
  BY <1>1 DEF TimedPassOn
<1>9. \A i \in 1..a - one : g[i] = f[i + one]
  BY <1>3, <1>6, <1>7, <1>8
<1>10. m = 1 => g[a - one + 1] = x.bid
  BY <1>3, <1>7, <1>8
<1>11. Shift(a, one, m, f, x.bid, g)
  BY <1>3, <1>9, <1>10 DEF Shift
<1>12. Follows(H, k + one, a - one + m, g)
  BY <1>1, <1>4, <1>11, FollowsOn
<1>13. a >= 1 => f[1] = H[k]
  BY <1>1, <1>4, FirstFollows
<1>14. a >= 1 => q[1].item.bid = H[k]
  BY <1>6, <1>13
<1> QED BY <1>1, <1>2, <1>3, <1>5, <1>12, <1>14 DEF Onwards

LEMMA QueueFollows ==
  ASSUME NEW V, NEW q, NEW one \in {0, 1}, NEW m \in {0, 1}, NEW x, NEW r,
         Len(q) \in Nat, PassOn(V, q, one, m, x, r),
         NEW H, NEW k \in Int, Follows(H, k, Len(q), q), m = 1 => x = H[k + Len(q)]
  PROVE  Onwards(H, k, Len(q), one, m, Len(r), q[1], r)
<1>1. PICK a \in Nat : a = Len(q)
  OBVIOUS
<1>2. Shift(a, one, m, q, x, r) /\ Len(r) = a - one + m /\ a >= one
  BY <1>1 DEF Shift, PassOn
<1>3. Follows(H, k + one, a - one + m, r)
  BY <1>1, <1>2, FollowsOn
<1>4. a >= 1 => q[1] = H[k]
  BY <1>1, FirstFollows
<1> QED BY <1>1, <1>2, <1>3, <1>4 DEF Onwards

LEMMA ItemsFollow ==
  ASSUME NEW V, NEW q, NEW one \in {0, 1}, NEW m \in {0, 1}, NEW x, NEW r,
         Len(q) \in Nat, TimedPassOn(V, q, one, m, x, r),
         NEW H, NEW k \in Int, Follows(H, k, Len(q), ItemsOf(q)), m = 1 => x = H[k + Len(q)]
  PROVE  Onwards(H, k, Len(q), one, m, Len(r), q[1].item, ItemsOf(r))
<1>1. PICK a \in Nat : a = Len(q)
  OBVIOUS
<1>2. PICK l : l = Len(r)
  OBVIOUS
<1>3. l = a - one + m /\ a >= one
  BY <1>1, <1>2 DEF TimedPassOn
<1>4. PICK f : f = ItemsOf(q)
  OBVIOUS
<1>5. PICK g : g = ItemsOf(r)
  OBVIOUS
<1>6. \A i \in 1..a : f[i] = q[i].item
  BY <1>1, <1>4 DEF ItemsOf
<1>7. \A i \in 1..l : g[i] = r[i].item
  BY <1>2, <1>5 DEF ItemsOf
<1>8. /\ \A i \in 1..a - one : r[i].item = q[i + one].item
      /\ m = 1 => r[a - one + 1].item = x
  BY <1>1 DEF TimedPassOn
<1>9. \A i \in 1..a - one : g[i] = f[i + one]
  BY <1>3, <1>6, <1>7, <1>8
<1>10. m = 1 => g[a - one + 1] = x
  BY <1>3, <1>7, <1>8
<1>11. Shift(a, one, m, f, x, g)
  BY <1>3, <1>9, <1>10 DEF Shift
<1>12. Follows(H, k + one, a - one + m, g)
  BY <1>1, <1>4, <1>11, FollowsOn
<1>13. a >= 1 => f[1] = H[k]
  BY <1>1, <1>4, FirstFollows
<1>14. a >= 1 => q[1].item = H[k]
  BY <1>6, <1>13
<1> QED BY <1>1, <1>2, <1>3, <1>5, <1>12, <1>14 DEF Onwards

LEMMA WalkKept ==
  ASSUME cloud \in Clouds, NEW cur \in Points, current = cur, NEW w \in Nat, pos = w,
         QueueTypes, QueueTypes', WalkInv(cur, w), NEW moved, CycleWith(moved), NEW v, v = Walked
  PROVE  /\ WalkInv(cur, v)'
         /\ Carried(v)' = Carried(w) + Flag(HeadLeaves(Ready))
         /\ HeadLeaves(Ready) => decided[1].bid = VisitOf(cur, Carried(w))
         /\ Injects => fetched[1] = VisitOf(cur, Carried(w) + Len(decided) + Len(cd))
         /\ Carried(v)' <= BucketCount
<1>1. PICK hl \in {0, 1} : hl = Flag(HeadLeaves(Ready)) /\ (hl = 1 <=> HeadLeaves(Ready))
  BY DEF Flag
<1>2. PICK dc \in {0, 1} : dc = Flag(Due(cd))
  BY DEF Flag
<1>3. PICK ij \in {0, 1} : ij = Flag(Injects) /\ (ij = 1 <=> Injects)
  BY DEF Flag
<1>4. PICK rs \in {0, 1} : rs = Flag(Responds)
  BY DEF Flag
<1>5. PICK rq \in {0, 1} : rq = Flag(Requests)
  BY DEF Flag
<1>6. PICK x : x = Decide(table', fetched[1])
  OBVIOUS
<1>7. PICK y : y = VisitOf(cur, w)
  OBVIOUS
<1>8. /\ Len(decided) \in Nat /\ Len(cd) \in Nat /\ Len(fetched) \in Nat /\ Len(fetching) \in Nat
  BY LenProperties DEF QueueTypes
<1>9. PICK a \in Nat : a = Len(decided)
  BY <1>8
<1>10. PICK b \in Nat : b = Len(cd)
  BY <1>8
<1>11. PICK f \in Nat : f = Len(fetched)
  BY <1>8
<1>12. PICK g \in Nat : g = Len(fetching)
  BY <1>8
<1>13. PICK c : c = Carried(w)
  OBVIOUS
<1>14. c = w - g - f - b - a
  BY <1>9, <1>10, <1>11, <1>12, <1>13 DEF Carried
<1>15. PICK H : H = [k \in Int |-> VisitOf(cur, k)]
  OBVIOUS
<1>16. \A k \in Int : H[k] = VisitOf(cur, k)
  BY <1>15
<1>17. w \in 0..BucketCount /\ c \in Nat /\ WalkOf(H, c, decided, cd, fetched, fetching)
  <2>1. c \in Int
    BY <1>14
  <2> QED BY <1>13, <1>16, <2>1, WalkIs
<1>18. PassOn(Decision, decided, hl, dc, cd[1].item, decided')
  BY <1>1, <1>2, DecidedMoves
<1>19. TimedPassOn(Decision, cd, dc, ij, x, cd')
  BY <1>2, <1>3, <1>6, CdMoves
<1>20. PassOn(BucketIds, fetched, ij, rs, fetching[1].item, fetched')
  BY <1>3, <1>4, FetchedMoves
<1>21. TimedPassOn(BucketIds, fetching, rs, rq, y, fetching')
  BY <1>4, <1>5, <1>7, FetchingMoves
<1>22. v = w + rq /\ v \in Nat /\ (w <= BucketCount => v <= BucketCount)
  BY <1>5, FetchingMoves
<1>23. x.bid = fetched[1]
  BY <1>6 DEF Decide
<1>24. rq = 1 => y = H[c + a + b + f + g]
  <2>1. c + a + b + f + g = w
    BY <1>14, <1>17
  <2> QED BY <1>7, <1>16, <2>1
<1>37. /\ Follows(H, c, a, Ids(decided)) /\ Follows(H, c + a, b, TimedIds(cd))
       /\ Follows(H, c + a + b, f, fetched)
       /\ Follows(H, c + a + b + f, g, ItemsOf(fetching))
  BY <1>9, <1>10, <1>11, <1>12, <1>17 DEF WalkOf
<1>38. /\ rs = 1 => g >= 1
       /\ ij = 1 => f >= 1
       /\ dc = 1 => b >= 1
  BY <1>10, <1>11, <1>12, <1>19, <1>20, <1>21 DEF PassOn, TimedPassOn
<1>39. /\ Len(fetching') = g - rs + rq /\ g >= rs /\ (g >= 1 => fetching[1].item = H[c + a + b + f])
       /\ Follows(H, c + a + b + f + rs, g - rs + rq, ItemsOf(fetching'))
  <2>1. PICK k \in Int : k = c + a + b + f
    BY <1>17
  <2>3. Onwards(H, k, Len(fetching), rs, rq, Len(fetching'), fetching[1].item, ItemsOf(fetching'))
    BY <1>12, <1>21, <1>24, <1>37, <2>1, ItemsFollow
  <2> QED BY <1>12, <2>1, <2>3 DEF Onwards
<1>40. /\ Len(fetched') = f - ij + rs /\ f >= ij /\ (f >= 1 => fetched[1] = H[c + a + b])
       /\ Follows(H, c + a + b + ij, f - ij + rs, fetched')
  <2>1. PICK k \in Int : k = c + a + b
    BY <1>17
  <2>2. rs = 1 => fetching[1].item = H[k + f]
    BY <1>38, <1>39, <2>1
  <2>3. Onwards(H, k, Len(fetched), ij, rs, Len(fetched'), fetched[1], fetched')
    BY <1>11, <1>20, <1>37, <2>1, <2>2, QueueFollows
  <2> QED BY <1>11, <2>1, <2>3 DEF Onwards
<1>41. /\ Len(cd') = b - dc + ij /\ b >= dc /\ (b >= 1 => cd[1].item.bid = H[c + a])
       /\ Follows(H, c + a + dc, b - dc + ij, TimedIds(cd'))
  <2>1. PICK k \in Int : k = c + a
    BY <1>17
  <2>2. ij = 1 => x.bid = H[k + b]
    BY <1>23, <1>38, <1>40, <2>1
  <2>3. Onwards(H, k, Len(cd), dc, ij, Len(cd'), cd[1].item.bid, TimedIds(cd'))
    BY <1>10, <1>19, <1>37, <2>1, <2>2, TimedIdsFollow
  <2> QED BY <1>10, <2>1, <2>3 DEF Onwards
<1>42. /\ Len(decided') = a - hl + dc /\ a >= hl /\ (a >= 1 => decided[1].bid = H[c])
       /\ Follows(H, c + hl, a - hl + dc, Ids(decided'))
  <2>1. c \in Int
    BY <1>17
  <2>2. dc = 1 => cd[1].item.bid = H[c + a]
    BY <1>38, <1>41
  <2>3. Onwards(H, c, Len(decided), hl, dc, Len(decided'), decided[1].bid, Ids(decided'))
    BY <1>9, <1>18, <1>37, <2>1, <2>2, IdsFollow
  <2> QED BY <1>9, <2>1, <2>3 DEF Onwards
<1>25. WalkOf(H, c + hl, decided', cd', fetched', fetching')
  <2>1. PICK da : da = Len(decided')
    OBVIOUS
  <2>2. PICK db : db = Len(cd')
    OBVIOUS
  <2>3. PICK df : df = Len(fetched')
    OBVIOUS
  <2>4. PICK dg : dg = Len(fetching')
    OBVIOUS
  <2>5. da = a - hl + dc /\ db = b - dc + ij /\ df = f - ij + rs /\ dg = g - rs + rq
    BY <1>39, <1>40, <1>41, <1>42, <2>1, <2>2, <2>3, <2>4
  <2>6. /\ c + hl + da = c + a + dc
        /\ c + hl + da + db = c + a + b + ij
        /\ c + hl + da + db + df = c + a + b + f + rs
    BY <1>17, <2>5
  <2>7. /\ Follows(H, c + hl, da, Ids(decided'))
        /\ Follows(H, c + hl + da, db, TimedIds(cd'))
        /\ Follows(H, c + hl + da + db, df, fetched')
        /\ Follows(H, c + hl + da + db + df, dg, ItemsOf(fetching'))
    BY <1>39, <1>40, <1>41, <1>42, <2>5, <2>6
  <2> QED BY <2>1, <2>2, <2>3, <2>4, <2>7 DEF WalkOf
<1>26. PICK c2 \in Nat : c2 = c + hl
  BY <1>17
<1>27. c2 = Carried(v)'
  <2>1. PICK da \in Int : da = Len(decided') /\ da = a - hl + dc
    BY <1>42
  <2>2. PICK db \in Int : db = Len(cd') /\ db = b - dc + ij
    BY <1>41
  <2>3. PICK df \in Int : df = Len(fetched') /\ df = f - ij + rs
    BY <1>40
  <2>4. PICK dg \in Int : dg = Len(fetching') /\ dg = g - rs + rq
    BY <1>39
  <2>5. Carried(v)' = v - dg - df - db - da
    BY <2>1, <2>2, <2>3, <2>4 DEF Carried
  <2>6. v - dg - df - db - da = c2
    BY <1>14, <1>22, <1>26, <2>1, <2>2, <2>3, <2>4
  <2> QED BY <2>5, <2>6
<1>28. cloud' = cloud
  BY DEF CycleWith
<1>29. \A k \in Int : H[k] = VisitOf(cur, k)'
  BY <1>16, <1>28 DEF VisitOf, Winner
<1>30. PICK n \in Nat : n = BucketCount
  BY CloudFacts
<1>31. BucketCount' = n
  BY <1>28, <1>30 DEF BucketCount
<1>32. v \in 0..n
  BY <1>17, <1>22, <1>30
<1>33. WalkInv(cur, v)'
  <2>1. WalkOf(H, c2, decided', cd', fetched', fetching')
    BY <1>25, <1>26
  <2>2. (WalkInv(cur, v) <=> /\ v \in 0..BucketCount /\ c2 \in Nat
                             /\ WalkOf(H, c2, decided, cd, fetched, fetching))'
    BY <1>22, <1>27, <1>29, WalkIsNext
  <2> QED BY <1>31, <1>32, <2>1, <2>2
<1>34. c2 <= n
  <2>1. c2 = v - (g - rs + rq) - (f - ij + rs) - (b - dc + ij) - (a - hl + dc)
    BY <1>14, <1>22, <1>26
  <2>2. PICK s1 \in Nat : s1 = (g - rs + rq) + (f - ij + rs)
    BY <1>39, <1>40
  <2>3. PICK s2 \in Nat : s2 = (b - dc + ij) + (a - hl + dc)
    BY <1>41, <1>42
  <2>4. c2 = v - s1 - s2
    BY <1>22, <2>1, <2>2, <2>3
  <2> QED BY <1>22, <1>32, <1>30, <2>4
<1>35. HeadLeaves(Ready) => decided[1].bid = VisitOf(cur, c)
  <2>1. H[c] = VisitOf(cur, c)
    BY <1>16, <1>17
  <2> QED BY <1>1, <1>42, <2>1
<1>36. Injects => fetched[1] = VisitOf(cur, c + a + b)
  <2>1. c + a + b \in Int
    BY <1>17
  <2>2. H[c + a + b] = VisitOf(cur, c + a + b)
    BY <1>16, <2>1
  <2> QED BY <1>3, <1>38, <1>40, <2>2
<1> QED BY <1>1, <1>9, <1>10, <1>13, <1>26, <1>27, <1>30, <1>33, <1>34, <1>35, <1>36

-----------------------------------------------------------------------------
(* The point engine in one cycle.                                          *)

LEMMA PointPtrIs ==
  ASSUME cloud \in Clouds, NEW b \in BucketIds
  PROVE  PointPtr(b) \in Members(b) /\ \A q \in Members(b) : PointPtr(b) <= q
<1>1. Members(b) # {} /\ Members(b) \subseteq Nat
  BY CloudFacts
<1>2. \E p \in Members(b) : \A q \in Members(b) : p <= q
  BY <1>1, NatMin
<1> QED BY <1>2 DEF PointPtr

(* The nearest is the least, and one of them. *)
LEMMA NearestIs ==
  ASSUME cloud \in Clouds, mdt \in [Points -> 0..Inf], NEW p \in Points, NEW refs \in Seq(Points)
  PROVE  /\ Nearest(p, refs) \in 0..Inf /\ Nearest(p, refs) <= mdt[p]
         /\ \A i \in DOMAIN refs : Nearest(p, refs) <= Dist(cloud, p, refs[i])
         /\ \/ Nearest(p, refs) = mdt[p]
            \/ \E i \in DOMAIN refs : Nearest(p, refs) = Dist(cloud, p, refs[i])
<1>1. \A i \in DOMAIN refs : refs[i] \in Points
  BY ElementOfSeq, LenProperties
<1>2. Inf \in Nat /\ \A i \in DOMAIN refs : Dist(cloud, p, refs[i]) \in Nat
  BY <1>1, CloudFacts
<1>3. PICK S : S = {mdt[p]} \cup {Dist(cloud, p, refs[i]) : i \in DOMAIN refs}
  OBVIOUS
<1>4. S \subseteq Nat /\ S # {}
  BY <1>2, <1>3
<1>5. PICK d \in S : \A x \in S : d <= x
  BY <1>4, NatMin
<1>6. d <= mdt[p] /\ \A i \in DOMAIN refs : d <= Dist(cloud, p, refs[i])
  BY <1>3, <1>5
<1>7. PICK e : e = Nearest(p, refs)
  OBVIOUS
<1>8. e = CHOOSE x \in S : x <= mdt[p] /\ \A i \in DOMAIN refs : x <= Dist(cloud, p, refs[i])
  BY <1>3, <1>7 DEF Nearest
<1>9. e \in S /\ e <= mdt[p] /\ \A i \in DOMAIN refs : e <= Dist(cloud, p, refs[i])
  BY <1>5, <1>6, <1>8
<1>10. e \in 0..Inf
  BY <1>2, <1>4, <1>9
<1> QED BY <1>3, <1>7, <1>9, <1>10

(* Some point is preferred to all others. *)
LEMMA BestExists ==
  ASSUME NEW S, S \subseteq [dist : Dists, idx : Points], S # {}, Inf \in Nat, Points \subseteq Nat
  PROVE  \E r \in S : \A o \in S : r = o \/ Better(r.dist, r.idx, o.dist, o.idx)
<1>1. PICK n \in Nat : n = Inf
  OBVIOUS
<1>2. \A r \in S : r.dist \in -1..n /\ r.idx \in Nat
  BY <1>1 DEF Dists
<1>3. PICK D : D = {n - r.dist : r \in S}
  OBVIOUS
<1>4. D \subseteq Nat /\ D # {}
  BY <1>2, <1>3
<1>5. PICK d \in D : \A x \in D : d <= x
  BY <1>4, NatMin
<1>6. PICK f \in S : n - f.dist = d
  BY <1>3, <1>5
<1>7. \A o \in S : o.dist <= f.dist
  <2>1. TAKE o \in S
  <2>2. n - f.dist <= n - o.dist
    BY <1>3, <1>5, <1>6
  <2> QED BY <1>2, <2>2
<1>8. PICK I : I = {r.idx : r \in {o \in S : o.dist = f.dist}}
  OBVIOUS
<1>9. I \subseteq Nat /\ I # {}
  BY <1>2, <1>8
<1>10. PICK i \in I : \A x \in I : i <= x
  BY <1>9, NatMin
<1>11. PICK r \in S : r.dist = f.dist /\ r.idx = i
  BY <1>8, <1>10
<1>12. ASSUME NEW o \in S
       PROVE  r = o \/ Better(r.dist, r.idx, o.dist, o.idx)
  <2>1. o.dist <= r.dist
    BY <1>7, <1>11
  <2>2. o.dist = r.dist => r.idx <= o.idx
    BY <1>8, <1>10, <1>11
  <2>3. o.dist = r.dist /\ o.idx = r.idx => r = o
    OBVIOUS
  <2>4. o.dist \in Int /\ r.dist \in Int /\ o.idx \in Int /\ r.idx \in Int
    BY <1>2
  <2> QED BY <2>1, <2>2, <2>3, <2>4 DEF Better
<1> QED BY <1>12

LEMMA BestOfIs ==
  ASSUME NEW best \in [dist : Dists, idx : Points], NEW rows,
         rows \subseteq [dist : Dists, idx : Points], Inf \in Nat, Points \subseteq Nat
  PROVE  /\ BestOf(best, rows) \in rows \cup {best}
         /\ \A o \in rows \cup {best} :
              \/ BestOf(best, rows) = o
              \/ Better(BestOf(best, rows).dist, BestOf(best, rows).idx, o.dist, o.idx)
<1>1. PICK S : S = rows \cup {best}
  OBVIOUS
<1>2. S \subseteq [dist : Dists, idx : Points] /\ S # {}
  BY <1>1
<1>3. \E r \in S : \A o \in S : r = o \/ Better(r.dist, r.idx, o.dist, o.idx)
  BY <1>2, BestExists
<1>4. BestOf(best, rows)
        = CHOOSE r \in S : \A o \in S : r = o \/ Better(r.dist, r.idx, o.dist, o.idx)
  BY <1>1 DEF BestOf
<1> QED BY <1>1, <1>3, <1>4

-----------------------------------------------------------------------------
(* Chunks.                                                                 *)

LEMMA ChunkPart ==
  ASSUME cloud \in Clouds, NEW b \in BucketIds, NEW k
  PROVE  Chunk(b, k) \subseteq Members(b) /\ Members(b) \subseteq Points
BY DEF Chunk, Members

(* What the phases become. *)
NextPhases(ph, moved) == AdvanceCompute(FillPingpong(HandleCompletions(ph, moved)), moved)

PhasesNext(K, ph, moved, nx) ==
  /\ nx \in [K -> Phases]
  /\ \A k \in K : nx[k] \in {"writing", "done"}
                    <=> \/ ph[k] \in {"writing", "done"}
                        \/ k \in moved /\ ph[k] = "computing"

LEMMA PhasesMove ==
  ASSUME NEW K, K \subseteq Nat, NEW ph \in [K -> Phases], NEW moved
  PROVE  PhasesNext(K, ph, moved, NextPhases(ph, moved))
<1>1. PICK h : h = HandleCompletions(ph, moved)
  OBVIOUS
<1>2. /\ h \in [K -> Phases]
      /\ \A k \in K : h[k] \in {"writing", "done"} <=> ph[k] \in {"writing", "done"}
      /\ \A k \in K : h[k] = "computing" <=> ph[k] = "computing"
  BY <1>1 DEF HandleCompletions, Phases
<1>3. PICK f : f = FillPingpong(h)
  OBVIOUS
<1>4. /\ f \in [K -> Phases]
      /\ \A k \in K : f[k] = h[k] \/ (h[k] = "waiting" /\ f[k] = "loading")
  BY <1>2, <1>3 DEF FillPingpong, Phases
<1>5. /\ \A k \in K : f[k] \in {"writing", "done"} <=> ph[k] \in {"writing", "done"}
      /\ \A k \in K : f[k] = "computing" <=> ph[k] = "computing"
  BY <1>2, <1>4
<1>8. PICK n : n = NextPhases(ph, moved)
  OBVIOUS
<1> DEFINE w == [k \in DOMAIN f |-> IF k \in moved /\ f[k] = "computing" THEN "writing" ELSE f[k]]
           loaded == {k \in DOMAIN f : w[k] = "loaded"}
           x == CHOOSE k \in loaded : \A j \in loaded : k <= j
<1>6. n = IF loaded = {} \/ \E k \in DOMAIN f : w[k] = "computing" THEN w
          ELSE [w EXCEPT ![x] = "computing"]
  <2>1. n = AdvanceCompute(f, moved)
    BY <1>1, <1>3, <1>8 DEF NextPhases
  <2> QED BY <2>1 DEF AdvanceCompute
<1>7. /\ w \in [K -> Phases]
      /\ \A k \in K : w[k] \in {"writing", "done"}
                        <=> \/ ph[k] \in {"writing", "done"}
                            \/ k \in moved /\ ph[k] = "computing"
  BY <1>4, <1>5 DEF Phases
<1>9. DOMAIN f = K
  BY <1>4
<1>10. loaded \subseteq K /\ \A k \in loaded : w[k] = "loaded"
  BY <1>9
<1> HIDE DEF w
<1>11. x = CHOOSE k \in loaded : \A j \in loaded : k <= j
  OBVIOUS
<1> HIDE DEF loaded, x
<1>12. loaded # {} => x \in loaded
  <2>1. SUFFICES ASSUME loaded # {} PROVE x \in loaded
    OBVIOUS
  <2>2. \E k \in loaded : \A j \in loaded : k <= j
    BY <1>10, <2>1, NatMin
  <2> QED BY <1>11, <2>2
<1>13. PhasesNext(K, ph, moved, n)
  BY <1>6, <1>7, <1>10, <1>12 DEF Phases, PhasesNext
<1> QED BY <1>8, <1>13

(* The points of a bucket are an interval, and its chunks cover it. *)
LEMMA Convex ==
  ASSUME cloud \in Clouds, NEW b \in BucketIds, NEW p \in Members(b), NEW q \in Members(b)
  PROVE  p..q \subseteq Members(b)
<1>1. PICK n \in Nat : n = Cardinality(Points) /\ Points = 0..n - 1
  BY PointsAssumption, FS_CardinalityType
<1>2. /\ p \in 0..n - 1 /\ q \in 0..n - 1
      /\ BucketOf(cloud, p) = b /\ BucketOf(cloud, q) = b
  BY <1>1 DEF Members
<1>3. ASSUME NEW x \in p..q PROVE x \in Members(b)
  <2>1. x \in Points /\ p \in Points /\ q \in Points
    <3>1. x \in 0..n - 1
      BY <1>2
    <3> QED BY <1>1, <1>2, <3>1
  <2>2. p < x => BucketOf(cloud, p) <= BucketOf(cloud, x)
    BY <2>1, RangesAssumption
  <2>3. x < q => BucketOf(cloud, x) <= BucketOf(cloud, q)
    BY <2>1, RangesAssumption
  <2>4. BucketOf(cloud, x) \in Int /\ b \in Int
    <3>1. BucketOf(cloud, x) \in BucketIds /\ LastBucket(cloud) \in Nat
      BY <2>1, CloudFacts
    <3> QED BY <3>1 DEF BucketIds
  <2>5. BucketOf(cloud, x) = b
    <3>1. CASE x = p
      BY <1>2, <3>1
    <3>2. CASE x = q
      BY <1>2, <3>2
    <3>3. CASE x # p /\ x # q
      <4>1. p < x /\ x < q
        BY <1>2, <3>3
      <4> QED BY <1>2, <2>2, <2>3, <2>4, <4>1
    <3> QED BY <3>1, <3>2, <3>3
  <2> QED BY <2>1, <2>5 DEF Members
<1> QED BY <1>3

LEMMA Quotient ==
  ASSUME NEW a \in Nat, NEW d \in Nat \ {0}
  PROVE  a \div d \in Nat /\ d * (a \div d) <= a /\ a < d * (a \div d) + d
OBVIOUS

LEMMA ChunksCover ==
  ASSUME cloud \in Clouds, NEW b \in BucketIds
  PROVE  /\ ChunkIdsOf(b) \subseteq Nat /\ 0 \in ChunkIdsOf(b)
         /\ \A p \in Members(b) : \E k \in ChunkIdsOf(b) : p \in Chunk(b, k)
<1>1. PICK d \in Nat \ {0} : d = CHUNK_POINTS
  BY Sizes
<1>2. PICK s \in Members(b) : s = PointPtr(b) /\ \A q \in Members(b) : s <= q
  BY PointPtrIs
<1>3. Members(b) \subseteq Points /\ IsFiniteSet(Points) /\ Points \subseteq Nat
  BY CloudFacts
<1>4. IsFiniteSet(Members(b))
  BY <1>3, FS_Subset
<1>5. PICK c \in Nat : c = Cardinality(Members(b))
  BY <1>4, FS_CardinalityType
<1>6. \A p \in Members(b) : p - s + 1 <= c /\ p - s \in Nat
  <2>1. TAKE p \in Members(b)
  <2>2. p \in Nat /\ s \in Nat /\ s <= p
    BY <1>2, <1>3
  <2>3. s..p \in SUBSET Members(b)
    BY Convex
  <2>4. Cardinality(s..p) <= c
    BY <1>4, <1>5, <2>3, FS_Subset
  <2>5. Cardinality(s..p) = p - s + 1
    BY <2>2, FS_Interval
  <2> QED BY <2>2, <2>4, <2>5
<1>7. c >= 1
  BY <1>2, <1>3, <1>6
<1>8. PICK m \in Nat : m = (c + d - 1) \div d /\ c + d - 1 < d * m + d
  <2>1. c + d - 1 \in Nat
    BY <1>7
  <2> QED BY <2>1, Quotient
<1>9. ChunkIdsOf(b) = 0..m - 1
  BY <1>1, <1>5, <1>8 DEF ChunkIdsOf, MakeChunks
<1>10. m >= 1
  <2>1. m = 0 => d * m = 0
    OBVIOUS
  <2> QED BY <1>7, <1>8, <2>1
<1>11. ASSUME NEW p \in Members(b)
       PROVE  \E k \in 0..m - 1 : p \in Chunk(b, k)
  <2>1. PICK x \in Nat : x = p - s /\ x + 1 <= c
    BY <1>6
  <2>2. PICK k \in Nat : d * k <= x /\ x < d * k + d
    BY <2>1, Quotient
  <2>3. k < m
    <3>1. d * k < d * m
      BY <1>8, <2>1, <2>2
    <3>2. k >= m => d * k >= d * m
      OBVIOUS
    <3> QED BY <3>1, <3>2
  <2>4. p \in Nat /\ s \in Nat
    BY <1>3
  <2>5. s + k * d <= p /\ p < s + (k + 1) * d
    <3>1. k * d = d * k /\ (k + 1) * d = d * k + d
      OBVIOUS
    <3>2. PICK y \in Nat : y = d * k
      OBVIOUS
    <3> QED BY <2>1, <2>2, <2>4, <3>1, <3>2
  <2>6. p \in Chunk(b, k)
    BY <1>1, <1>2, <2>5 DEF Chunk
  <2>7. k \in 0..m - 1
    BY <2>3
  <2> QED BY <2>6, <2>7
<1> QED BY <1>9, <1>10, <1>11

LEMMA ChunksApart ==
  ASSUME cloud \in Clouds, NEW b \in BucketIds, NEW j \in Nat, NEW k \in Nat,
         NEW p \in Chunk(b, j), p \in Chunk(b, k)
  PROVE  j = k
<1>1. PICK d \in Nat \ {0} : d = CHUNK_POINTS
  BY Sizes
<1>2. Points \subseteq Nat
  BY CloudFacts
<1>3. PICK s \in Nat : s = PointPtr(b)
  BY <1>2, PointPtrIs DEF Members
<1>4. p \in Nat
  BY <1>2 DEF Chunk, Members
<1>5. /\ s + j * d <= p /\ p < s + (j + 1) * d
      /\ s + k * d <= p /\ p < s + (k + 1) * d
  BY <1>1, <1>3 DEF Chunk
<1>6. ASSUME NEW x \in Nat, NEW y \in Nat, s + x * d <= p, p < s + (y + 1) * d PROVE ~(y < x)
  <2>1. SUFFICES ASSUME y < x PROVE FALSE
    OBVIOUS
  <2>2. (y + 1) * d <= x * d
    BY <2>1
  <2>3. PICK u \in Nat : u = (y + 1) * d
    OBVIOUS
  <2>4. PICK v \in Nat : v = x * d
    OBVIOUS
  <2> QED BY <1>4, <1>6, <2>2, <2>3, <2>4
<1>7. ~(j < k) /\ ~(k < j)
  BY <1>5, <1>6
<1> QED BY <1>7

LEMMA FirstPhases ==
  ASSUME cloud \in Clouds, NEW b \in BucketIds
  PROVE  LET ph == FillPingpong(MakeChunks(b))
         IN  /\ ph \in [ChunkIdsOf(b) -> Phases]
             /\ \A k \in ChunkIdsOf(b) : ph[k] \notin {"writing", "done"}
<1>1. PICK m : m = MakeChunks(b)
  OBVIOUS
<1>2. m \in [ChunkIdsOf(b) -> Phases] /\ \A k \in ChunkIdsOf(b) : m[k] = "waiting"
  <2>1. DOMAIN m = ChunkIdsOf(b)
    BY <1>1 DEF ChunkIdsOf
  <2>2. \A k \in DOMAIN m : m[k] = "waiting"
    BY <1>1 DEF MakeChunks
  <2>3. m = [k \in DOMAIN m |-> m[k]]
    BY <1>1 DEF MakeChunks
  <2> QED BY <2>1, <2>2, <2>3 DEF Phases
<1>3. PICK ph : ph = FillPingpong(m)
  OBVIOUS
<1>4. /\ ph \in [ChunkIdsOf(b) -> Phases]
      /\ \A k \in ChunkIdsOf(b) : ph[k] \notin {"writing", "done"}
  BY <1>2, <1>3 DEF FillPingpong, Phases
<1> QED BY <1>1, <1>3, <1>4

-----------------------------------------------------------------------------
(* The task.                                                               *)

LEMMA TaskIs ==
  ASSUME QueueTypes, task # <<>>
  PROVE  \E b \in BucketIds : task[1] \in TaskOf(b) /\ task[1].decision.bid = b
                              /\ task = <<task[1]>>
<1>1. PICK b \in BucketIds : \E t \in TaskOf(b) : t.decision.bid = b /\ task = <<t>>
  BY DEF QueueTypes
<1>2. PICK t \in TaskOf(b) : t.decision.bid = b /\ task = <<t>>
  BY <1>1
<1> QED BY <1>2

(* What a task has become when its end is looked for. *)
Going == task # <<>> \/ Accepts

LEMMA ComputedIs ==
  ASSUME cloud \in Clouds, QueueTypes, NEW moved
  PROVE  /\ Computed(moved) \subseteq Points
         /\ task = <<>> => Computed(moved) = {}
         /\ task # <<>> => /\ Computed(moved) \subseteq Members(task[1].decision.bid)
                           /\ task[1].decision.refs \in Seq(Points)
<1>1. CASE task = <<>>
  BY <1>1 DEF Computed
<1>2. CASE task # <<>>
  <2>1. PICK b \in BucketIds : task[1] \in TaskOf(b) /\ task[1].decision.bid = b
    BY <1>2, TaskIs
  <2>2. \A k : Chunk(b, k) \subseteq Members(b) /\ Members(b) \subseteq Points
    BY ChunkPart
  <2>3. Computed(moved) \subseteq Members(b)
    BY <1>2, <2>1, <2>2 DEF Computed
  <2> QED BY <1>2, <2>1, <2>2, <2>3 DEF TaskOf, Decision
<1> QED BY <1>1, <1>2

LEMMA RowsType ==
  ASSUME cloud \in Clouds, QueueTypes, NEW moved, NEW refs \in Seq(Points)
  PROVE  {[dist |-> Nearest(p, refs), idx |-> p] : p \in Computed(moved)}
           \subseteq [dist : Dists, idx : Points]
<1>1. mdt \in [Points -> 0..Inf] /\ Computed(moved) \subseteq Points /\ Inf \in Nat
  BY ComputedIs, CloudFacts DEF QueueTypes
<1>2. \A p \in Points : Nearest(p, refs) \in Dists
  <2>1. \A p \in Points : Nearest(p, refs) \in 0..Inf
    BY <1>1, NearestIs
  <2> QED BY <1>1, <2>1 DEF Dists
<1> QED BY <1>1, <1>2

LEMMA AdvancedIs ==
  ASSUME cloud \in Clouds, QueueTypes, NEW moved, Going
  PROVE  \E b \in BucketIds :
           /\ Advanced(moved) \in TaskOf(b) /\ Advanced(moved).decision.bid = b
           /\ task = <<>> => /\ bucketFifo # <<>> /\ Advanced(moved).decision = bucketFifo[1]
           /\ task # <<>> => /\ Advanced(moved).decision = task[1].decision
<1>1. Inf \in Nat /\ Points \subseteq Nat
  BY CloudFacts
<1>2. CASE Accepts
  <2>1. PICK V : V = Decision
    OBVIOUS
  <2>2. task = <<>> /\ bucketFifo # <<>> /\ bucketFifo \in Seq(V)
    BY <1>2, <2>1 DEF Accepts, QueueTypes
  <2>3. PICK d \in V : d = bucketFifo[1]
    BY <2>2, HeadOf
  <2>4. d = Head(bucketFifo)
    BY <2>2, <2>3, HeadTailProperties
  <2>5. PICK b \in BucketIds : b = d.bid
    BY <2>1 DEF Decision
  <2>6. PICK ph : ph = FillPingpong(MakeChunks(b))
    OBVIOUS
  <2>7. ph \in [ChunkIdsOf(b) -> Phases]
    BY <2>6, FirstPhases
  <2>8. PICK t : t = [decision |-> d, phase |-> ph, best |-> [dist |-> -1, idx |-> PointPtr(b)]]
    OBVIOUS
  <2>9. Advanced(moved) = t
    BY <1>2, <2>4, <2>5, <2>6, <2>8 DEF Advanced
  <2>10. PointPtr(b) \in Points /\ -1 \in Dists
    BY <1>1, PointPtrIs DEF Members, Dists
  <2>11. t \in TaskOf(b)
    BY <2>1, <2>7, <2>8, <2>10 DEF TaskOf
  <2> QED BY <2>2, <2>3, <2>5, <2>8, <2>9, <2>11
<1>3. CASE ~Accepts
  <2>1. task # <<>>
    BY <1>3 DEF Going
  <2>2. PICK b \in BucketIds : task[1] \in TaskOf(b) /\ task[1].decision.bid = b
    BY <2>1, TaskIs
  <2>3. PICK t \in TaskOf(b) : t = task[1]
    BY <2>2
  <2>4. /\ t.decision \in Decision /\ t.phase \in [ChunkIdsOf(b) -> Phases]
        /\ t.best \in [dist : Dists, idx : Points]
    BY DEF TaskOf
  <2>5. PICK refs \in Seq(Points) : refs = t.decision.refs
    BY <2>4 DEF Decision
  <2>6. PICK rows : rows = {[dist |-> Nearest(p, refs), idx |-> p] : p \in Computed(moved)}
    OBVIOUS
  <2>7. rows \subseteq [dist : Dists, idx : Points]
    BY <2>6, RowsType
  <2>8. PICK best \in [dist : Dists, idx : Points] : best = BestOf(t.best, rows)
    BY <1>1, <2>4, <2>7, BestOfIs
  <2>9. PICK ph \in [ChunkIdsOf(b) -> Phases] : ph = NextPhases(t.phase, moved)
    <3>1. PhasesNext(ChunkIdsOf(b), t.phase, moved, NextPhases(t.phase, moved))
      BY <2>4, ChunksCover, PhasesMove
    <3> QED BY <3>1 DEF PhasesNext
  <2>10. PICK u : u = [decision |-> t.decision, phase |-> ph, best |-> best]
    OBVIOUS
  <2>11. Advanced(moved) = u
    BY <1>3, <2>3, <2>5, <2>6, <2>8, <2>9, <2>10 DEF Advanced, NextPhases
  <2>12. u \in TaskOf(b)
    BY <2>4, <2>10 DEF TaskOf
  <2> QED BY <2>1, <2>2, <2>3, <2>10, <2>11, <2>12
<1> QED BY <1>2, <1>3

-----------------------------------------------------------------------------
(* The queues between scheduler and point engine in one cycle.             *)

LEMMA WritebacksMove ==
  ASSUME QueueTypes, NEW moved, CycleWith(moved)
  PROVE  /\ TimedPassOn(Far, writebacks, Flag(Due(writebacks)), Flag(farFifo # <<>>),
                        farFifo[1], writebacks')
         /\ writebacks' = Elapse(Onward(writebacks, Due(writebacks),
              IfThen(farFifo # <<>>, [item |-> farFifo[1], wait |-> WRITE_LATENCY])))
<1>1. PICK V : V = Far
  OBVIOUS
<1>2. PICK q \in Seq(TimedOf(V)) : q = writebacks
  BY <1>1 DEF QueueTypes
<1>3. PICK f \in Seq(V) : f = farFifo
  BY <1>1 DEF QueueTypes
<1>4. PICK t \in BOOLEAN : t <=> Due(writebacks)
  OBVIOUS
<1>5. PICK u \in BOOLEAN : u <=> f # <<>>
  OBVIOUS
<1>6. t => q # <<>>
  BY <1>2, <1>4 DEF Due
<1>7. PICK x : x = f[1]
  OBVIOUS
<1>8. u => x \in V /\ x = Head(f)
  BY <1>5, <1>7, HeadOf, HeadTailProperties
<1>9. PICK r : r = writebacks'
  OBVIOUS
<1>10. WRITE_LATENCY \in Nat
  BY Sizes
<1>11. PICK y : y = [item |-> x, wait |-> WRITE_LATENCY]
  OBVIOUS
<1>12. r = Elapse(Onward(q, t, IfThen(u, y)))
  <2>1. PICK far : far = IF f = <<>> THEN <<>> ELSE <<Head(f)>>
    OBVIOUS
  <2>2. r = Elapse(Rest(q, t) \o (IF far = <<>> THEN <<>> ELSE Timed(far[1], WRITE_LATENCY)))
    BY <1>2, <1>3, <1>4, <1>9, <2>1 DEF CycleWith, Step, Pipelines, Rest
  <2>3. (IF far = <<>> THEN <<>> ELSE Timed(far[1], WRITE_LATENCY)) = IfThen(u, y)
    BY <1>5, <1>8, <1>11, <2>1 DEF IfThen, Timed
  <2> QED BY <2>2, <2>3 DEF Onward
<1>13. TimedPassOn(V, q, Flag(t), Flag(u), x, r)
  BY <1>6, <1>8, <1>10, <1>11, <1>12, TimedPasses
<1>14. Flag(t) = Flag(Due(writebacks)) /\ Flag(u) = Flag(farFifo # <<>>)
  BY <1>3, <1>4, <1>5 DEF Flag
<1>15. r = Elapse(Onward(q, Due(writebacks), IfThen(farFifo # <<>>, y)))
  BY <1>3, <1>4, <1>5, <1>12 DEF Onward, Rest, IfThen
<1> QED BY <1>1, <1>2, <1>3, <1>7, <1>9, <1>11, <1>13, <1>14, <1>15

LEMMA FarFifoMoves ==
  ASSUME cloud \in Clouds, QueueTypes, NEW moved, CycleWith(moved)
  PROVE  /\ PassOn(Far, farFifo, Flag(farFifo # <<>>), Flag(Finishes(moved)),
                   FarPoint(Advanced(moved)), farFifo')
         /\ farFifo' = Onward(farFifo, farFifo # <<>>,
                              IfThen(Finishes(moved), FarPoint(Advanced(moved))))
<1>1. PICK V : V = Far
  OBVIOUS
<1>2. PICK q \in Seq(V) : q = farFifo
  BY <1>1 DEF QueueTypes
<1>3. PICK t \in BOOLEAN : t <=> q # <<>>
  OBVIOUS
<1>4. PICK u \in BOOLEAN : u <=> Finishes(moved)
  OBVIOUS
<1>5. PICK x : x = FarPoint(Advanced(moved))
  OBVIOUS
<1>6. u => x \in V
  <2>1. SUFFICES ASSUME u PROVE x \in V
    OBVIOUS
  <2>2. Going
    BY <1>4, <2>1 DEF Finishes, Going
  <2>3. PICK b \in BucketIds : Advanced(moved) \in TaskOf(b) /\ Advanced(moved).decision.bid = b
    BY <2>2, AdvancedIs
  <2>4. PICK a \in TaskOf(b) : a = Advanced(moved) /\ a.decision.bid = b
    BY <2>3
  <2>5. a.best.idx \in Points /\ a.best.dist \in Dists
    BY DEF TaskOf
  <2> QED BY <1>1, <1>5, <2>4, <2>5 DEF FarPoint, Far
<1>7. PICK r : r = farFifo'
  OBVIOUS
<1>8. r = Onward(q, t, IfThen(u, x))
  <2>1. PICK far : far = IF q = <<>> THEN <<>> ELSE <<Head(q)>>
    OBVIOUS
  <2>2. r = (IF far # <<>> THEN Tail(q) ELSE q)
              \o (IF Finishes(moved) THEN <<x>> ELSE <<>>)
    BY <1>2, <1>5, <1>7, <2>1 DEF CycleWith, PointStep
  <2>3. (IF far # <<>> THEN Tail(q) ELSE q) = Rest(q, t)
    BY <1>3, <2>1 DEF Rest
  <2> QED BY <1>4, <2>2, <2>3 DEF Onward, IfThen
<1>9. PassOn(V, q, Flag(t), Flag(u), x, r)
  BY <1>3, <1>6, <1>8, Passes
<1>10. Flag(t) = Flag(farFifo # <<>>) /\ Flag(u) = Flag(Finishes(moved))
  BY <1>2, <1>3, <1>4 DEF Flag
<1>11. r = Onward(q, farFifo # <<>>, IfThen(Finishes(moved), x))
  BY <1>2, <1>3, <1>4, <1>8 DEF Onward, Rest, IfThen
<1> QED BY <1>1, <1>2, <1>5, <1>7, <1>9, <1>10, <1>11

LEMMA BucketFifoMoves ==
  ASSUME QueueTypes, NEW moved, CycleWith(moved)
  PROVE  /\ PassOn(Decision, bucketFifo, Flag(Accepts), Flag(HeadIssues(Ready)),
                   decided[1], bucketFifo')
         /\ bucketFifo' = Onward(bucketFifo, Accepts, IfThen(HeadIssues(Ready), decided[1]))
<1>1. PICK V : V = Decision
  OBVIOUS
<1>2. PICK q \in Seq(V) : q = bucketFifo
  BY <1>1 DEF QueueTypes
<1>3. PICK c \in Seq(V) : c = decided
  BY <1>1 DEF QueueTypes
<1>4. PICK t \in BOOLEAN : t <=> Accepts
  OBVIOUS
<1>5. PICK u \in BOOLEAN : u <=> HeadIssues(Ready)
  OBVIOUS
<1>6. t => q # <<>>
  BY <1>2, <1>4 DEF Accepts
<1>7. PICK x : x = c[1]
  OBVIOUS
<1>8. u => x \in V
  BY <1>3, <1>5, <1>7, HeadOf DEF HeadIssues, HeadLeaves
<1>9. PICK r : r = bucketFifo'
  OBVIOUS
<1>10. r = Onward(q, t, IfThen(u, x))
  BY <1>2, <1>3, <1>4, <1>5, <1>7, <1>9
     DEF CycleWith, PointStep, Issued, Unaccepted, Ready, Onward, Rest, IfThen
<1>11. PassOn(V, q, Flag(t), Flag(u), x, r)
  BY <1>6, <1>8, <1>10, Passes
<1>12. Flag(t) = Flag(Accepts) /\ Flag(u) = Flag(HeadIssues(Ready))
  BY <1>4, <1>5 DEF Flag
<1>13. r = Onward(q, Accepts, IfThen(HeadIssues(Ready), x))
  BY <1>4, <1>5, <1>10 DEF Onward, Rest, IfThen
<1> QED BY <1>1, <1>2, <1>3, <1>7, <1>9, <1>11, <1>12, <1>13

LEMMA TaskMoves ==
  ASSUME NEW moved, CycleWith(moved)
  PROVE  task' = IF Going /\ ~Finishes(moved) THEN <<Advanced(moved)>> ELSE <<>>
BY DEF CycleWith, PointStep, Going

LEMMA DistancesMove ==
  ASSUME cloud \in Clouds, QueueTypes, NEW moved, CycleWith(moved)
  PROVE  /\ mdt' \in [Points -> 0..Inf]
         /\ \A p \in Points : mdt'[p] <= mdt[p] /\ (p \notin Computed(moved) => mdt'[p] = mdt[p])
         /\ \A p \in Computed(moved) :
              /\ p \in Points /\ task # <<>> /\ task[1].decision.refs \in Seq(Points)
              /\ mdt'[p] = Nearest(p, task[1].decision.refs)
<1>1. mdt \in [Points -> 0..Inf]
  BY DEF QueueTypes
<1>2. PICK n \in Nat : n = Inf
  BY CloudFacts
<1>3. PICK refs : refs = task[1].decision.refs
  OBVIOUS
<1>4. mdt' = [p \in Points |-> IF p \in Computed(moved) THEN Nearest(p, refs) ELSE mdt[p]]
  BY <1>3 DEF CycleWith, PointStep
<1>5. ASSUME NEW p \in Computed(moved)
      PROVE  /\ p \in Points /\ task # <<>> /\ refs \in Seq(Points)
             /\ Nearest(p, refs) \in 0..Inf /\ Nearest(p, refs) <= mdt[p]
  <2>1. p \in Points /\ task # <<>> /\ refs \in Seq(Points)
    BY <1>3, ComputedIs
  <2> QED BY <1>1, <2>1, NearestIs
<1>6. \A p \in Points : mdt[p] \in 0..n
  BY <1>1, <1>2
<1>7. mdt' \in [Points -> 0..n]
  BY <1>2, <1>4, <1>5, <1>6
<1>8. \A p \in Points : mdt'[p] <= mdt[p]
  BY <1>4, <1>5, <1>6
<1> QED BY <1>2, <1>3, <1>4, <1>5, <1>7, <1>8

(* The types of the queues hold on. *)
LEMMA TypesKept ==
  ASSUME cloud \in Clouds, current \in Points, pos \in Nat, QueueTypes,
         NEW moved, CycleWith(moved)
  PROVE  QueueTypes'
<1>1. cloud' = cloud
  BY DEF CycleWith
<1>2. /\ BucketIds' = BucketIds /\ Decision' = Decision /\ Far' = Far
      /\ Entry' = Entry
  BY <1>1 DEF BucketIds, Decision, Far, Entry
<1>3. \A b : TaskOf(b)' = TaskOf(b)
  BY <1>1, <1>2 DEF TaskOf, ChunkIdsOf, MakeChunks, Members
<1>4. fetching' \in Seq(TimedOf(BucketIds))
  BY FetchingMoves DEF TimedPassOn
<1>5. fetched' \in Seq(BucketIds)
  BY FetchedMoves DEF PassOn
<1>6. cd' \in Seq(TimedOf(Decision))
  BY CdMoves DEF TimedPassOn
<1>7. decided' \in Seq(Decision)
  BY DecidedMoves DEF PassOn
<1>8. writebacks' \in Seq(TimedOf(Far))
  BY WritebacksMove DEF TimedPassOn
<1>9. bucketFifo' \in Seq(Decision)
  BY BucketFifoMoves DEF PassOn
<1>10. farFifo' \in Seq(Far)
  BY FarFifoMoves DEF PassOn
<1>11. task' = <<>> \/ \E b \in BucketIds : \E t \in TaskOf(b) : t.decision.bid = b /\ task' = <<t>>
  <2>1. CASE Going
    BY <2>1, AdvancedIs, TaskMoves
  <2>2. CASE ~Going
    BY <2>2, TaskMoves
  <2> QED BY <2>1, <2>2
<1>12. table' \in [BucketIds -> Entry]
  BY TableMoves
<1>13. mdt' \in [Points -> 0..Inf]
  BY DistancesMove
<1>14. TimedOf(BucketIds)' = TimedOf(BucketIds) /\ TimedOf(Decision)' = TimedOf(Decision)
       /\ TimedOf(Far)' = TimedOf(Far)
  BY <1>2 DEF TimedOf
<1> QED BY <1>2, <1>3, <1>4, <1>5, <1>6, <1>7, <1>8, <1>9, <1>10, <1>11, <1>12, <1>13, <1>14
       DEF QueueTypes

-----------------------------------------------------------------------------
(* The depths of the queues.                                               *)

LEMMA RestLength ==
  ASSUME NEW V, NEW q \in Seq(V), NEW t \in BOOLEAN, t => q # <<>>
  PROVE  Len(Rest(q, t)) = Len(q) - Flag(t)
<1>1. CASE t
  BY <1>1, HeadTailProperties, HeadOf DEF Rest, Flag
<1>2. CASE ~t
  BY <1>2, LenProperties DEF Rest, Flag
<1> QED BY <1>1, <1>2

LEMMA DepthsKept ==
  ASSUME cloud \in Clouds, current \in Points, pos \in Nat, QueueTypes, DepthInv,
         NEW moved, CycleWith(moved)
  PROVE  DepthInv'
<1>1. /\ BUCKET_DEPTH \in Nat \ {0} /\ FAR_DEPTH \in Nat \ {0} /\ DECISION_DEPTH \in Nat \ {0}
  BY Sizes
<1>2. Len(bucketFifo') <= BUCKET_DEPTH
  <2>1. PICK a \in {0, 1} : a = Flag(Accepts)
    BY DEF Flag
  <2>2. PICK i \in {0, 1} : i = Flag(HeadIssues(Ready)) /\ (i = 1 => HeadIssues(Ready))
    BY DEF Flag
  <2>3. PICK n \in Nat : n = Len(bucketFifo)
    BY LenProperties DEF QueueTypes
  <2>4. Len(bucketFifo') = n - a + i
    BY <2>1, <2>2, <2>3, BucketFifoMoves DEF PassOn
  <2>5. i = 1 => n < BUCKET_DEPTH
    BY <2>2, <2>3 DEF HeadIssues, HeadLeaves, Ready, CanEnqueueBucket
  <2>6. n <= BUCKET_DEPTH
    BY <2>3 DEF DepthInv
  <2>7. n - a + i <= BUCKET_DEPTH
    BY <1>1, <2>5, <2>6
  <2> QED BY <2>4, <2>7
<1>3. Len(farFifo') <= FAR_DEPTH
  <2>1. PICK a \in {0, 1} : a = Flag(farFifo # <<>>)
    BY DEF Flag
  <2>2. PICK i \in {0, 1} : i = Flag(Finishes(moved)) /\ (i = 1 => Finishes(moved))
    BY DEF Flag
  <2>3. PICK n \in Nat : n = Len(farFifo)
    BY LenProperties DEF QueueTypes
  <2>4. Len(farFifo') = n - a + i
    BY <2>1, <2>2, <2>3, FarFifoMoves DEF PassOn
  <2>5. i = 1 => n < FAR_DEPTH
    BY <2>2, <2>3 DEF Finishes, FarRoom
  <2>6. n <= FAR_DEPTH
    BY <2>3 DEF DepthInv
  <2>7. n - a + i <= FAR_DEPTH
    BY <1>1, <2>5, <2>6
  <2> QED BY <2>4, <2>7
<1>4. /\ Len(cd) \in Nat /\ Len(decided) \in Nat /\ Len(fetching) \in Nat /\ Len(fetched) \in Nat
  BY LenProperties DEF QueueTypes
<1>5. PICK a \in Nat : a = Len(decided)
  BY <1>4
<1>6. PICK b \in Nat : b = Len(cd)
  BY <1>4
<1>7. PICK f \in Nat : f = Len(fetched)
  BY <1>4
<1>8. PICK g \in Nat : g = Len(fetching)
  BY <1>4
<1>9. PICK hl \in {0, 1} : hl = Flag(HeadLeaves(Ready))
  BY DEF Flag
<1>10. PICK dc \in {0, 1} : dc = Flag(Due(cd))
  BY DEF Flag
<1>11. PICK ij \in {0, 1} : ij = Flag(Injects) /\ (ij = 1 <=> Injects)
  BY DEF Flag
<1>12. PICK rs \in {0, 1} : rs = Flag(Responds)
  BY DEF Flag
<1>13. PICK rq \in {0, 1} : rq = Flag(Requests) /\ (rq = 1 <=> Requests)
  BY DEF Flag
<1>14. Len(decided') = a - hl + dc
  BY <1>5, <1>9, <1>10, DecidedMoves DEF PassOn
<1>15. Len(cd') = b - dc + ij
  BY <1>6, <1>10, <1>11, CdMoves DEF TimedPassOn
<1>16. Len(fetched') = f - ij + rs /\ f >= ij
  BY <1>7, <1>11, <1>12, FetchedMoves DEF PassOn
<1>17. Len(fetching') = g - rs + rq
  BY <1>8, <1>12, <1>13, FetchingMoves DEF TimedPassOn
<1>18. Len(cd') + Len(decided') <= DECISION_DEPTH
  <2>1. ij = 1 => b + a < DECISION_DEPTH
    BY <1>5, <1>6, <1>11 DEF Injects, Credit
  <2>2. b + a <= DECISION_DEPTH
    BY <1>5, <1>6 DEF DepthInv
  <2>3. (b - dc + ij) + (a - hl + dc) <= DECISION_DEPTH
    BY <1>1, <2>1, <2>2
  <2> QED BY <1>14, <1>15, <2>3
<1>19. Len(fetching') + Len(fetched') <= DECISION_DEPTH
  <2>1. g + f <= DECISION_DEPTH
    BY <1>7, <1>8 DEF DepthInv
  <2>2. Len(Rest(fetching, Responds)) = g - rs
    <3>1. PICK V : V = TimedOf(BucketIds)
      OBVIOUS
    <3>2. PICK t \in BOOLEAN : t <=> Responds
      OBVIOUS
    <3>3. fetching \in Seq(V) /\ (t => fetching # <<>>)
      BY <3>1, <3>2 DEF QueueTypes, Responds, Due
    <3>4. Len(Rest(fetching, t)) = Len(fetching) - Flag(t)
      BY <3>3, RestLength
    <3>5. Flag(t) = rs /\ Rest(fetching, t) = Rest(fetching, Responds)
      BY <1>12, <3>2 DEF Flag, Rest
    <3> QED BY <1>8, <3>4, <3>5
  <2>3. rq = 1 => (g - rs) + (f - ij + rs) < DECISION_DEPTH
    BY <1>13, <1>16, <2>2 DEF Requests
  <2>4. (g - rs + rq) + (f - ij + rs) <= DECISION_DEPTH
    BY <1>1, <2>1, <2>3
  <2> QED BY <1>16, <1>17, <2>4
<1> QED BY <1>2, <1>3, <1>18, <1>19 DEF DepthInv

-----------------------------------------------------------------------------
(* The buckets in service in one cycle.                                    *)

LEMMA MapIfThen ==
  ASSUME NEW F, NEW x, NEW t \in BOOLEAN
  PROVE  Map(F, IfThen(t, x)) = IfThen(t, F[x])
<1>1. CASE t
  <2>1. PICK V : V = {x}
    OBVIOUS
  <2>2. PICK q : q = <<x>>
    OBVIOUS
  <2>3. q \in Seq(V)
    BY <2>1, <2>2
  <2>4. Len(q) = 1 /\ q[1] = x
    BY <2>2
  <2>5. PICK W : W = {F[v] : v \in V}
    OBVIOUS
  <2>11. Map(F, q) \in Seq({F[v] : v \in V})
    BY <2>3, MapValues
  <2>12. Len(Map(F, q)) = Len(q) /\ \A i \in 1..Len(q) : Map(F, q)[i] = F[q[i]]
    BY <2>3, MapValues
  <2>13. PICK m \in Seq(W) : m = Map(F, q)
    BY <2>5, <2>11
  <2>14. Len(m) = 1 /\ m[1] = F[q[1]]
    BY <2>4, <2>12, <2>13
  <2>6. m = Map(F, q) /\ Len(m) = 1 /\ m[1] = F[x]
    BY <2>4, <2>13, <2>14
  <2>7. PICK r : r = <<F[x]>>
    OBVIOUS
  <2>8. r \in Seq(W)
    BY <2>1, <2>5, <2>7
  <2>9. Len(r) = 1 /\ r[1] = F[x]
    BY <2>7
  <2>10. m = r
    BY <2>6, <2>8, <2>9, SeqEqual
  <2> QED BY <1>1, <2>2, <2>6, <2>7, <2>10 DEF IfThen
<1>2. CASE ~t
  <2>1. Map(F, <<>>) = <<>>
    BY DEF Map
  <2> QED BY <1>2, <2>1 DEF IfThen
<1> QED BY <1>1, <1>2

LEMMA MapHead ==
  ASSUME NEW V, NEW F, NEW q \in Seq(V), NEW t \in BOOLEAN, t => q # <<>>
  PROVE  Map(F, q) = Join(IfThen(t, F[q[1]]), Map(F, Rest(q, t)))
<1>1. PICK a \in Seq(V) : a = IfThen(t, q[1])
  BY HeadAndRest
<1>2. PICK r \in Seq(V) : r = Rest(q, t)
  BY HeadAndRest
<1>3. q = a \o r
  BY <1>1, <1>2, HeadAndRest
<1>4. Map(F, a \o r) = Map(F, a) \o Map(F, r)
  BY MapConcat
<1>5. Map(F, a) = IfThen(t, F[q[1]])
  BY <1>1, MapIfThen
<1> QED BY <1>2, <1>3, <1>4, <1>5 DEF Join

MapsOnward(V, F, q, t, u, x) ==
  Map(F, Onward(q, t, IfThen(u, x))) = Join(Map(F, Rest(q, t)), IfThen(u, F[x]))

LEMMA MapOnward ==
  ASSUME NEW V, NEW F, NEW q \in Seq(V), NEW t \in BOOLEAN, t => q # <<>>,
         NEW u \in BOOLEAN, NEW x, u => x \in V
  PROVE  MapsOnward(V, F, q, t, u, x)
<1>1. PICK r \in Seq(V) : r = Rest(q, t)
  BY HeadAndRest
<1>2. PICK a \in Seq(V) : a = IfThen(u, x)
  BY ShortQueue DEF IfThen
<1>3. Map(F, r \o a) = Map(F, r) \o Map(F, a)
  BY MapConcat
<1>4. Map(F, a) = IfThen(u, F[x])
  BY <1>2, MapIfThen
<1> QED BY <1>1, <1>2, <1>3, <1>4 DEF Join, Onward, MapsOnward

LEMMA MapElapse ==
  ASSUME NEW X, NEW q \in Seq(TimedOf(X)), NEW G
  PROVE  LET F == [x \in TimedOf(X) |-> G[x.item]]
         IN  Map(F, Elapse(q)) = Map(F, q)
<1>1. /\ Elapse(q) \in Seq(TimedOf(X)) /\ Len(Elapse(q)) = Len(q) /\ DOMAIN Elapse(q) = DOMAIN q
      /\ \A i \in DOMAIN q : Elapse(q)[i].item = q[i].item
  BY ElapseKeeps
<1>2. PICK e : e = Elapse(q)
  OBVIOUS
<1>3. PICK V : V = TimedOf(X)
  OBVIOUS
<1>4. PICK F : F = [x \in V |-> G[x.item]]
  OBVIOUS
<1>5. \A i \in DOMAIN q : e[i] \in V /\ q[i] \in V /\ e[i].item = q[i].item
  BY <1>1, <1>2, <1>3, LenProperties, ElementOfSeq
<1>6. \A i \in DOMAIN q : F[e[i]] = F[q[i]]
  BY <1>4, <1>5
<1>7. Map(F, e) = Map(F, q)
  BY <1>1, <1>2, <1>6 DEF Map
<1> QED BY <1>2, <1>3, <1>4, <1>7

(* The bucket of a far point, of a decision. *)
FarId   == [r \in Far |-> r.bid]
LateId  == [x \in TimedOf(Far) |-> FarId[x.item]]
IssueId == [d \in Decision |-> d.bid]
TaskId  == IfThen(task # <<>>, task[1].decision.bid)

LEMMA InServiceIs ==
  ASSUME QueueTypes
  PROVE  InService = Join(Join(Join(Map(LateId, writebacks), Map(FarId, farFifo)), TaskId),
                          Map(IssueId, bucketFifo))
<1>1. [i \in DOMAIN writebacks |-> writebacks[i].item.bid] = Map(LateId, writebacks)
  <2>1. PICK V : V = TimedOf(Far)
    OBVIOUS
  <2>2. writebacks \in Seq(V)
    BY <2>1 DEF QueueTypes
  <2>3. \A i \in DOMAIN writebacks : writebacks[i] \in TimedOf(Far)
    BY <2>1, <2>2, LenProperties, ElementOfSeq
  <2>4. \A i \in DOMAIN writebacks : writebacks[i].item \in Far
    BY <2>3 DEF TimedOf
  <2>5. \A i \in DOMAIN writebacks : LateId[writebacks[i]] = writebacks[i].item.bid
    BY <2>3, <2>4 DEF LateId, FarId
  <2> QED BY <2>5 DEF Map
<1>2. [i \in DOMAIN farFifo |-> farFifo[i].bid] = Map(FarId, farFifo)
  <2>1. \A i \in DOMAIN farFifo : farFifo[i] \in Far
    BY LenProperties, ElementOfSeq DEF QueueTypes
  <2>2. \A i \in DOMAIN farFifo : FarId[farFifo[i]] = farFifo[i].bid
    BY <2>1 DEF FarId
  <2> QED BY <2>2 DEF Map
<1>3. [i \in DOMAIN bucketFifo |-> bucketFifo[i].bid] = Map(IssueId, bucketFifo)
  <2>1. \A i \in DOMAIN bucketFifo : bucketFifo[i] \in Decision
    BY LenProperties, ElementOfSeq DEF QueueTypes
  <2>2. \A i \in DOMAIN bucketFifo : IssueId[bucketFifo[i]] = bucketFifo[i].bid
    BY <2>1 DEF IssueId
  <2> QED BY <2>2 DEF Map
<1>4. (IF task = <<>> THEN <<>> ELSE <<task[1].decision.bid>>) = TaskId
  BY DEF TaskId, IfThen
<1> QED BY <1>1, <1>2, <1>3, <1>4 DEF InService, Join

LEMMA InServiceIsNext ==
  (QueueTypes => InService = Join(Join(Join(Map(LateId, writebacks), Map(FarId, farFifo)), TaskId),
                                  Map(IssueId, bucketFifo)))'
<1>1. QueueTypes => InService = Join(Join(Join(Map(LateId, writebacks), Map(FarId, farFifo)), TaskId),
                                     Map(IssueId, bucketFifo))
  BY InServiceIs
<1> QED BY <1>1, PTL

(* One may leave the end of the line, one may join it.                     *)
LEMMA InServiceMoves ==
  ASSUME cloud \in Clouds, QueueTypes, QueueTypes', NEW moved, CycleWith(moved)
  PROVE  \E r \in Seq(BucketIds) :
           /\ InService  = Join(IfThen(Due(writebacks), writebacks[1].item.bid), r)
           /\ InService' = Join(r, IfThen(HeadIssues(Ready), decided[1].bid))
<1>1. PICK B : B = BucketIds
  OBVIOUS
<1>2. cloud' = cloud
  BY DEF CycleWith
<1>3. Far' = Far /\ Decision' = Decision
  BY <1>2 DEF Far, Decision, BucketIds
<1>4. PICK G : G = FarId
  OBVIOUS
<1>5. PICK L : L = [x \in TimedOf(Far) |-> G[x.item]]
  OBVIOUS
<1>6. PICK I : I = IssueId
  OBVIOUS
<1>7. L = LateId /\ L = LateId' /\ G = FarId' /\ I = IssueId'
  BY <1>3, <1>4, <1>5, <1>6 DEF LateId, FarId, IssueId, TimedOf
<1>8. PICK W : W = TimedOf(Far)
  OBVIOUS
<1>9. PICK R : R = Far
  OBVIOUS
<1>10. PICK D : D = Decision
  OBVIOUS
<1>11. /\ \A x \in W : L[x] \in B
       /\ \A x \in R : G[x] \in B
       /\ \A x \in D : I[x] \in B
  BY <1>1, <1>4, <1>5, <1>6, <1>8, <1>9, <1>10 DEF FarId, IssueId, TimedOf, Far, Decision
<1>12. PICK wb \in Seq(W) : wb = writebacks
  BY <1>8 DEF QueueTypes
<1>13. PICK ff \in Seq(R) : ff = farFifo
  BY <1>9 DEF QueueTypes
<1>14. PICK bf \in Seq(D) : bf = bucketFifo
  BY <1>10 DEF QueueTypes
<1>15. PICK dw \in BOOLEAN : dw <=> Due(writebacks)
  OBVIOUS
<1>16. PICK pf \in BOOLEAN : pf <=> ff # <<>>
  OBVIOUS
<1>17. PICK fn \in BOOLEAN : fn <=> Finishes(moved)
  OBVIOUS
<1>18. PICK ac \in BOOLEAN : ac <=> Accepts
  OBVIOUS
<1>19. PICK hi \in BOOLEAN : hi <=> HeadIssues(Ready)
  OBVIOUS
<1>20. (dw => wb # <<>>) /\ (ac => bf # <<>>)
  BY <1>12, <1>14, <1>15, <1>18 DEF Due, Accepts
<1>21. PICK w0 \in Seq(B) : w0 = IfThen(dw, writebacks[1].item.bid)
  <2>1. dw => writebacks[1].item.bid \in B
    <3>1. SUFFICES ASSUME dw PROVE writebacks[1].item.bid \in B
      OBVIOUS
    <3>2. wb[1].item \in R
      BY <1>8, <1>9, <1>12, <1>15, <3>1, DueHead
    <3> QED BY <1>1, <1>9, <1>12, <3>2 DEF Far
  <2> QED BY <2>1, ShortQueue DEF IfThen
<1>22. PICK w1 \in Seq(B) : w1 = Map(L, Rest(wb, dw))
  <2>1. Rest(wb, dw) \in Seq(W)
    BY <1>20, HeadAndRest
  <2> QED BY <1>11, <2>1, MapType
<1>23. Map(LateId, writebacks) = Join(w0, w1)
  <2>1. Map(L, wb) = Join(IfThen(dw, L[wb[1]]), w1)
    BY <1>20, <1>22, MapHead
  <2>2. dw => L[wb[1]] = writebacks[1].item.bid
    <3>1. SUFFICES ASSUME dw PROVE L[wb[1]] = writebacks[1].item.bid
      OBVIOUS
    <3>2. wb[1] \in W
      BY <1>20, <3>1, HeadOf
    <3>3. wb[1].item \in Far
      BY <1>8, <3>2 DEF TimedOf
    <3> QED BY <1>4, <1>5, <1>8, <1>12, <3>2, <3>3 DEF FarId
  <2>3. IfThen(dw, L[wb[1]]) = w0
    BY <1>21, <2>2 DEF IfThen
  <2> QED BY <1>7, <1>12, <2>1, <2>3
<1>24. PICK f0 \in Seq(B) : f0 = IfThen(pf, G[ff[1]])
  <2>1. pf => G[ff[1]] \in B
    BY <1>11, <1>16, HeadOf
  <2> QED BY <2>1, ShortQueue DEF IfThen
<1>25. PICK f1 \in Seq(B) : f1 = Map(G, Rest(ff, pf))
  <2>1. Rest(ff, pf) \in Seq(R)
    BY <1>16, HeadAndRest
  <2> QED BY <1>11, <2>1, MapType
<1>26. Map(FarId, farFifo) = Join(f0, f1)
  BY <1>4, <1>13, <1>16, <1>24, <1>25, MapHead
<1>27. (Map(LateId, writebacks))' = Join(w1, f0)
  <2>1. PICK y : y = [item |-> ff[1], wait |-> WRITE_LATENCY]
    OBVIOUS
  <2>2. PICK o : o = Onward(wb, dw, IfThen(pf, y))
    OBVIOUS
  <2>3. writebacks' = Elapse(o)
    BY <1>12, <1>13, <1>15, <1>16, <2>1, <2>2, WritebacksMove DEF Onward, Rest, IfThen
  <2>4. pf => y \in W /\ L[y] = G[ff[1]]
    <3>1. pf => ff[1] \in R
      BY <1>16, HeadOf
    <3>2. WRITE_LATENCY \in Nat
      BY Sizes
    <3>3. pf => y \in W
      BY <1>8, <1>9, <2>1, <3>1, <3>2 DEF TimedOf
    <3> QED BY <1>5, <1>8, <2>1, <3>3
  <2>9. pf => y \in W
    BY <2>4
  <2>10. MapsOnward(W, L, wb, dw, pf, y)
    BY <1>20, <2>9, MapOnward
  <2>5. Map(L, o) = Join(w1, IfThen(pf, L[y]))
    BY <1>22, <2>2, <2>10 DEF MapsOnward
  <2>6. IfThen(pf, L[y]) = f0
    BY <1>24, <2>4 DEF IfThen
  <2>7. o \in Seq(W)
    <3>1. PassOn(W, wb, Flag(dw), Flag(pf), y, o)
      BY <1>20, <2>2, <2>4, Passes
    <3> QED BY <3>1 DEF PassOn
  <2>8. Map(L, Elapse(o)) = Map(L, o)
    <3>1. o \in Seq(TimedOf(Far))
      BY <1>8, <2>7
    <3> QED BY <1>5, <3>1, MapElapse
  <2> QED BY <1>7, <2>3, <2>5, <2>6, <2>8 DEF Map
<1>28. PICK fin \in Seq(B) : fin = IfThen(fn, Advanced(moved).decision.bid)
  <2>1. fn => Advanced(moved).decision.bid \in B
    BY <1>1, <1>17, AdvancedIs DEF Finishes, Going
  <2> QED BY <2>1, ShortQueue DEF IfThen
<1>29. (Map(FarId, farFifo))' = Join(f1, fin)
  <2>1. PICK x : x = FarPoint(Advanced(moved))
    OBVIOUS
  <2>2. farFifo' = Onward(ff, pf, IfThen(fn, x))
    BY <1>13, <1>16, <1>17, <2>1, FarFifoMoves DEF Onward, Rest, IfThen
  <2>3. fn => x \in R /\ G[x] = Advanced(moved).decision.bid
    <3>1. fn => x \in R
      <4>1. PassOn(Far, farFifo, Flag(farFifo # <<>>), Flag(Finishes(moved)), x, farFifo')
        BY <2>1, FarFifoMoves
      <4> QED BY <1>9, <1>17, <4>1 DEF PassOn, Flag
    <3>2. x.bid = Advanced(moved).decision.bid
      BY <2>1 DEF FarPoint
    <3> QED BY <1>4, <1>9, <3>1, <3>2 DEF FarId
  <2>6. fn => x \in R
    BY <2>3
  <2>7. MapsOnward(R, G, ff, pf, fn, x)
    BY <1>16, <2>6, MapOnward
  <2>4. Map(G, Onward(ff, pf, IfThen(fn, x))) = Join(f1, IfThen(fn, G[x]))
    BY <1>25, <2>7 DEF MapsOnward
  <2>5. IfThen(fn, G[x]) = fin
    BY <1>28, <2>3 DEF IfThen
  <2> QED BY <1>7, <2>2, <2>4, <2>5 DEF Map
<1>30. PICK b0 \in Seq(B) : b0 = IfThen(ac, I[bf[1]])
  <2>1. ac => I[bf[1]] \in B
    BY <1>11, <1>20, HeadOf
  <2> QED BY <2>1, ShortQueue DEF IfThen
<1>31. PICK b1 \in Seq(B) : b1 = Map(I, Rest(bf, ac))
  <2>1. Rest(bf, ac) \in Seq(D)
    BY <1>20, HeadAndRest
  <2> QED BY <1>11, <2>1, MapType
<1>32. Map(IssueId, bucketFifo) = Join(b0, b1)
  BY <1>6, <1>14, <1>20, <1>30, <1>31, MapHead
<1>33. hi => decided[1] \in D
  BY <1>10, <1>19, HeadOf DEF QueueTypes, HeadIssues, HeadLeaves
<1>34. PICK iss \in Seq(B) : iss = IfThen(hi, decided[1].bid)
  <2>1. hi => decided[1].bid \in B
    BY <1>1, <1>10, <1>33 DEF Decision
  <2> QED BY <2>1, ShortQueue DEF IfThen
<1>35. (Map(IssueId, bucketFifo))' = Join(b1, iss)
  <2>1. PICK x : x = decided[1]
    OBVIOUS
  <2>2. bucketFifo' = Onward(bf, ac, IfThen(hi, x))
    BY <1>14, <1>18, <1>19, <2>1, BucketFifoMoves DEF Onward, Rest, IfThen
  <2>3. hi => x \in D /\ I[x] = decided[1].bid
    BY <1>6, <1>10, <1>33, <2>1 DEF IssueId
  <2>6. hi => x \in D
    BY <2>3
  <2>7. MapsOnward(D, I, bf, ac, hi, x)
    BY <1>20, <2>6, MapOnward
  <2>4. Map(I, Onward(bf, ac, IfThen(hi, x))) = Join(b1, IfThen(hi, I[x]))
    BY <1>31, <2>7 DEF MapsOnward
  <2>5. IfThen(hi, I[x]) = iss
    BY <1>34, <2>3 DEF IfThen
  <2> QED BY <1>7, <2>2, <2>4, <2>5 DEF Map
<1>36. PICK t1 \in Seq(B) : t1 = TaskId
  <2>1. PICK t \in BOOLEAN : t <=> task # <<>>
    OBVIOUS
  <2>2. t => task[1].decision.bid \in B
    BY <1>1, <2>1, TaskIs
  <2>3. IfThen(t, task[1].decision.bid) \in Seq(B)
    BY <2>2, ShortQueue DEF IfThen
  <2> QED BY <2>1, <2>3 DEF TaskId, IfThen
<1>37. /\ TaskId' \in Seq(B)
       /\ Join(t1, b0) = Join(fin, TaskId')
  <2>1. CASE task = <<>> /\ ~Accepts
    <3>1. task' = <<>> /\ ~fn /\ ~ac
      BY <1>17, <1>18, <2>1, TaskMoves DEF Going, Finishes
    <3>2. t1 = <<>> /\ b0 = <<>> /\ fin = <<>> /\ TaskId' = <<>>
      BY <1>28, <1>30, <1>36, <2>1, <3>1 DEF TaskId, IfThen
    <3> QED BY <3>2, EmptySeq
  <2>2. CASE Going
    <3>1. PICK b \in B : b = Advanced(moved).decision.bid
      BY <1>1, <2>2, AdvancedIs
    <3>2. PICK one : one = <<b>>
      OBVIOUS
    <3>3. one \in Seq(B)
      BY <3>2
    <3>4. Join(one, <<>>) = one /\ Join(<<>>, one) = one
      BY <3>3, ConcatEmptySeq DEF Join
    <3>5. Join(t1, b0) = one
      <4>1. CASE task # <<>>
        <5>1. ~ac /\ b = task[1].decision.bid
          BY <1>18, <3>1, <4>1, <2>2, AdvancedIs DEF Accepts
        <5>2. t1 = one /\ b0 = <<>>
          BY <1>30, <1>36, <3>2, <4>1, <5>1 DEF TaskId, IfThen
        <5> QED BY <3>4, <5>2
      <4>2. CASE task = <<>>
        <5>1. ac /\ Advanced(moved).decision = bf[1]
          BY <1>14, <1>18, <2>2, <4>2, AdvancedIs DEF Going
        <5>2. bf[1] \in D
          BY <1>20, <5>1, HeadOf
        <5>3. I[bf[1]] = b
          BY <1>6, <1>10, <3>1, <5>1, <5>2 DEF IssueId
        <5>4. t1 = <<>> /\ b0 = one
          BY <1>30, <1>36, <3>2, <4>2, <5>1, <5>3 DEF TaskId, IfThen
        <5> QED BY <3>4, <5>4
      <4> QED BY <4>1, <4>2
    <3>6. CASE fn
      <4>1. task' = <<>>
        BY <1>17, <3>6, TaskMoves
      <4>2. fin = one /\ TaskId' = <<>>
        BY <1>28, <3>1, <3>2, <3>6, <4>1 DEF TaskId, IfThen
      <4> QED BY <3>4, <3>5, <4>2, EmptySeq
    <3>7. CASE ~fn
      <4>1. task' = <<Advanced(moved)>>
        BY <1>17, <2>2, <3>7, TaskMoves
      <4>2. task' # <<>> /\ task'[1] = Advanced(moved)
        BY <4>1
      <4>3. fin = <<>> /\ TaskId' = one
        BY <1>28, <3>1, <3>2, <3>7, <4>2 DEF TaskId, IfThen
      <4> QED BY <3>3, <3>4, <3>5, <4>3
    <3> QED BY <3>6, <3>7
  <2> QED BY <2>1, <2>2 DEF Going
<1>38. PICK t2 \in Seq(B) : t2 = TaskId' /\ Join(t1, b0) = Join(fin, t2)
  BY <1>37
<1>39. InService = Join(Join(Join(Join(w0, w1), Join(f0, f1)), t1), Join(b0, b1))
  BY <1>23, <1>26, <1>32, <1>36, InServiceIs
<1>40. InService' = Join(Join(Join(Join(w1, f0), Join(f1, fin)), t2), Join(b1, iss))
  <2>1. InService' = Join(Join(Join(Map(LateId, writebacks)', Map(FarId, farFifo)'), TaskId'),
                          Map(IssueId, bucketFifo)')
    BY InServiceIsNext DEF Join
  <2> QED BY <1>27, <1>29, <1>35, <1>38, <2>1
<1>41. PICK r \in Seq(B) :
         /\ Join(Join(Join(Join(w0, w1), Join(f0, f1)), t1), Join(b0, b1)) = Join(w0, r)
         /\ Join(Join(Join(Join(w1, f0), Join(f1, fin)), t2), Join(b1, iss)) = Join(r, iss)
  <2>1. Regrouped(B, w0, w1, f0, f1, t1, t2, b0, b1, fin, iss)
    BY <1>38, Regroup
  <2> QED BY <2>1 DEF Regrouped
<1>42. /\ w0 = IfThen(Due(writebacks), writebacks[1].item.bid)
       /\ iss = IfThen(HeadIssues(Ready), decided[1].bid)
  BY <1>15, <1>19, <1>21, <1>34 DEF IfThen
<1> QED BY <1>1, <1>39, <1>40, <1>41, <1>42

-----------------------------------------------------------------------------
(* A line in the order of the walk. *)
Ascending(P, c, q) ==
  /\ \A i \in DOMAIN q : P[q[i]] \in Nat /\ P[q[i]] < c
  /\ \A i, j \in DOMAIN q : i < j => P[q[i]] < P[q[j]]

LEMMA LineLoses ==
  ASSUME NEW B, NEW q, NEW r \in Seq(B), NEW x \in B, q = Join(<<x>>, r),
         NEW P, NEW c, Ascending(P, c, q)
  PROVE  /\ q \in Seq(B) /\ Len(q) = Len(r) + 1 /\ q[1] = x
         /\ Ascending(P, c, r)
         /\ \A b : b \in Elements(r) <=> b \in Elements(q) /\ b # x
<1>1. PICK u : u = <<x>>
  OBVIOUS
<1>2. u \in Seq(B)
  BY <1>1
<1>3. Len(u) = 1 /\ u[1] = x
  BY <1>1
<1>4. PICK n \in Nat : n = Len(r) /\ DOMAIN r = 1..n
  BY LenProperties
<1>5. /\ q \in Seq(B) /\ Len(q) = 1 + n
      /\ \A i \in 1..1 + n : q[i] = IF i <= 1 THEN u[i] ELSE r[i - 1]
  BY <1>1, <1>2, <1>3, <1>4, JoinType
<1>6. DOMAIN q = 1..1 + n
  BY <1>5, LenProperties
<1>7. q[1] = x /\ 1 \in 1..1 + n
  BY <1>3, <1>4, <1>5
<1>8. ASSUME NEW i \in 1..n
      PROVE  q[i + 1] = r[i] /\ i + 1 \in 1..1 + n /\ 1 < i + 1
  <2>1. i + 1 \in 1..1 + n /\ ~(i + 1 <= 1) /\ i + 1 - 1 = i
    BY <1>4
  <2> QED BY <1>5, <2>1
<1>9. /\ \A i \in 1..1 + n : P[q[i]] \in Nat /\ P[q[i]] < c
      /\ \A i, j \in 1..1 + n : i < j => P[q[i]] < P[q[j]]
  BY <1>6 DEF Ascending
<1>10. Ascending(P, c, r)
  <2>1. \A i \in 1..n : P[r[i]] \in Nat /\ P[r[i]] < c
    BY <1>8, <1>9
  <2>2. \A i, j \in 1..n : i < j => P[r[i]] < P[r[j]]
    <3>1. TAKE i, j \in 1..n
    <3>2. i < j => i + 1 < j + 1
      OBVIOUS
    <3> QED BY <1>8, <1>9, <3>2
  <2> QED BY <1>4, <2>1, <2>2 DEF Ascending
<1>11. ASSUME NEW b
       PROVE  b \in Elements(r) <=> b \in Elements(q) /\ b # x
  <2>1. b \in Elements(r) <=> \E i \in 1..n : b = r[i]
    BY <1>4 DEF Elements
  <2>2. b \in Elements(q) <=> \E i \in 1..1 + n : b = q[i]
    BY <1>6 DEF Elements
  <2>3. ASSUME NEW i \in 1..n, b = r[i] PROVE b \in Elements(q) /\ b # x
    <3>1. b = q[i + 1] /\ i + 1 \in 1..1 + n
      BY <1>8, <2>3
    <3>2. P[q[1]] < P[q[i + 1]] /\ P[q[1]] \in Nat
      BY <1>7, <1>8, <1>9
    <3> QED BY <1>7, <2>2, <3>1, <3>2
  <2>4. ASSUME NEW i \in 1..1 + n, b = q[i], b # x PROVE b \in Elements(r)
    <3>1. i # 1
      BY <1>7, <2>4
    <3>2. i - 1 \in 1..n /\ i - 1 + 1 = i
      BY <1>4, <3>1
    <3> QED BY <1>8, <2>1, <2>4, <3>2
  <2> QED BY <2>1, <2>2, <2>3, <2>4
<1> QED BY <1>4, <1>5, <1>7, <1>10, <1>11

LEMMA LineGains ==
  ASSUME NEW B, NEW s, NEW r \in Seq(B), NEW y \in B, s = Join(r, <<y>>),
         NEW P, NEW c \in Nat, Ascending(P, c, r), P[y] = c
  PROVE  /\ s \in Seq(B) /\ Len(s) = Len(r) + 1
         /\ Ascending(P, c + 1, s)
         /\ \A b : b \in Elements(s) <=> b \in Elements(r) \/ b = y
<1>1. PICK u : u = <<y>>
  OBVIOUS
<1>2. u \in Seq(B)
  BY <1>1
<1>3. Len(u) = 1 /\ u[1] = y
  BY <1>1
<1>4. PICK n \in Nat : n = Len(r) /\ DOMAIN r = 1..n
  BY LenProperties
<1>5. /\ s \in Seq(B) /\ Len(s) = n + 1
      /\ \A i \in 1..n + 1 : s[i] = IF i <= n THEN r[i] ELSE u[i - n]
  BY <1>1, <1>2, <1>3, <1>4, JoinType
<1>6. DOMAIN s = 1..n + 1
  BY <1>5, LenProperties
<1>7. s[n + 1] = y /\ n + 1 \in 1..n + 1
  <2>1. n + 1 \in 1..n + 1 /\ ~(n + 1 <= n) /\ n + 1 - n = 1
    BY <1>4
  <2> QED BY <1>3, <1>5, <2>1
<1>8. ASSUME NEW i \in 1..n
      PROVE  s[i] = r[i] /\ i \in 1..n + 1 /\ i < n + 1
  <2>1. i \in 1..n + 1 /\ i <= n
    BY <1>4
  <2> QED BY <1>5, <2>1
<1>9. \A i \in 1..n + 1 : i \in 1..n \/ i = n + 1
  BY <1>4
<1>10. /\ \A i \in 1..n : P[r[i]] \in Nat /\ P[r[i]] < c
       /\ \A i, j \in 1..n : i < j => P[r[i]] < P[r[j]]
  BY <1>4 DEF Ascending
<1>11. Ascending(P, c + 1, s)
  <2>1. ASSUME NEW i \in 1..n + 1 PROVE P[s[i]] \in Nat /\ P[s[i]] < c + 1
    <3>1. CASE i \in 1..n
      <4>1. P[r[i]] \in Nat /\ P[r[i]] < c
        BY <1>10, <3>1
      <4>2. P[r[i]] < c + 1
        BY <4>1
      <4> QED BY <1>8, <3>1, <4>1, <4>2
    <3>2. CASE i = n + 1
      BY <1>7, <3>2
    <3> QED BY <1>9, <3>1, <3>2
  <2>2. ASSUME NEW i \in 1..n + 1, NEW j \in 1..n + 1, i < j PROVE P[s[i]] < P[s[j]]
    <3>1. i \in 1..n
      BY <1>4, <2>2
    <3>2. CASE j \in 1..n
      BY <1>8, <1>10, <2>2, <3>1, <3>2
    <3>3. CASE j = n + 1
      BY <1>7, <1>8, <1>10, <3>1, <3>3
    <3> QED BY <1>9, <3>2, <3>3
  <2> QED BY <1>6, <2>1, <2>2 DEF Ascending
<1>12. ASSUME NEW b
       PROVE  b \in Elements(s) <=> b \in Elements(r) \/ b = y
  <2>1. b \in Elements(r) <=> \E i \in 1..n : b = r[i]
    BY <1>4 DEF Elements
  <2>2. b \in Elements(s) <=> \E i \in 1..n + 1 : b = s[i]
    BY <1>6 DEF Elements
  <2> QED BY <1>7, <1>8, <1>9, <2>1, <2>2
<1> QED BY <1>4, <1>5, <1>11, <1>12

LineStep(B, P, c, q, s, dw, hi, x, y) ==
  /\ q \in Seq(B) /\ s \in Seq(B)
  /\ Ascending(P, c + Flag(hi), s)
  /\ Len(s) = Len(q) - Flag(dw) + Flag(hi)
  /\ \A b : b \in Elements(s) <=> \/ b \in Elements(q) /\ ~(dw /\ b = x)
                                  \/ hi /\ b = y
  /\ dw => x \in Elements(q)

LEMMA LineMoves ==
  ASSUME NEW B, NEW q, NEW s, NEW r \in Seq(B), NEW dw \in BOOLEAN, NEW hi \in BOOLEAN,
         NEW x, NEW y, dw => x \in B, hi => y \in B,
         q = Join(IfThen(dw, x), r), s = Join(r, IfThen(hi, y)),
         NEW P, NEW c \in Nat, Ascending(P, c, q), hi => P[y] = c
  PROVE  LineStep(B, P, c, q, s, dw, hi, x, y)
<1>1. Len(r) \in Nat
  BY LenProperties
<1>2. /\ q \in Seq(B) /\ Len(q) = Len(r) + Flag(dw) /\ Ascending(P, c, r)
      /\ \A b : b \in Elements(r) <=> b \in Elements(q) /\ ~(dw /\ b = x)
      /\ dw => x \in Elements(q)
  <2>1. CASE dw
    <3>1. q = Join(<<x>>, r) /\ x \in B
      BY <2>1 DEF IfThen
    <3>2. /\ q \in Seq(B) /\ Len(q) = Len(r) + 1 /\ q[1] = x /\ Ascending(P, c, r)
          /\ \A b : b \in Elements(r) <=> b \in Elements(q) /\ b # x
      BY <3>1, LineLoses
    <3>3. 1 \in DOMAIN q
      BY <1>1, <3>2, LenProperties
    <3>4. x \in Elements(q)
      BY <3>2, <3>3 DEF Elements
    <3> QED BY <2>1, <3>2, <3>4 DEF Flag
  <2>2. CASE ~dw
    <3>1. q = r
      BY <2>2, ConcatEmptySeq DEF IfThen, Join
    <3> QED BY <1>1, <2>2, <3>1 DEF Flag
  <2> QED BY <2>1, <2>2
<1>3. /\ s \in Seq(B) /\ Len(s) = Len(r) + Flag(hi) /\ Ascending(P, c + Flag(hi), s)
      /\ \A b : b \in Elements(s) <=> b \in Elements(r) \/ (hi /\ b = y)
  <2>1. CASE hi
    <3>1. s = Join(r, <<y>>) /\ y \in B /\ P[y] = c
      BY <2>1 DEF IfThen
    <3>2. /\ s \in Seq(B) /\ Len(s) = Len(r) + 1 /\ Ascending(P, c + 1, s)
          /\ \A b : b \in Elements(s) <=> b \in Elements(r) \/ b = y
      BY <1>2, <3>1, LineGains
    <3> QED BY <2>1, <3>2 DEF Flag
  <2>2. CASE ~hi
    <3>1. s = r
      BY <2>2, ConcatEmptySeq DEF IfThen, Join
    <3>2. Flag(hi) = 0 /\ c + 0 = c
      BY <2>2 DEF Flag
    <3> QED BY <1>1, <1>2, <2>2, <3>1, <3>2
  <2> QED BY <2>1, <2>2
<1>4. Flag(dw) \in {0, 1} /\ Flag(hi) \in {0, 1}
  BY FlagIs
<1> QED BY <1>1, <1>2, <1>3, <1>4 DEF LineStep

(* The values of the line only. *)
LEMMA LineApart ==
  ASSUME NEW B, NEW q \in Seq(B), NEW P, NEW c, Ascending(P, c, q)
  PROVE  /\ \A i, j \in DOMAIN q : q[i] = q[j] => i = j
         /\ Cardinality(Elements(q)) = Len(q)
<1>1. PICK n \in Nat : n = Len(q) /\ DOMAIN q = 1..n
  BY LenProperties
<1>2. ASSUME NEW i \in 1..n, NEW j \in 1..n, q[i] = q[j] PROVE i = j
  <2>1. P[q[i]] \in Nat /\ (i < j => P[q[i]] < P[q[j]]) /\ (j < i => P[q[j]] < P[q[i]])
    BY <1>1 DEF Ascending
  <2>2. ~(i < j) /\ ~(j < i)
    BY <1>2, <2>1
  <2> QED BY <2>2
<1>3. PICK E : E = Elements(q)
  OBVIOUS
<1>4. q \in Bijection(1..n, E)
  <2>1. q \in [1..n -> E] /\ \A e \in E : \E i \in 1..n : q[i] = e
    BY <1>1, <1>3, ElementOfSeq DEF Elements
  <2> QED BY <1>2, <2>1, Fun_IsBij
<1>5. Cardinality(E) = n
  <2>1. ExistsBijection(1..n, E)
    BY <1>4 DEF ExistsBijection
  <2> QED BY <2>1, FS_CountingElements
<1> QED BY <1>1, <1>2, <1>3, <1>5

-----------------------------------------------------------------------------
(* The buckets in service and those of the walk.                           *)

LEMMA JoinApart ==
  ASSUME NEW B, NEW a \in Seq(B), NEW b \in Seq(B), NEW P, NEW c, Ascending(P, c, Join(a, b))
  PROVE  /\ Join(a, b) \in Seq(B) /\ Ascending(P, c, a)
         /\ Elements(Join(a, b)) = Elements(a) \cup Elements(b)
         /\ \A x \in Elements(a) : \A y \in Elements(b) : x # y
<1>1. PICK m \in Nat : m = Len(a) /\ DOMAIN a = 1..m
  BY LenProperties
<1>2. PICK n \in Nat : n = Len(b) /\ DOMAIN b = 1..n
  BY LenProperties
<1>3. PICK q : q = Join(a, b)
  OBVIOUS
<1>4. /\ q \in Seq(B) /\ Len(q) = m + n
      /\ \A i \in 1..m + n : q[i] = IF i <= m THEN a[i] ELSE b[i - m]
  BY <1>1, <1>2, <1>3, JoinType
<1>5. DOMAIN q = 1..m + n
  BY <1>4, LenProperties
<1>6. \A i \in 1..m : i \in 1..m + n /\ q[i] = a[i]
  BY <1>4
<1>7. ASSUME NEW i \in 1..n PROVE m + i \in 1..m + n /\ q[m + i] = b[i]
  <2>1. m + i \in 1..m + n /\ ~(m + i <= m) /\ m + i - m = i
    OBVIOUS
  <2> QED BY <1>4, <2>1
<1>8. /\ \A i \in 1..m + n : P[q[i]] \in Nat /\ P[q[i]] < c
      /\ \A i, j \in 1..m + n : i < j => P[q[i]] < P[q[j]]
  BY <1>3, <1>5 DEF Ascending
<1>9. Ascending(P, c, a)
  BY <1>1, <1>6, <1>8 DEF Ascending
<1>10. Elements(q) = Elements(a) \cup Elements(b)
  <2>1. \A i \in 1..m + n : i \in 1..m \/ \E j \in 1..n : i = m + j
    <3>1. TAKE i \in 1..m + n
    <3>2. i \notin 1..m => i - m \in 1..n /\ i = m + (i - m)
      OBVIOUS
    <3> QED BY <3>2
  <2>2. \A x : x \in Elements(q) <=> \E i \in 1..m + n : x = q[i]
    BY <1>5 DEF Elements
  <2>3. \A x : x \in Elements(a) <=> \E i \in 1..m : x = a[i]
    BY <1>1 DEF Elements
  <2>4. \A x : x \in Elements(b) <=> \E i \in 1..n : x = b[i]
    BY <1>2 DEF Elements
  <2>5. ASSUME NEW i \in 1..m + n PROVE q[i] \in Elements(a) \/ q[i] \in Elements(b)
    <3>1. CASE i \in 1..m
      BY <1>6, <2>3, <3>1
    <3>2. CASE \E j \in 1..n : i = m + j
      BY <1>7, <2>4, <3>2
    <3> QED BY <2>1, <3>1, <3>2
  <2>6. \A i \in 1..m : a[i] \in Elements(q)
    BY <1>6, <2>2
  <2>7. \A i \in 1..n : b[i] \in Elements(q)
    BY <1>7, <2>2
  <2>8. \A x : x \in Elements(q) => x \in Elements(a) \/ x \in Elements(b)
    BY <2>2, <2>5
  <2>9. \A x : x \in Elements(a) => x \in Elements(q)
    BY <2>3, <2>6
  <2>10. \A x : x \in Elements(b) => x \in Elements(q)
    BY <2>4, <2>7
  <2> QED BY <2>8, <2>9, <2>10
<1>11. ASSUME NEW x \in Elements(a), NEW y \in Elements(b) PROVE x # y
  <2>1. PICK i \in 1..m : x = a[i]
    BY <1>1, <1>11 DEF Elements
  <2>2. PICK j \in 1..n : y = b[j]
    BY <1>2, <1>11 DEF Elements
  <2>3. x = q[i] /\ y = q[m + j] /\ i \in 1..m + n /\ m + j \in 1..m + n
    BY <1>6, <1>7, <2>1, <2>2
  <2>4. i < m + j
    OBVIOUS
  <2>5. P[x] < P[y] /\ P[x] \in Nat
    BY <1>8, <2>3, <2>4
  <2> QED BY <2>5
<1> QED BY <1>3, <1>4, <1>9, <1>10, <1>11

LEMMA MapElements ==
  ASSUME NEW V, NEW F, NEW q \in Seq(V)
  PROVE  \A x \in Elements(q) : x \in V /\ F[x] \in Elements(Map(F, q))
BY ElementOfSeq, LenProperties DEF Elements, Map

(* Those in service are one line in the order of the walk. *)
LEMMA InServiceType ==
  ASSUME QueueTypes
  PROVE  InService \in Seq(BucketIds)
<1>1. PICK B : B = BucketIds
  OBVIOUS
<1>2. PICK W : W = TimedOf(Far)
  OBVIOUS
<1>3. PICK R : R = Far
  OBVIOUS
<1>4. PICK D : D = Decision
  OBVIOUS
<1>5. PICK L : L = LateId
  OBVIOUS
<1>6. PICK G : G = FarId
  OBVIOUS
<1>7. PICK I : I = IssueId
  OBVIOUS
<1>8. /\ \A x \in W : L[x] \in B
      /\ \A x \in R : G[x] \in B
      /\ \A x \in D : I[x] \in B
  BY <1>1, <1>2, <1>3, <1>4, <1>5, <1>6, <1>7 DEF LateId, FarId, IssueId, TimedOf, Far, Decision
<1>9. PICK a \in Seq(B) : a = Map(L, writebacks)
  <2>1. writebacks \in Seq(W)
    BY <1>2 DEF QueueTypes
  <2> QED BY <1>8, <2>1, MapType
<1>10. PICK b \in Seq(B) : b = Map(G, farFifo)
  <2>1. farFifo \in Seq(R)
    BY <1>3 DEF QueueTypes
  <2> QED BY <1>8, <2>1, MapType
<1>11. PICK d \in Seq(B) : d = Map(I, bucketFifo)
  <2>1. bucketFifo \in Seq(D)
    BY <1>4 DEF QueueTypes
  <2> QED BY <1>8, <2>1, MapType
<1>12. PICK c \in Seq(B) : c = TaskId
  <2>1. PICK t \in BOOLEAN : t <=> task # <<>>
    OBVIOUS
  <2>2. t => task[1].decision.bid \in B
    BY <1>1, <2>1, TaskIs
  <2>3. IfThen(t, task[1].decision.bid) \in Seq(B)
    BY <2>2, ShortQueue DEF IfThen
  <2> QED BY <2>1, <2>3 DEF TaskId, IfThen
<1>13. InService = Join(Join(Join(a, b), c), d)
  BY <1>5, <1>6, <1>7, <1>9, <1>10, <1>11, <1>12, InServiceIs
<1>14. Join(a, b) \in Seq(B)
  BY JoinType
<1>15. Join(Join(a, b), c) \in Seq(B)
  BY <1>14, JoinType
<1> QED BY <1>1, <1>13, <1>15, JoinType

(* Who is in service, and that none is there twice. *)
ServiceParts ==
  /\ \A r \in Items(writebacks) \cup Elements(farFifo) :
       /\ r \in Far /\ r.bid \in Elements(InService)
       /\ task # <<>> => r.bid # task[1].decision.bid
  /\ \A d \in Elements(bucketFifo) : d \in Decision /\ d.bid \in Elements(InService)
  /\ task # <<>> => task[1].decision.bid \in Elements(InService)

LEMMA ServiceApart ==
  ASSUME QueueTypes, NEW P, NEW c0, Ascending(P, c0, InService)
  PROVE  ServiceParts
<1>1. PICK B : B = BucketIds
  OBVIOUS
<1>2. PICK W : W = TimedOf(Far)
  OBVIOUS
<1>3. PICK R : R = Far
  OBVIOUS
<1>4. PICK D : D = Decision
  OBVIOUS
<1>5. PICK L : L = LateId
  OBVIOUS
<1>6. PICK G : G = FarId
  OBVIOUS
<1>7. PICK I : I = IssueId
  OBVIOUS
<1>8. /\ \A x \in W : L[x] \in B /\ x.item \in R /\ L[x] = x.item.bid
      /\ \A x \in R : G[x] \in B /\ G[x] = x.bid
      /\ \A x \in D : I[x] \in B /\ I[x] = x.bid
  BY <1>1, <1>2, <1>3, <1>4, <1>5, <1>6, <1>7 DEF LateId, FarId, IssueId, TimedOf, Far, Decision
<1>9. PICK wb \in Seq(W) : wb = writebacks
  BY <1>2 DEF QueueTypes
<1>10. PICK ff \in Seq(R) : ff = farFifo
  BY <1>3 DEF QueueTypes
<1>11. PICK bf \in Seq(D) : bf = bucketFifo
  BY <1>4 DEF QueueTypes
<1>12. PICK a \in Seq(B) : a = Map(L, wb)
  BY <1>8, MapType
<1>13. PICK b \in Seq(B) : b = Map(G, ff)
  BY <1>8, MapType
<1>14. PICK d \in Seq(B) : d = Map(I, bf)
  BY <1>8, MapType
<1>15. PICK t \in BOOLEAN : t <=> task # <<>>
  OBVIOUS
<1>16. PICK x : x = task[1].decision.bid
  OBVIOUS
<1>17. PICK c \in Seq(B) : c = IfThen(t, x)
  <2>1. t => x \in B
    BY <1>1, <1>15, <1>16, TaskIs
  <2> QED BY <2>1, ShortQueue DEF IfThen
<1>18. c = TaskId
  BY <1>15, <1>16, <1>17 DEF TaskId, IfThen
<1>19. InService = Join(Join(Join(a, b), c), d)
  BY <1>5, <1>6, <1>7, <1>9, <1>10, <1>11, <1>12, <1>13, <1>14, <1>18, InServiceIs
<1>20. PICK ab \in Seq(B) : ab = Join(a, b)
  BY JoinType
<1>21. PICK abc \in Seq(B) : abc = Join(ab, c)
  BY JoinType
<1>22. PICK E : E = Elements(InService)
  OBVIOUS
<1>23. Ascending(P, c0, abc) /\ E = Elements(abc) \cup Elements(d)
  <2>1. Ascending(P, c0, Join(abc, d))
    BY <1>19, <1>20, <1>21
  <2>2. Ascending(P, c0, abc) /\ Elements(Join(abc, d)) = Elements(abc) \cup Elements(d)
    BY <2>1, JoinApart
  <2> QED BY <1>19, <1>20, <1>21, <1>22, <2>2
<1>24. /\ Ascending(P, c0, ab) /\ Elements(abc) = Elements(ab) \cup Elements(c)
       /\ \A y \in Elements(ab) : \A z \in Elements(c) : y # z
  <2>1. Ascending(P, c0, Join(ab, c))
    BY <1>21, <1>23
  <2> QED BY <1>21, <2>1, JoinApart
<1>25. Elements(ab) = Elements(a) \cup Elements(b)
  <2>1. Ascending(P, c0, Join(a, b))
    BY <1>20, <1>24
  <2> QED BY <1>20, <2>1, JoinApart
<1>26. t => x \in Elements(c)
  BY <1>17 DEF Elements, IfThen
<1>27. /\ \A y \in Elements(wb) : y \in W /\ L[y] \in Elements(a)
       /\ \A y \in Elements(ff) : y \in R /\ G[y] \in Elements(b)
       /\ \A y \in Elements(bf) : y \in D /\ I[y] \in Elements(d)
  BY <1>12, <1>13, <1>14, MapElements
<1>28. ASSUME NEW r \in Items(wb) \cup Elements(ff)
       PROVE  r \in R /\ r.bid \in Elements(ab)
  <2>1. CASE r \in Items(wb)
    <3>1. PICK i \in DOMAIN wb : r = wb[i].item
      BY <2>1 DEF Items
    <3>2. wb[i] \in Elements(wb)
      BY DEF Elements
    <3>3. wb[i] \in W /\ L[wb[i]] \in Elements(a)
      BY <1>27, <3>2
    <3> QED BY <1>8, <1>25, <3>1, <3>3
  <2>2. CASE r \in Elements(ff)
    BY <1>8, <1>25, <1>27, <2>2
  <2> QED BY <2>1, <2>2
<1>29. \A y \in Elements(bf) : y \in D /\ y.bid \in E
  BY <1>8, <1>23, <1>27
<1>30. \A r \in Items(wb) \cup Elements(ff) : r \in R /\ r.bid \in E /\ (t => r.bid # x)
  BY <1>23, <1>24, <1>26, <1>28
<1>31. t => x \in E
  BY <1>23, <1>24, <1>26
<1> QED BY <1>3, <1>4, <1>9, <1>10, <1>11, <1>15, <1>16, <1>22, <1>29, <1>30, <1>31
       DEF ServiceParts
-----------------------------------------------------------------------------
(* The order of the walk as a function, and those in service against it.   *)

PositionsOf(cur) == [b \in BucketIds |-> Position(cur, b)]

LEMMA ServiceIs ==
  ASSUME cloud \in Clouds, NEW cur \in Points, NEW w \in Nat, QueueTypes,
         NEW P, P = PositionsOf(cur), NEW c, c = Carried(w)
  PROVE  ServiceInv(cur, w) <=> Ascending(P, c, InService)
<1>1. PICK q \in Seq(BucketIds) : q = InService
  BY InServiceType
<1>2. \A i \in DOMAIN q : q[i] \in BucketIds
  BY LenProperties, ElementOfSeq
<1>3. \A b \in BucketIds : P[b] = Position(cur, b) /\ P[b] \in Nat
  <2>1. LastBucket(cloud) \in Nat /\ \A b \in BucketIds : Position(cur, b) \in 0..LastBucket(cloud)
    BY Walk, CloudFacts
  <2> QED BY <2>1 DEF PositionsOf
<1>4. \A i \in DOMAIN q : P[q[i]] = Position(cur, q[i]) /\ P[q[i]] \in Nat
  BY <1>2, <1>3
<1> QED BY <1>1, <1>4 DEF ServiceInv, Ascending

LEMMA ServiceIsNext ==
  ASSUME NEW cur \in Points, NEW w \in Nat, NEW P, NEW c
  PROVE  (cloud \in Clouds /\ QueueTypes /\ P = PositionsOf(cur) /\ c = Carried(w))'
           => (ServiceInv(cur, w) <=> Ascending(P, c, InService))'
<1>1. (cloud \in Clouds /\ QueueTypes /\ P = PositionsOf(cur) /\ c = Carried(w))
        => (ServiceInv(cur, w) <=> Ascending(P, c, InService))
  BY ServiceIs
<1> QED BY <1>1, PTL

(* The buckets of the walk were not visited before it. *)
WalkIds(cur, c) ==
  /\ \A b \in Undecided : b \in BucketIds /\ Position(cur, b) >= c
  /\ \A d \in Waiting : d \in Decision /\ Position(cur, d.bid) >= c
  /\ \A i \in DOMAIN decided : i # 1 => Position(cur, decided[i].bid) > c
  /\ decided # <<>> => \A i \in DOMAIN cd : Position(cur, cd[i].item.bid) > c

LEMMA WalkVisits ==
  ASSUME cloud \in Clouds, NEW cur \in Points, NEW w \in Nat, QueueTypes, WalkInv(cur, w),
         NEW c \in Nat, c = Carried(w)
  PROVE  WalkIds(cur, c)
<1>1. PICK l \in Nat : l = LastBucket(cloud) /\ w <= l + 1
  BY CloudFacts DEF WalkInv
<1>2. PICK n1 \in Nat : n1 = Len(decided) /\ DOMAIN decided = 1..n1
  BY LenProperties DEF QueueTypes
<1>3. PICK n2 \in Nat : n2 = Len(cd) /\ DOMAIN cd = 1..n2
  BY LenProperties DEF QueueTypes
<1>4. PICK n3 \in Nat : n3 = Len(fetched) /\ DOMAIN fetched = 1..n3
  BY LenProperties DEF QueueTypes
<1>5. PICK n4 \in Nat : n4 = Len(fetching) /\ DOMAIN fetching = 1..n4
  BY LenProperties DEF QueueTypes
<1>6. c = w - n4 - n3 - n2 - n1
  BY <1>2, <1>3, <1>4, <1>5 DEF Carried
<1>7. ASSUME NEW k \in Nat, k < c + n1 + n2 + n3 + n4
      PROVE  VisitOf(cur, k) \in BucketIds /\ Position(cur, VisitOf(cur, k)) = k
  <2>1. k \in 0..l
    BY <1>1, <1>6, <1>7
  <2> QED BY <1>1, <2>1, Walk
<1>8. ASSUME NEW i \in 1..n1
      PROVE  Position(cur, decided[i].bid) = c + i - 1
  <2>1. decided[i].bid = VisitOf(cur, c + i - 1)
    BY <1>2 DEF WalkInv
  <2>2. c + i - 1 \in Nat /\ c + i - 1 < c + n1 + n2 + n3 + n4
    OBVIOUS
  <2> QED BY <1>7, <2>1, <2>2
<1>9. ASSUME NEW i \in 1..n2
      PROVE  Position(cur, cd[i].item.bid) = c + n1 + i - 1
  <2>1. cd[i].item.bid = VisitOf(cur, c + n1 + i - 1)
    BY <1>2, <1>3 DEF WalkInv
  <2>2. c + n1 + i - 1 \in Nat /\ c + n1 + i - 1 < c + n1 + n2 + n3 + n4
    OBVIOUS
  <2> QED BY <1>7, <2>1, <2>2
<1>10. ASSUME NEW i \in 1..n3
       PROVE  fetched[i] \in BucketIds /\ Position(cur, fetched[i]) = c + n1 + n2 + i - 1
  <2>1. fetched[i] = VisitOf(cur, c + n1 + n2 + i - 1)
    BY <1>2, <1>3, <1>4 DEF WalkInv
  <2>2. c + n1 + n2 + i - 1 \in Nat /\ c + n1 + n2 + i - 1 < c + n1 + n2 + n3 + n4
    OBVIOUS
  <2> QED BY <1>7, <2>1, <2>2
<1>11. ASSUME NEW i \in 1..n4
       PROVE  /\ fetching[i].item \in BucketIds
              /\ Position(cur, fetching[i].item) = c + n1 + n2 + n3 + i - 1
  <2>1. fetching[i].item = VisitOf(cur, c + n1 + n2 + n3 + i - 1)
    BY <1>2, <1>3, <1>4, <1>5 DEF WalkInv
  <2>2. c + n1 + n2 + n3 + i - 1 \in Nat /\ c + n1 + n2 + n3 + i - 1 < c + n1 + n2 + n3 + n4
    OBVIOUS
  <2> QED BY <1>7, <2>1, <2>2
<1>12. ASSUME NEW b \in Undecided PROVE b \in BucketIds /\ Position(cur, b) >= c
  <2>1. CASE b \in Items(fetching)
    <3>1. PICK i \in 1..n4 : b = fetching[i].item
      BY <1>5, <2>1 DEF Items
    <3> QED BY <1>11, <3>1
  <2>2. CASE b \in Elements(fetched)
    <3>1. PICK i \in 1..n3 : b = fetched[i]
      BY <1>4, <2>2 DEF Elements
    <3> QED BY <1>10, <3>1
  <2> QED BY <1>12, <2>1, <2>2 DEF Undecided
<1>13. ASSUME NEW d \in Waiting PROVE d \in Decision /\ Position(cur, d.bid) >= c
  <2>1. CASE d \in Items(cd)
    <3>1. PICK i \in 1..n2 : d = cd[i].item
      BY <1>3, <2>1 DEF Items
    <3>2. PICK V : V = TimedOf(Decision)
      OBVIOUS
    <3>3. cd \in Seq(V)
      BY <3>2 DEF QueueTypes
    <3>4. cd[i] \in V
      BY <1>3, <3>3, ElementOfSeq
    <3>5. d \in Decision
      BY <3>1, <3>2, <3>4 DEF TimedOf
    <3> QED BY <1>9, <3>1, <3>5
  <2>2. CASE d \in Elements(decided)
    <3>1. PICK i \in 1..n1 : d = decided[i]
      BY <1>2, <2>2 DEF Elements
    <3>2. d \in Decision
      BY <1>2, <3>1, ElementOfSeq DEF QueueTypes
    <3> QED BY <1>8, <3>1, <3>2
  <2> QED BY <1>13, <2>1, <2>2 DEF Waiting
<1>14. \A i \in DOMAIN decided : i # 1 => Position(cur, decided[i].bid) > c
  BY <1>2, <1>8
<1>15. decided # <<>> => \A i \in DOMAIN cd : Position(cur, cd[i].item.bid) > c
  <2>1. decided # <<>> => n1 >= 1
    BY <1>2, EmptySeq DEF QueueTypes
  <2> QED BY <1>3, <1>9, <2>1
<1> QED BY <1>12, <1>13, <1>14, <1>15 DEF WalkIds

-----------------------------------------------------------------------------
(* Those in service in one cycle.                                          *)

ServiceStep(cur, v) ==
  /\ ServiceInv(cur, v)'
  /\ (outstanding = Len(InService))'
  /\ \A b : b \in Elements(InService)'
              <=> \/ b \in Elements(InService) /\ ~(Due(writebacks) /\ b = writebacks[1].item.bid)
                  \/ HeadIssues(Ready) /\ b = decided[1].bid
  /\ Due(writebacks) => writebacks[1].item.bid \in Elements(InService)

LEMMA AscendingUp ==
  ASSUME NEW P, NEW c \in Nat, NEW e \in Nat, c <= e, NEW q, Ascending(P, c, q)
  PROVE  Ascending(P, e, q)
BY DEF Ascending

LEMMA ServiceKept ==
  ASSUME cloud \in Clouds, NEW cur \in Points, current = cur, NEW w \in Nat, pos = w,
         QueueTypes, QueueTypes', WalkInv(cur, w), ServiceInv(cur, w),
         outstanding = Len(InService), NEW moved, CycleWith(moved), NEW v, v = Walked
  PROVE  ServiceStep(cur, v)
<1>1. PICK B : B = BucketIds
  OBVIOUS
<1>2. cloud' = cloud
  BY DEF CycleWith
<1>3. PICK P : P = PositionsOf(cur)
  OBVIOUS
<1>4. P = PositionsOf(cur)'
  BY <1>2, <1>3 DEF PositionsOf, BucketIds, Position, Winner
<1>5. PICK c \in Nat : c = Carried(w)
  BY DEF WalkInv
<1>6. PICK dw \in BOOLEAN : dw <=> Due(writebacks)
  OBVIOUS
<1>7. PICK hi \in BOOLEAN : hi <=> HeadIssues(Ready)
  OBVIOUS
<1>8. PICK hl \in BOOLEAN : hl <=> HeadLeaves(Ready)
  OBVIOUS
<1>9. hi => hl
  BY <1>7, <1>8 DEF HeadIssues
<1>10. v \in Nat
  BY FetchingMoves
<1>11. PICK e : e = Carried(v)'
  OBVIOUS
<1>12. e = c + Flag(hl) /\ (hl => decided[1].bid = VisitOf(cur, c))
  BY <1>5, <1>8, <1>11, WalkKept DEF Flag
<1>13. PICK x : x = writebacks[1].item.bid
  OBVIOUS
<1>14. PICK y : y = decided[1].bid
  OBVIOUS
<1>15. dw => x \in B
  <2>1. SUFFICES ASSUME dw PROVE x \in B
    OBVIOUS
  <2>2. PICK R : R = Far
    OBVIOUS
  <2>3. writebacks \in Seq(TimedOf(R))
    BY <2>2 DEF QueueTypes
  <2>4. writebacks[1].item \in R
    BY <1>6, <2>1, <2>3, DueHead
  <2> QED BY <1>1, <1>13, <2>2, <2>4 DEF Far
<1>16. hl => y \in B /\ P[y] = c
  <2>1. SUFFICES ASSUME hl PROVE y \in B /\ P[y] = c
    OBVIOUS
  <2>2. decided # <<>>
    BY <1>8, <2>1 DEF HeadLeaves
  <2>3. PICK D : D = Decision
    OBVIOUS
  <2>4. decided \in Seq(D)
    BY <2>3 DEF QueueTypes
  <2>5. Len(decided) \in Nat \ {0} /\ decided[1] \in D
    BY <2>2, <2>4, HeadOf
  <2>6. y \in B
    BY <1>1, <1>14, <2>3, <2>5 DEF Decision
  <2>7. c \in 0..LastBucket(cloud)
    <3>1. PICK l \in Nat : l = LastBucket(cloud) /\ BucketCount = l + 1
      BY CloudFacts
    <3>2. Len(cd) \in Nat /\ Len(fetched) \in Nat /\ Len(fetching) \in Nat /\ w <= l + 1
      BY <3>1, LenProperties DEF QueueTypes, WalkInv
    <3>3. c = w - Len(fetching) - Len(fetched) - Len(cd) - Len(decided)
      BY <1>5 DEF Carried
    <3> QED BY <2>5, <3>1, <3>2, <3>3
  <2>8. Position(cur, y) = c
    BY <1>12, <1>14, <2>1, <2>7, Walk
  <2> QED BY <1>1, <1>3, <2>6, <2>8 DEF PositionsOf
<1>17. PICK q : q = InService
  OBVIOUS
<1>18. PICK s : s = InService'
  OBVIOUS
<1>19. PICK r \in Seq(B) : q = Join(IfThen(dw, x), r) /\ s = Join(r, IfThen(hi, y))
  <2>1. PICK r \in Seq(BucketIds) :
           /\ InService  = Join(IfThen(Due(writebacks), writebacks[1].item.bid), r)
           /\ InService' = Join(r, IfThen(HeadIssues(Ready), decided[1].bid))
    BY InServiceMoves
  <2>2. /\ IfThen(dw, x) = IfThen(Due(writebacks), writebacks[1].item.bid)
        /\ IfThen(hi, y) = IfThen(HeadIssues(Ready), decided[1].bid)
    BY <1>6, <1>7, <1>13, <1>14 DEF IfThen
  <2> QED BY <1>1, <1>17, <1>18, <2>1, <2>2
<1>20. Ascending(P, c, q)
  BY <1>3, <1>5, <1>17, ServiceIs
<1>21. (hi => y \in B) /\ (hi => P[y] = c)
  BY <1>9, <1>16
<1>28. LineStep(B, P, c, q, s, dw, hi, x, y)
  BY <1>15, <1>19, <1>20, <1>21, LineMoves
<1>22. /\ s \in Seq(B) /\ q \in Seq(B)
       /\ Ascending(P, c + Flag(hi), s)
       /\ Len(s) = Len(q) - Flag(dw) + Flag(hi)
       /\ \A b : b \in Elements(s) <=> \/ b \in Elements(q) /\ ~(dw /\ b = x)
                                       \/ hi /\ b = y
       /\ dw => x \in Elements(q)
  BY <1>28 DEF LineStep
<1>23. Ascending(P, e, s)
  <2>1. Flag(hi) \in {0, 1} /\ Flag(hl) \in {0, 1} /\ Flag(hi) <= Flag(hl)
    BY <1>9 DEF Flag
  <2>2. c + Flag(hi) \in Nat /\ e \in Nat /\ c + Flag(hi) <= e
    BY <1>12, <2>1
  <2> QED BY <1>22, <2>2, AscendingUp
<1>24. ServiceInv(cur, v)'
  <2>1. (cloud \in Clouds /\ QueueTypes /\ P = PositionsOf(cur) /\ e = Carried(v))'
    BY <1>2, <1>4, <1>11
  <2>2. (ServiceInv(cur, v) <=> Ascending(P, e, InService))'
    BY <1>10, <2>1, ServiceIsNext
  <2>3. Ascending(P, e, InService)'
    BY <1>18, <1>23 DEF Ascending
  <2> QED BY <2>2, <2>3
<1>25. (outstanding = Len(InService))'
  <2>1. outstanding' = Len(q) - Flag(dw) + Flag(hi)
    BY <1>6, <1>7, <1>17 DEF CycleWith, Step, Pipelines, Ready, Flag
  <2> QED BY <1>18, <1>22, <2>1
<1>26. \A b : b \in Elements(InService)'
                <=> \/ b \in Elements(InService) /\ ~(Due(writebacks) /\ b = writebacks[1].item.bid)
                    \/ HeadIssues(Ready) /\ b = decided[1].bid
  <2>1. Elements(s) = Elements(InService)' /\ Elements(q) = Elements(InService)
    BY <1>17, <1>18 DEF Elements
  <2> QED BY <1>6, <1>7, <1>13, <1>14, <1>22, <2>1
<1>27. Due(writebacks) => writebacks[1].item.bid \in Elements(InService)
  BY <1>6, <1>13, <1>17, <1>22
<1> QED BY <1>24, <1>25, <1>26, <1>27 DEF ServiceStep
-----------------------------------------------------------------------------
(* A decision stands until it is carried out.                              *)

(* One waits on, later than the head that leaves, or is made now. *)
WaitingStep(cur, c) ==
  \A d \in Waiting' :
    \/ Injects /\ d = Decide(table', fetched[1])
    \/ d \in Waiting /\ (HeadLeaves(Ready) => Position(cur, d.bid) > c)

LEMMA ElementsMove ==
  ASSUME NEW V, NEW q \in Seq(V), NEW one \in {0, 1}, NEW m \in {0, 1}, NEW x, NEW r,
         PassOn(V, q, one, m, x, r)
  PROVE  \A y \in Elements(r) : \/ m = 1 /\ y = x
                                \/ \E i \in DOMAIN q : y = q[i] /\ (one = 1 => i # 1)
<1>1. PICK l \in Nat : l = Len(q) /\ DOMAIN q = 1..l
  BY LenProperties
<1>2. /\ r \in Seq(V) /\ Len(r) = l - one + m /\ l >= one
      /\ \A i \in 1..l - one : r[i] = q[i + one]
      /\ m = 1 => r[l - one + 1] = x
  BY <1>1 DEF PassOn
<1>3. DOMAIN r = 1..l - one + m
  BY <1>2, LenProperties
<1>4. ASSUME NEW j \in 1..l - one + m
      PROVE  \/ m = 1 /\ r[j] = x
             \/ \E i \in 1..l : r[j] = q[i] /\ (one = 1 => i # 1)
  <2>1. CASE j <= l - one
    <3>1. j \in 1..l - one /\ j + one \in 1..l /\ (one = 1 => j + one # 1)
      BY <1>2, <2>1
    <3> QED BY <1>2, <3>1
  <2>2. CASE ~(j <= l - one)
    <3>1. m = 1 /\ j = l - one + 1
      BY <1>2, <2>2
    <3> QED BY <1>2, <3>1
  <2> QED BY <2>1, <2>2
<1> QED BY <1>1, <1>3, <1>4 DEF Elements

LEMMA ItemsMove ==
  ASSUME NEW V, NEW q \in Seq(TimedOf(V)), NEW one \in {0, 1}, NEW m \in {0, 1}, NEW x, NEW r,
         TimedPassOn(V, q, one, m, x, r)
  PROVE  \A y \in Items(r) : \/ m = 1 /\ y = x
                             \/ \E i \in DOMAIN q : y = q[i].item /\ (one = 1 => i # 1)
<1>1. PICK l \in Nat : l = Len(q) /\ DOMAIN q = 1..l
  BY LenProperties
<1>2. /\ r \in Seq(TimedOf(V)) /\ Len(r) = l - one + m /\ l >= one
      /\ \A i \in 1..l - one : r[i].item = q[i + one].item
      /\ m = 1 => r[l - one + 1].item = x
  BY <1>1 DEF TimedPassOn
<1>3. DOMAIN r = 1..l - one + m
  BY <1>2, LenProperties
<1>4. ASSUME NEW j \in 1..l - one + m
      PROVE  \/ m = 1 /\ r[j].item = x
             \/ \E i \in 1..l : r[j].item = q[i].item /\ (one = 1 => i # 1)
  <2>1. CASE j <= l - one
    <3>1. j \in 1..l - one /\ j + one \in 1..l /\ (one = 1 => j + one # 1)
      BY <1>2, <2>1
    <3> QED BY <1>2, <3>1
  <2>2. CASE ~(j <= l - one)
    <3>1. m = 1 /\ j = l - one + 1
      BY <1>2, <2>2
    <3> QED BY <1>2, <3>1
  <2> QED BY <2>1, <2>2
<1> QED BY <1>1, <1>3, <1>4 DEF Items

LEMMA WaitingMoves ==
  ASSUME cloud \in Clouds, current \in Points, QueueTypes, NEW cur, NEW c, WalkIds(cur, c),
         NEW moved, CycleWith(moved)
  PROVE  WaitingStep(cur, c)
<1>1. PICK D : D = Decision
  OBVIOUS
<1>2. PICK dq \in Seq(D) : dq = decided
  BY <1>1 DEF QueueTypes
<1>3. PICK cq \in Seq(TimedOf(D)) : cq = cd
  BY <1>1 DEF QueueTypes
<1>4. PICK one \in {0, 1} : one = Flag(HeadLeaves(Ready)) /\ (one = 1 <=> HeadLeaves(Ready))
  BY DEF Flag
<1>5. PICK due \in {0, 1} : due = Flag(Due(cd)) /\ (due = 1 <=> Due(cd))
  BY DEF Flag
<1>6. PICK inj \in {0, 1} : inj = Flag(Injects) /\ (inj = 1 <=> Injects)
  BY DEF Flag
<1>7. PICK x : x = cd[1].item
  OBVIOUS
<1>8. PICK y : y = Decide(table', fetched[1])
  OBVIOUS
<1>9. PICK dr : dr = decided'
  OBVIOUS
<1>10. PICK cr : cr = cd'
  OBVIOUS
<1>11. PassOn(D, dq, one, due, x, dr)
  BY <1>1, <1>2, <1>4, <1>5, <1>7, <1>9, DecidedMoves
<1>12. TimedPassOn(D, cq, due, inj, y, cr)
  BY <1>1, <1>3, <1>5, <1>6, <1>8, <1>10, CdMoves
<1>13. \A z \in Elements(dr) : \/ due = 1 /\ z = x
                               \/ \E i \in DOMAIN dq : z = dq[i] /\ (one = 1 => i # 1)
  BY <1>11, ElementsMove
<1>14. \A z \in Items(cr) : \/ inj = 1 /\ z = y
                            \/ \E i \in DOMAIN cq : z = cq[i].item /\ (due = 1 => i # 1)
  BY <1>12, ItemsMove
<1>15. Waiting' = Items(cr) \cup Elements(dr)
  BY <1>9, <1>10 DEF Waiting, Items, Elements
<1>16. Waiting = Items(cq) \cup Elements(dq)
  BY <1>2, <1>3 DEF Waiting
<1>17. /\ \A i \in DOMAIN dq : i # 1 => Position(cur, dq[i].bid) > c
       /\ one = 1 => \A i \in DOMAIN cq : Position(cur, cq[i].item.bid) > c
  BY <1>2, <1>3, <1>4 DEF WalkIds, HeadLeaves
<1>18. due = 1 => \E i \in DOMAIN cq : x = cq[i].item
  <2>1. SUFFICES ASSUME due = 1 PROVE 1 \in DOMAIN cq
    BY <1>3, <1>7
  <2>2. Len(cq) \in Nat \ {0}
    BY <1>3, <1>5, <2>1, DueHead
  <2>3. DOMAIN cq = 1..Len(cq)
    BY LenProperties
  <2> QED BY <2>2, <2>3
<1>19. ASSUME NEW i \in DOMAIN cq
       PROVE  cq[i].item \in Waiting /\ (HeadLeaves(Ready) => Position(cur, cq[i].item.bid) > c)
  BY <1>4, <1>16, <1>17 DEF Items
<1>20. ASSUME NEW i \in DOMAIN dq, one = 1 => i # 1
       PROVE  dq[i] \in Waiting /\ (HeadLeaves(Ready) => Position(cur, dq[i].bid) > c)
  BY <1>4, <1>16, <1>17, <1>20 DEF Elements
<1>21. ASSUME NEW d \in Waiting'
       PROVE  \/ Injects /\ d = Decide(table', fetched[1])
              \/ d \in Waiting /\ (HeadLeaves(Ready) => Position(cur, d.bid) > c)
  <2>1. CASE d \in Items(cr)
    <3>1. CASE inj = 1 /\ d = y
      BY <1>6, <1>8, <3>1
    <3>2. CASE \E i \in DOMAIN cq : d = cq[i].item
      BY <1>19, <3>2
    <3> QED BY <1>14, <2>1, <3>1, <3>2
  <2>2. CASE d \in Elements(dr)
    <3>1. CASE due = 1 /\ d = x
      BY <1>18, <1>19, <3>1
    <3>2. CASE \E i \in DOMAIN dq : d = dq[i] /\ (one = 1 => i # 1)
      BY <1>20, <3>2
    <3> QED BY <1>13, <2>2, <3>1, <3>2
  <2> QED BY <1>15, <1>21, <2>1, <2>2
<1> QED BY <1>21 DEF WaitingStep

(* The entries of the other buckets stay. *)
TableStands ==
  \A b \in BucketIds :
    b \notin Elements(InService) /\ ~(HeadLeaves(Ready) /\ b = decided[1].bid)
      => table'[b] = table[b]

LEMMA TableStays ==
  ASSUME QueueTypes, NEW moved, CycleWith(moved),
         Due(writebacks) => writebacks[1].item.bid \in Elements(InService)
  PROVE  TableStands
<1>1. ASSUME NEW b \in BucketIds, b \notin Elements(InService),
             ~(HeadLeaves(Ready) /\ b = decided[1].bid)
      PROVE  table'[b] = table[b]
  <2>1. table'[b] = CommittedEntry(b)
    BY <1>1, TableMoves
  <2>2. CommittedEntry(b) = table[b]
    BY <1>1 DEF CommittedEntry
  <2> QED BY <2>1, <2>2
<1> QED BY <1>1 DEF TableStands

(* Decide makes a decision that stands. *)
LEMMA DecideStands ==
  ASSUME NEW t \in [BucketIds -> Entry], NEW b \in BucketIds, current \in Points,
         sampledCount \in Nat \ {0}
  PROVE  LET d == Decide(t, b)
             e == t[b]
         IN  /\ d.bid = b /\ d.sample = current /\ d.mcnt = Len(e.merges)
             /\ d.kind = "issue" => d.refs = Append(e.merges, current)
             /\ d.kind # "issue" => sampledCount > 1 /\ e.dist < Dist(cloud, e.far, current)
             /\ d.kind = "defer" => Len(e.merges) < MERGE_CAP
             /\ d.kind = "skip" => e.dist < Gap(cloud, current, b)
<1>1. PICK e \in Entry : e = t[b]
  OBVIOUS
<1>2. PICK l \in Nat : l = Len(e.merges)
  BY LenProperties DEF Entry
<1>3. PICK ok \in BOOLEAN : ok <=> e.dist < Dist(cloud, e.far, current)
  OBVIOUS
<1>4. PICK im \in BOOLEAN : im <=> e.dist < Gap(cloud, current, b)
  OBVIOUS
<1>5. PICK k : k = IF sampledCount = 1 \/ ~ok THEN "issue"
                   ELSE IF im THEN "skip" ELSE IF l >= MERGE_CAP THEN "issue" ELSE "defer"
  OBVIOUS
<1>6. PICK d : d = Decide(t, b)
  OBVIOUS
<1>7. d = [bid |-> b, kind |-> k, sample |-> current, mcnt |-> l,
           refs |-> IF k = "issue" THEN Append(e.merges, current) ELSE <<>>]
  BY <1>1, <1>2, <1>3, <1>4, <1>5, <1>6 DEF Decide, ImplicitOk
<1>8. d.bid = b /\ d.sample = current /\ d.mcnt = l /\ d.kind = k
      /\ (k = "issue" => d.refs = Append(e.merges, current))
  BY <1>7
<1>9. MERGE_CAP \in Nat
  BY Sizes
<1>10. /\ k # "issue" => sampledCount > 1 /\ ok
       /\ k = "defer" => l < MERGE_CAP
       /\ k = "skip" => im
  BY <1>2, <1>5, <1>9
<1> QED BY <1>1, <1>2, <1>3, <1>4, <1>6, <1>8, <1>10

LEMMA StandsKept ==
  ASSUME cloud \in Clouds, NEW cur \in Points, current = cur, NEW n \in Nat \ {0},
         sampledCount = n, QueueTypes, NEW c \in Nat, WalkIds(cur, c),
         \A b \in Elements(InService) : Position(cur, b) < c,
         HeadLeaves(Ready) => Position(cur, decided[1].bid) = c,
         TableStands, \A d \in Waiting : Stands(n, cur, d),
         NEW moved, CycleWith(moved)
  PROVE  \A d \in Waiting' : Stands(n, cur, d)'
<1>1. SUFFICES ASSUME NEW d \in Waiting' PROVE Stands(n, cur, d)'
  OBVIOUS
<1>2. cloud' = cloud
  BY DEF CycleWith
<1>3. CASE Injects /\ d = Decide(table', fetched[1])
  <2>1. PICK t \in [BucketIds -> Entry] : t = table'
    BY TableMoves
  <2>2. PICK b \in BucketIds : b = fetched[1]
    <3>1. PICK B : B = BucketIds
      OBVIOUS
    <3>2. fetched \in Seq(B) /\ fetched # <<>>
      BY <1>3, <3>1 DEF QueueTypes, Injects
    <3> QED BY <3>1, <3>2, HeadOf
  <2>3. d = Decide(t, b)
    BY <1>3, <2>1, <2>2 DEF Decide
  <2>4. /\ d.bid = b /\ d.sample = cur /\ d.mcnt = Len(t[b].merges)
        /\ d.kind = "issue" => d.refs = Append(t[b].merges, cur)
        /\ d.kind # "issue" => n > 1 /\ t[b].dist < Dist(cloud, t[b].far, cur)
        /\ d.kind = "defer" => Len(t[b].merges) < MERGE_CAP
        /\ d.kind = "skip" => t[b].dist < Gap(cloud, cur, b)
    BY <2>3, DecideStands
  <2> QED BY <1>2, <2>1, <2>4 DEF Stands
<1>4. CASE d \in Waiting /\ (HeadLeaves(Ready) => Position(cur, d.bid) > c)
  <2>1. d \in Decision /\ Position(cur, d.bid) >= c
    BY <1>4 DEF WalkIds
  <2>2. PICK b \in BucketIds : b = d.bid
    BY <2>1 DEF Decision
  <2>3. Position(cur, b) \in Nat
    <3>1. Position(cur, b) \in 0..LastBucket(cloud)
      BY Walk
    <3> QED BY <3>1, CloudFacts
  <2>4. b \notin Elements(InService)
    BY <2>1, <2>2, <2>3
  <2>5. ~(HeadLeaves(Ready) /\ b = decided[1].bid)
    BY <1>4, <2>2, <2>3
  <2>6. table'[b] = table[b]
    BY <2>4, <2>5 DEF TableStands
  <2>7. Stands(n, cur, d)
    BY <1>4
  <2> QED BY <1>2, <2>2, <2>6, <2>7 DEF Stands
<1>5. WaitingStep(cur, c)
  BY WaitingMoves
<1> QED BY <1>3, <1>4, <1>5 DEF WaitingStep
-----------------------------------------------------------------------------
(* The distances in one cycle.                                             *)

(* The samples so far. *)
AreSampled(n, s) == n \in Nat \ {0} /\ s \in Seq(Points) /\ Len(s) = n

LEMMA SampledPoints ==
  ASSUME NEW n, NEW s, AreSampled(n, s)
  PROVE  \A i \in 1..n : s[i] \in Points
BY ElementOfSeq DEF AreSampled

LEMMA SamePlaces ==
  ASSUME cloud' = cloud
  PROVE  /\ BucketIds' = BucketIds
         /\ \A b : Members(b)' = Members(b) /\ PointPtr(b)' = PointPtr(b)
         /\ \A b, k : Chunk(b, k)' = Chunk(b, k)
         /\ \A t : Reached(t)' = Reached(t)
<1>1. \A b : Members(b)' = Members(b)
  BY DEF Members
<1>2. \A b : PointPtr(b)' = PointPtr(b)
  BY <1>1 DEF PointPtr
<1>3. \A b, k : Chunk(b, k)' = Chunk(b, k)
  BY <1>1, <1>2 DEF Chunk
<1>4. \A t : Reached(t)' = Reached(t)
  BY <1>3 DEF Reached, Finished
<1> QED BY <1>1, <1>2, <1>3, <1>4 DEF BucketIds

(* The distances only get less. *)
LessNow == \A p \in Points : mdt[p] \in Nat /\ mdt'[p] \in Nat /\ mdt'[p] <= mdt[p]

LEMMA KnowsOn ==
  ASSUME cloud \in Clouds, cloud' = cloud, LessNow, NEW n, NEW s, AreSampled(n, s),
         NEW m \in Int, m <= n, NEW p \in Points
  PROVE  /\ Knows(m, s, p) => Knows(m, s, p)'
         /\ \A refs : WillKnow(m, s, p, refs) => WillKnow(m, s, p, refs)'
<1>1. PICK a \in Nat : a = mdt[p]
  BY DEF LessNow
<1>2. PICK z \in Nat : z = mdt'[p] /\ z <= a
  BY <1>1 DEF LessNow
<1>3. \A i \in 1..m : Dist(cloud, p, s[i]) \in Nat
  <2>1. TAKE i \in 1..m
  <2>2. i \in 1..n
    BY DEF AreSampled
  <2>3. s[i] \in Points
    BY <2>2, SampledPoints
  <2> QED BY <2>3, CloudFacts
<1>4. \A i \in 1..m : a <= Dist(cloud, p, s[i]) => z <= Dist(cloud, p, s[i])
  BY <1>2, <1>3
<1>5. Knows(m, s, p) => Knows(m, s, p)'
  BY <1>1, <1>2, <1>4 DEF Knows
<1>6. ASSUME NEW refs, WillKnow(m, s, p, refs) PROVE WillKnow(m, s, p, refs)'
  BY <1>1, <1>2, <1>4, <1>6 DEF WillKnow
<1> QED BY <1>5, <1>6

DistancesStep(n, s, moved) ==
  /\ LessNow
  /\ \A p \in Points :
       /\ Sound(n, s, p)'
       /\ p \in Computed(moved) => Knows(n, s, p)'
       /\ p \notin Computed(moved) => mdt'[p] = mdt[p]

LEMMA DistancesSound ==
  ASSUME cloud \in Clouds, QueueTypes, NEW n, NEW s, AreSampled(n, s),
         \A p \in Points : Sound(n, s, p), task # <<>> => TaskInv(n, s, task[1]),
         NEW moved, CycleWith(moved)
  PROVE  DistancesStep(n, s, moved)
<1>1. cloud' = cloud
  BY DEF CycleWith
<1>2. PICK I \in Nat : I = Inf
  BY CloudFacts
<1>3. LessNow
  <2>1. \A p \in Points : mdt[p] \in 0..I /\ mdt'[p] \in 0..I /\ mdt'[p] <= mdt[p]
    BY <1>2, DistancesMove DEF QueueTypes
  <2> QED BY <2>1 DEF LessNow
<1>4. ASSUME NEW p \in Points, p \notin Computed(moved)
      PROVE  mdt'[p] = mdt[p] /\ Sound(n, s, p)'
  <2>1. mdt'[p] = mdt[p]
    BY <1>4, DistancesMove
  <2>2. Sound(n, s, p)
    OBVIOUS
  <2> QED BY <1>1, <2>1, <2>2 DEF Sound
<1>5. ASSUME NEW p \in Points, p \in Computed(moved)
      PROVE  Sound(n, s, p)' /\ Knows(n, s, p)'
  <2>1. task # <<>> /\ task[1].decision.refs \in Seq(Points)
        /\ mdt'[p] = Nearest(p, task[1].decision.refs)
    BY <1>5, DistancesMove
  <2>2. PICK refs \in Seq(Points) : refs = task[1].decision.refs
    BY <2>1
  <2>3. p \in Members(task[1].decision.bid)
    BY <1>5, <2>1, ComputedIs
  <2>4. AreSamples(n, s, refs) /\ WillKnow(n, s, p, refs)
    BY <2>1, <2>2, <2>3 DEF TaskInv, IssuedInv
  <2>5. PICK a : a = mdt[p]
    OBVIOUS
  <2>6. PICK z : z = mdt'[p]
    OBVIOUS
  <2>7. /\ z <= a
        /\ \A i \in DOMAIN refs : z <= Dist(cloud, p, refs[i])
        /\ \/ z = a
           \/ \E i \in DOMAIN refs : z = Dist(cloud, p, refs[i])
    BY <2>1, <2>2, <2>5, <2>6, NearestIs DEF QueueTypes
  <2>8. Sound(n, s, p)'
    <3>1. CASE z = a
      <4>1. Sound(n, s, p)
        OBVIOUS
      <4> QED BY <1>1, <2>5, <2>6, <3>1, <4>1 DEF Sound
    <3>2. CASE \E i \in DOMAIN refs : z = Dist(cloud, p, refs[i])
      <4>1. \E i \in 1..n : z = Dist(cloud, p, s[i])
        BY <2>4, <3>2 DEF AreSamples
      <4> QED BY <1>1, <2>6, <4>1 DEF Sound
    <3> QED BY <2>7, <3>1, <3>2
  <2>9. Knows(n, s, p)'
    <3>1. ASSUME NEW i \in 1..n PROVE z <= Dist(cloud, p, s[i])
      <4>1. s[i] \in Points /\ \A k \in DOMAIN refs : refs[k] \in Points
        BY SampledPoints, ElementOfSeq, LenProperties
      <4>2. PICK D \in Nat : D = Dist(cloud, p, s[i])
        BY <4>1, CloudFacts
      <4>3. a \in Nat /\ z \in Nat
        BY <1>3, <2>5, <2>6 DEF LessNow
      <4>4. \A k \in DOMAIN refs : Dist(cloud, p, refs[k]) \in Nat
        BY <4>1, CloudFacts
      <4>5. a <= D \/ \E k \in DOMAIN refs : Dist(cloud, p, refs[k]) <= D
        BY <2>4, <2>5, <4>2 DEF WillKnow
      <4>6. CASE a <= D
        BY <2>7, <4>2, <4>3, <4>6
      <4>7. CASE \E k \in DOMAIN refs : Dist(cloud, p, refs[k]) <= D
        BY <2>7, <4>2, <4>3, <4>4, <4>7
      <4> QED BY <4>5, <4>6, <4>7
    <3> QED BY <1>1, <2>6, <3>1 DEF Knows
  <2> QED BY <2>8, <2>9
<1> QED BY <1>3, <1>4, <1>5 DEF DistancesStep

-----------------------------------------------------------------------------
(* What a decision makes of what will be known.                            *)

LEMMA AppendKnows ==
  ASSUME cloud \in Clouds, NEW n, NEW s, AreSampled(n, s), NEW cur \in Points, s[n] = cur,
         NEW p \in Points, NEW refs \in Seq(Points), WillKnow(n - 1, s, p, refs)
  PROVE  WillKnow(n, s, p, Append(refs, cur))
<1>1. PICK k \in Nat : k = Len(refs) /\ DOMAIN refs = 1..k
  BY LenProperties
<1>2. PICK r \in Seq(Points) : r = Append(refs, cur)
  BY AppendProperties
<1>3. Len(r) = k + 1 /\ (\A i \in 1..k : r[i] = refs[i]) /\ r[k + 1] = cur
  BY <1>1, <1>2, AppendProperties
<1>4. DOMAIN r = 1..k + 1
  BY <1>3, LenProperties
<1>5. ASSUME NEW i \in 1..n
      PROVE  \/ mdt[p] <= Dist(cloud, p, s[i])
             \/ \E j \in DOMAIN r : Dist(cloud, p, r[j]) <= Dist(cloud, p, s[i])
  <2>1. CASE i = n
    <3>1. k + 1 \in DOMAIN r
      BY <1>4
    <3>2. Dist(cloud, p, cur) \in Nat
      BY CloudFacts
    <3> QED BY <1>3, <2>1, <3>1, <3>2
  <2>2. CASE i # n
    <3>1. i \in 1..n - 1
      BY <2>2 DEF AreSampled
    <3>2. \/ mdt[p] <= Dist(cloud, p, s[i])
          \/ \E j \in DOMAIN refs : Dist(cloud, p, refs[j]) <= Dist(cloud, p, s[i])
      BY <3>1 DEF WillKnow
    <3>3. \A j \in 1..k : j \in 1..k + 1
      OBVIOUS
    <3> QED BY <1>1, <1>3, <1>4, <3>2, <3>3
  <2> QED BY <2>1, <2>2
<1> QED BY <1>2, <1>5 DEF WillKnow

LEMMA AppendSamples ==
  ASSUME NEW n, NEW s, AreSampled(n, s), NEW cur \in Points, s[n] = cur,
         NEW refs \in Seq(Points), AreSamples(n, s, refs)
  PROVE  AreSamples(n, s, Append(refs, cur))
<1>1. PICK k \in Nat : k = Len(refs) /\ DOMAIN refs = 1..k
  BY LenProperties
<1>2. PICK r \in Seq(Points) : r = Append(refs, cur)
  BY AppendProperties
<1>3. Len(r) = k + 1 /\ (\A i \in 1..k : r[i] = refs[i]) /\ r[k + 1] = cur
  BY <1>1, <1>2, AppendProperties
<1>4. DOMAIN r = 1..k + 1
  BY <1>3, LenProperties
<1>5. n \in 1..n
  BY DEF AreSampled
<1>6. ASSUME NEW j \in 1..k + 1 PROVE \E i \in 1..n : r[j] = s[i]
  <2>1. CASE j = k + 1
    BY <1>3, <1>5, <2>1
  <2>2. CASE j \in 1..k
    BY <1>1, <1>3, <2>2 DEF AreSamples
  <2> QED BY <2>1, <2>2
<1> QED BY <1>2, <1>4, <1>6 DEF AreSamples

(* A skipped bucket learns nothing from the sample. *)
LEMMA SkipKnows ==
  ASSUME cloud \in Clouds, NEW n, NEW s, AreSampled(n, s), NEW cur \in Points, s[n] = cur,
         NEW b \in BucketIds, NEW p \in Members(b), NEW x, NEW d \in Int, Summary(n - 1, s, b, x, d),
         d < Gap(cloud, cur, b), Gap(cloud, cur, b) <= Dist(cloud, p, cur), Gap(cloud, cur, b) \in Int,
         NEW refs \in Seq(Points), WillKnow(n - 1, s, p, refs), mdt[p] \in Nat
  PROVE  WillKnow(n, s, p, refs)
<1>1. Members(b) \subseteq Points
  BY CloudFacts
<1>2. PICK g \in Int : g = Gap(cloud, cur, b)
  OBVIOUS
<1>3. p \in Points /\ Dist(cloud, p, cur) \in Nat
  BY <1>1, CloudFacts
<1>4. \A i \in 1..n : Dist(cloud, p, s[i]) \in Nat
  BY <1>3, SampledPoints, CloudFacts
<1>5. \A i \in 1..n - 1 : i \in 1..n
  BY DEF AreSampled
<1>6. PICK i \in 1..n - 1 : Dist(cloud, p, s[i]) <= d
  <2>1. CASE p = x
    <3>1. PICK i \in 1..n - 1 : d = Dist(cloud, p, s[i])
      BY <2>1 DEF Summary
    <3> QED BY <3>1
  <2>2. CASE p # x
    <3>1. PICK i \in 1..n - 1 : Better(d, x, Dist(cloud, p, s[i]), p)
      BY <2>2 DEF Summary
    <3>2. Dist(cloud, p, s[i]) \in Nat
      BY <1>4, <1>5
    <3>3. Dist(cloud, p, s[i]) <= d
      BY <3>1, <3>2 DEF Better
    <3> QED BY <3>3
  <2> QED BY <2>1, <2>2
<1>7. Dist(cloud, p, s[i]) <= Dist(cloud, p, s[n])
  BY <1>2, <1>3, <1>4, <1>5, <1>6
<1>8. \A k \in DOMAIN refs : Dist(cloud, p, refs[k]) \in Nat
  <2>1. \A k \in DOMAIN refs : refs[k] \in Points
    BY ElementOfSeq, LenProperties
  <2> QED BY <1>3, <2>1, CloudFacts
<1>9. ASSUME NEW j \in 1..n
      PROVE  \/ mdt[p] <= Dist(cloud, p, s[j])
             \/ \E k \in DOMAIN refs : Dist(cloud, p, refs[k]) <= Dist(cloud, p, s[j])
  <2>1. CASE j = n
    <3>1. \/ mdt[p] <= Dist(cloud, p, s[i])
          \/ \E k \in DOMAIN refs : Dist(cloud, p, refs[k]) <= Dist(cloud, p, s[i])
      BY DEF WillKnow
    <3>2. PICK a \in Nat : a = Dist(cloud, p, s[i])
      BY <1>4, <1>5
    <3>3. PICK z \in Nat : z = Dist(cloud, p, s[n]) /\ a <= z
      BY <1>3, <1>7, <3>2
    <3>4. CASE mdt[p] <= a
      BY <2>1, <3>3, <3>4
    <3>5. CASE \E k \in DOMAIN refs : Dist(cloud, p, refs[k]) <= a
      <4>1. PICK k \in DOMAIN refs : Dist(cloud, p, refs[k]) <= a
        BY <3>5
      <4>2. Dist(cloud, p, refs[k]) <= z
        BY <1>8, <3>3, <4>1
      <4> QED BY <2>1, <3>3, <4>2
    <3> QED BY <3>1, <3>2, <3>4, <3>5
  <2>2. CASE j # n
    <3>1. j \in 1..n - 1
      BY <2>2 DEF AreSampled
    <3> QED BY <3>1 DEF WillKnow
  <2> QED BY <2>1, <2>2
<1> QED BY <1>9 DEF WillKnow

(* The sample is farther off than the far point's distance: it is the far  *)
(* point still.                                                            *)
LEMMA SummaryOn ==
  ASSUME cloud \in Clouds, NEW n, NEW s, AreSampled(n, s), NEW cur \in Points, s[n] = cur,
         NEW b \in BucketIds, NEW x, NEW d \in Int, Summary(n - 1, s, b, x, d),
         d < Dist(cloud, x, cur)
  PROVE  Summary(n, s, b, x, d)
<1>1. x \in Points
  BY CloudFacts DEF Summary
<1>2. PICK D \in Nat : D = Dist(cloud, x, cur)
  BY <1>1, CloudFacts
<1>3. \A i \in 1..n - 1 : i \in 1..n
  BY DEF AreSampled
<1>4. \A i \in 1..n : i = n \/ i \in 1..n - 1
  BY DEF AreSampled
<1>5. \A i \in 1..n : d <= Dist(cloud, x, s[i])
  BY <1>2, <1>4 DEF Summary
<1> QED BY <1>3, <1>5 DEF Summary
-----------------------------------------------------------------------------
(* The entries in one cycle.                                               *)

(* What is known when a cycle's effect on the data is asked for. *)
CycleFacts(n, cur, c, s, v, moved) ==
  /\ cloud \in Clouds /\ cloud' = cloud /\ cur \in Points /\ c \in Nat
  /\ AreSampled(n, s) /\ s[n] = cur
  /\ QueueTypes /\ CycleWith(moved) /\ moved \subseteq Pending
  /\ ServiceParts /\ ServiceStep(cur, v)
  /\ \A b \in Elements(InService) : b \in BucketIds /\ Position(cur, b) < c
  /\ Carried(v)' = c + Flag(HeadLeaves(Ready))
  /\ HeadLeaves(Ready) =>
       /\ decided[1] \in Decision /\ Stands(n, cur, decided[1])
       /\ \A b \in BucketIds : b = decided[1].bid <=> Position(cur, b) = c
  /\ DistancesStep(n, s, moved)

(* An entry that accounts for m samples, of a bucket in service or not. *)
EntryIs(n, m, s, b, e, in) ==
  /\ AreSamples(n, s, e.merges)
  /\ ~in => /\ \A p \in Members(b) : WillKnow(m, s, p, e.merges)
            /\ m >= 1 => Summary(m, s, b, e.far, e.dist)

LEMMA EntryOn ==
  ASSUME NEW n, NEW cur, NEW c, NEW s, NEW v, NEW moved, CycleFacts(n, cur, c, s, v, moved),
         NEW m \in Int, m <= n, NEW b \in BucketIds, NEW e \in Entry, NEW in, EntryIs(n, m, s, b, e, in)
  PROVE  EntryIs(n, m, s, b, e, in)'
<1>1. cloud \in Clouds /\ cloud' = cloud /\ AreSampled(n, s) /\ LessNow
  BY DEF CycleFacts, DistancesStep
<1>2. Members(b)' = Members(b) /\ Members(b) \subseteq Points
  BY <1>1, SamePlaces, CloudFacts
<1>3. AreSamples(n, s, e.merges)'
  BY DEF EntryIs, AreSamples
<1>4. ASSUME ~in, NEW p \in Members(b)' PROVE WillKnow(m, s, p, e.merges)'
  <2>1. WillKnow(m, s, p, e.merges) /\ p \in Points
    BY <1>2, <1>4 DEF EntryIs
  <2> QED BY <1>1, <2>1, KnowsOn
<1>5. ASSUME ~in, m >= 1 PROVE Summary(m, s, b, e.far, e.dist)'
  <2>1. Summary(m, s, b, e.far, e.dist)
    BY <1>5 DEF EntryIs
  <2> QED BY <1>1, <1>2, <2>1 DEF Summary
<1> QED BY <1>3, <1>4, <1>5 DEF EntryIs

(* The bucket whose decision is carried out. *)
LEMMA EntryDecided ==
  ASSUME NEW n, NEW cur, NEW c, NEW s, NEW v, NEW moved, CycleFacts(n, cur, c, s, v, moved),
         NEW d \in Decision, NEW b \in BucketIds, d.bid = b, Stands(n, cur, d),
         NEW e \in Entry, e = table[b], EntryIs(n, n - 1, s, b, e, FALSE),
         NEW in \in BOOLEAN, d.kind = "issue" => in
  PROVE  EntryIs(n, n, s, b, DecidedEntry(e, d), in)
<1>1. cloud \in Clouds /\ AreSampled(n, s) /\ s[n] = cur /\ cur \in Points /\ LessNow
  BY DEF CycleFacts, DistancesStep
<1>2. PICK f \in Entry : /\ f = DecidedEntry(e, d) /\ f.far = e.far /\ f.dist = e.dist
                         /\ f.merges = IF d.kind = "issue" THEN <<>>
                                       ELSE IF d.kind = "defer" THEN Append(e.merges, d.sample)
                                       ELSE e.merges
  BY DecidedEntryType
<1>3. e.merges \in Seq(Points) /\ e.dist \in Int /\ d.kind \in {"issue", "defer", "skip"}
  <2>1. Inf \in Nat
    BY <1>1, CloudFacts
  <2> QED BY <2>1 DEF Entry, Dists, Decision
<1>4. AreSamples(n, s, e.merges) /\ \A p \in Members(b) : WillKnow(n - 1, s, p, e.merges)
  BY DEF EntryIs
<1>5. CASE d.kind = "issue"
  <2>1. in /\ f.merges = <<>>
    BY <1>2, <1>5
  <2>2. AreSamples(n, s, f.merges)
    BY <2>1, EmptySeq DEF AreSamples
  <2> QED BY <1>2, <2>1, <2>2 DEF EntryIs
<1>6. CASE d.kind # "issue"
  <2>1. n > 1 /\ e.dist < Dist(cloud, e.far, cur) /\ d.sample = cur
        /\ (d.kind = "skip" => e.dist < Gap(cloud, cur, b))
    BY <1>6 DEF Stands
  <2>2. n - 1 >= 1
    BY <1>1, <2>1 DEF AreSampled
  <2>3. Summary(n - 1, s, b, e.far, e.dist)
    BY <2>2 DEF EntryIs
  <2>4. Summary(n, s, b, e.far, e.dist)
    BY <1>1, <1>3, <2>1, <2>3, SummaryOn
  <2>5. ASSUME NEW p \in Members(b) PROVE WillKnow(n, s, p, f.merges) /\ AreSamples(n, s, f.merges)
    <3>1. WillKnow(n - 1, s, p, e.merges)
      BY <1>4
    <3>2. p \in Points /\ BucketOf(cloud, p) = b
      BY <1>1 DEF Members
    <3>3. CASE d.kind = "defer"
      <4>1. f.merges = Append(e.merges, cur)
        BY <1>2, <2>1, <3>3
      <4>2. WillKnow(n, s, p, Append(e.merges, cur))
        BY <1>1, <1>3, <3>1, <3>2, AppendKnows
      <4>3. AreSamples(n, s, Append(e.merges, cur))
        BY <1>1, <1>3, <1>4, AppendSamples
      <4> QED BY <4>1, <4>2, <4>3
    <3>4. CASE d.kind = "skip"
      <4>1. f.merges = e.merges
        BY <1>2, <3>4
      <4>2. Gap(cloud, cur, b) <= Dist(cloud, p, cur) /\ Gap(cloud, cur, b) \in Int
        BY <1>1, <3>2, CloudFacts
      <4>3. mdt[p] \in Nat
        BY <1>1, <3>2 DEF LessNow
      <4>4. e.dist < Gap(cloud, cur, b)
        BY <2>1, <3>4
      <4>5. WillKnow(n, s, p, e.merges)
        BY <1>1, <1>3, <2>3, <3>1, <4>2, <4>3, <4>4, SkipKnows
      <4> QED BY <1>4, <4>1, <4>5
    <3> QED BY <1>3, <1>6, <3>3, <3>4
  <2>6. Members(b) # {}
    BY <1>1, CloudFacts
  <2> QED BY <1>2, <2>4, <2>5, <2>6 DEF EntryIs
<1> QED BY <1>5, <1>6

(* A far point that is written back. *)
LEMMA EntryWritten ==
  ASSUME cloud \in Clouds, NEW n, NEW s, AreSampled(n, s), NEW r \in Far, FarInv(n, s, r),
         NEW b, r.bid = b, b \in BucketIds, \A p \in Points : Sound(n, s, p) /\ mdt[p] \in Nat, NEW in
  PROVE  EntryIs(n, n, s, b, [far |-> r.idx, dist |-> r.dist, merges |-> <<>>], in)
<1>1. Members(b) \subseteq Points
  BY CloudFacts
<1>2. n \in Nat \ {0} /\ 1 \in 1..n
  BY DEF AreSampled
<1>3. /\ r.idx \in Members(b) /\ r.dist = mdt[r.idx]
      /\ \A p \in Members(b) : Knows(n, s, p)
      /\ \A p \in Members(b) \ {r.idx} : Better(r.dist, r.idx, mdt[p], p)
  BY DEF FarInv
<1>4. ASSUME NEW p \in Members(b) PROVE \E i \in 1..n : mdt[p] = Dist(cloud, p, s[i])
  <2>1. PICK x \in Points : x = s[1]
    BY <1>2, SampledPoints
  <2>2. PICK I \in Nat : I = Inf /\ Dist(cloud, p, x) < I /\ Dist(cloud, p, x) \in Nat
    BY <1>1, CloudFacts
  <2>3. mdt[p] <= Dist(cloud, p, x) /\ mdt[p] \in Nat
    BY <1>1, <1>2, <1>3, <2>1 DEF Knows
  <2>4. mdt[p] # Inf
    BY <2>2, <2>3
  <2>5. Sound(n, s, p)
    BY <1>1
  <2> QED BY <2>4, <2>5 DEF Sound
<1>5. Summary(n, s, b, r.idx, r.dist)
  <2>1. \A i \in 1..n : r.dist <= Dist(cloud, r.idx, s[i])
    BY <1>3 DEF Knows
  <2>2. \E i \in 1..n : r.dist = Dist(cloud, r.idx, s[i])
    BY <1>3, <1>4
  <2>3. ASSUME NEW p \in Members(b) \ {r.idx}
        PROVE  \E i \in 1..n : Better(r.dist, r.idx, Dist(cloud, p, s[i]), p)
    <3>1. PICK i \in 1..n : mdt[p] = Dist(cloud, p, s[i])
      BY <1>4
    <3>2. Better(r.dist, r.idx, mdt[p], p)
      BY <1>3
    <3> QED BY <3>1, <3>2
  <2> QED BY <1>3, <2>1, <2>2, <2>3 DEF Summary
<1>6. \A p \in Members(b) : WillKnow(n, s, p, <<>>)
  BY <1>3 DEF Knows, WillKnow
<1>7. AreSamples(n, s, <<>>)
  BY EmptySeq DEF AreSamples
<1> QED BY <1>5, <1>6, <1>7 DEF EntryIs

EntriesInv(n, cur, w, s) == \A b \in BucketIds : EntryInv(n, cur, w, s, b)

LEMMA EntriesKept ==
  ASSUME NEW n, NEW cur, NEW w, NEW c, c = Carried(w), NEW s, NEW v, NEW moved,
         CycleFacts(n, cur, c, s, v, moved), EntriesInv(n, cur, w, s),
         \A p \in Points : Sound(n, s, p),
         \A r \in Items(writebacks) \cup Elements(farFifo) : FarInv(n, s, r)
  PROVE  EntriesInv(n, cur, v, s)'
<1>1. /\ cloud \in Clouds /\ cloud' = cloud /\ cur \in Points /\ c \in Nat /\ n \in Nat \ {0}
      /\ AreSampled(n, s) /\ QueueTypes /\ CycleWith(moved) /\ LessNow
  BY DEF CycleFacts, DistancesStep, AreSampled
<1>2. BucketIds' = BucketIds /\ \A b : Position(cur, b)' = Position(cur, b)
  BY <1>1, SamePlaces DEF Position, Winner
<1>3. PICK E : E = Elements(InService)
  OBVIOUS
<1>4. PICK F : F = Elements(InService)'
  OBVIOUS
<1>5. PICK hl \in BOOLEAN : hl <=> HeadLeaves(Ready)
  OBVIOUS
<1>6. PICK hi \in BOOLEAN : hi <=> HeadIssues(Ready)
  OBVIOUS
<1>7. PICK dw \in BOOLEAN : dw <=> Due(writebacks)
  OBVIOUS
<1>8. PICK d : d = decided[1]
  OBVIOUS
<1>9. PICK r : r = writebacks[1].item
  OBVIOUS
<1>10. PICK u : u = Carried(v)'
  OBVIOUS
<1>11. /\ u = c + Flag(hl)
       /\ hl => d \in Decision /\ Stands(n, cur, d) /\ \A b \in BucketIds : b = d.bid <=> Position(cur, b) = c
       /\ \A b \in E : b \in BucketIds /\ Position(cur, b) < c
  BY <1>3, <1>5, <1>8, <1>10 DEF CycleFacts, Flag
<1>12. /\ \A b : b \in F <=> \/ b \in E /\ ~(dw /\ b = r.bid)
                             \/ hi /\ b = d.bid
       /\ dw => r.bid \in E
  BY <1>3, <1>4, <1>6, <1>7, <1>8, <1>9 DEF CycleFacts, ServiceStep
<1>13. hi <=> hl /\ d.kind = "issue"
  BY <1>5, <1>6, <1>8 DEF HeadIssues
<1>14. \A b \in BucketIds : Position(cur, b) \in Nat
  <2>1. LastBucket(cloud) \in Nat
    BY <1>1, CloudFacts
  <2>2. \A b \in BucketIds : Position(cur, b) \in 0..LastBucket(cloud)
    BY <1>1, Walk
  <2> QED BY <2>1, <2>2
<1>15. ASSUME NEW b \in BucketIds PROVE EntryInv(n, cur, v, s, b)'
  <2>1. PICK k \in Nat : k = Position(cur, b)
    BY <1>14
  <2>2. PICK e \in Entry : e = table[b]
    BY <1>1 DEF QueueTypes
  <2>3. PICK in \in BOOLEAN : in <=> b \in E
    OBVIOUS
  <2>4. PICK m : m = IF k < c /\ ~in THEN n ELSE n - 1
    OBVIOUS
  <2>5. EntryIs(n, m, s, b, e, in)
    <3>1. EntryInv(n, cur, w, s, b)
      BY DEF EntriesInv
    <3>2. m = Account(n, cur, w, b)
      BY <1>3, <2>1, <2>3, <2>4 DEF Account, Settled
    <3> QED BY <1>3, <2>2, <2>3, <3>1, <3>2 DEF EntryInv, EntryIs
  <2>6. PICK e2 : e2 = table'[b]
    OBVIOUS
  <2>7. PICK in2 \in BOOLEAN : in2 <=> b \in F
    OBVIOUS
  <2>8. PICK m2 : m2 = IF k < u /\ ~in2 THEN n ELSE n - 1
    OBVIOUS
  <2>9. ASSUME EntryIs(n, m2, s, b, e2, in2)' PROVE EntryInv(n, cur, v, s, b)'
    <3>1. m2 = Account(n, cur, v, b)'
      BY <1>2, <1>4, <1>10, <2>1, <2>7, <2>8 DEF Account, Settled
    <3> QED BY <1>4, <2>6, <2>7, <2>9, <3>1 DEF EntryInv, EntryIs
  <2>10. /\ CommittedEntry(b) = IF dw /\ b = r.bid
                                THEN [far |-> r.idx, dist |-> r.dist, merges |-> <<>>] ELSE e
         /\ e2 = IF hl /\ b = d.bid THEN DecidedEntry(CommittedEntry(b), d) ELSE CommittedEntry(b)
         /\ CommittedEntry(b) \in Entry
    <3>1. CommittedEntry(b) = IF dw /\ b = r.bid
                              THEN [far |-> r.idx, dist |-> r.dist, merges |-> <<>>] ELSE e
      BY <1>7, <1>9, <2>2 DEF CommittedEntry
    <3> QED BY <1>1, <1>5, <1>8, <2>6, <3>1, TableMoves
  <2>11. CASE hl /\ b = d.bid
    <3>1. k = c /\ ~in
      BY <1>11, <2>1, <2>3, <2>11
    <3>2. m = n - 1 /\ EntryIs(n, n - 1, s, b, e, FALSE)
      BY <2>3, <2>4, <2>5, <3>1 DEF EntryIs
    <3>3. e2 = DecidedEntry(e, d)
      BY <1>12, <2>3, <2>10, <2>11, <3>1
    <3>4. in2 <=> d.kind = "issue"
      BY <1>12, <1>13, <2>3, <2>7, <2>11, <3>1
    <3>5. u = c + 1 /\ (d.kind # "issue" => m2 = n)
      BY <1>11, <2>8, <2>11, <3>1, <3>4 DEF Flag
    <3>6. d \in Decision /\ Stands(n, cur, d)
      BY <1>11, <2>11
    <3>7. EntryIs(n, n, s, b, e2, in2)
      BY <2>2, <2>11, <3>2, <3>3, <3>4, <3>6, EntryDecided
    <3>8. e2 \in Entry
      BY <3>3, <3>6, DecidedEntryType
    <3>9. EntryIs(n, m2, s, b, e2, in2) /\ m2 \in Int /\ m2 <= n
      BY <1>1, <2>8, <3>4, <3>5, <3>7 DEF EntryIs
    <3>10. EntryIs(n, m2, s, b, e2, in2)'
      BY <3>8, <3>9, EntryOn
    <3> QED BY <2>9, <3>10
  <2>12. CASE ~(hl /\ b = d.bid) /\ dw /\ b = r.bid
    <3>1. in /\ k < c /\ ~in2
      BY <1>11, <1>12, <1>13, <2>1, <2>3, <2>7, <2>12
    <3>2. m2 = n
      <4>1. u = c \/ u = c + 1
        BY <1>1, <1>11 DEF Flag
      <4>2. k < u
        BY <1>1, <3>1, <4>1
      <4> QED BY <2>8, <3>1, <4>2
    <3>3. r \in Items(writebacks)
      <4>1. PICK V : V = Far
        OBVIOUS
      <4>2. writebacks \in Seq(TimedOf(V))
        BY <1>1, <4>1 DEF QueueTypes
      <4>3. Len(writebacks) \in Nat \ {0}
        BY <1>7, <2>12, <4>2, DueHead
      <4>4. 1 \in DOMAIN writebacks
        BY <4>2, <4>3, LenProperties
      <4> QED BY <1>9, <4>4 DEF Items
    <3>4. r \in Far /\ FarInv(n, s, r)
      BY <3>3 DEF CycleFacts, ServiceParts
    <3>5. EntryIs(n, n, s, b, e2, in2)
      <4>1. e2 = [far |-> r.idx, dist |-> r.dist, merges |-> <<>>]
        BY <2>10, <2>12
      <4>2. \A p \in Points : Sound(n, s, p) /\ mdt[p] \in Nat
        BY <1>1 DEF LessNow
      <4>3. EntryIs(n, n, s, b, [far |-> r.idx, dist |-> r.dist, merges |-> <<>>], in2)
        BY <1>1, <2>12, <3>4, <4>2, EntryWritten
      <4> QED BY <4>1, <4>3
    <3>6. e2 \in Entry
      BY <2>10, <2>12
    <3>7. EntryIs(n, n, s, b, e2, in2)'
      BY <1>1, <3>5, <3>6, EntryOn
    <3> QED BY <2>9, <3>2, <3>7
  <2>13. CASE ~(hl /\ b = d.bid) /\ ~(dw /\ b = r.bid)
    <3>1. e2 = e
      BY <2>10, <2>13
    <3>2. in2 <=> in
      BY <1>12, <1>13, <2>3, <2>7, <2>13
    <3>3. k < u <=> k < c
      BY <1>1, <1>11, <2>1, <2>13 DEF Flag
    <3>4. m2 = m /\ m \in Int /\ m <= n
      BY <1>1, <2>4, <2>8, <3>2, <3>3
    <3>5. EntryIs(n, m2, s, b, e2, in2)
      BY <2>5, <3>1, <3>2, <3>4 DEF EntryIs
    <3>6. EntryIs(n, m2, s, b, e2, in2)'
      BY <2>2, <3>1, <3>4, <3>5, EntryOn
    <3> QED BY <2>9, <3>6
  <2> QED BY <2>11, <2>12, <2>13
<1> QED BY <1>2, <1>15 DEF EntriesInv
-----------------------------------------------------------------------------
(* The buckets in service in one cycle.                                    *)

LEMMA IssuedOn ==
  ASSUME cloud \in Clouds, cloud' = cloud, LessNow, NEW n, NEW s, AreSampled(n, s),
         NEW d, d.bid \in BucketIds, IssuedInv(n, s, d)
  PROVE  IssuedInv(n, s, d)'
<1>1. Members(d.bid)' = Members(d.bid) /\ Members(d.bid) \subseteq Points
  BY SamePlaces, CloudFacts
<1>2. AreSamples(n, s, d.refs)'
  BY DEF IssuedInv, AreSamples
<1>3. n \in Int /\ n <= n
  BY DEF AreSampled
<1>4. ASSUME NEW p \in Members(d.bid)' PROVE WillKnow(n, s, p, d.refs)'
  <2>1. WillKnow(n, s, p, d.refs) /\ p \in Points
    BY <1>1, <1>4 DEF IssuedInv
  <2> QED BY <1>3, <2>1, KnowsOn
<1> QED BY <1>2, <1>4 DEF IssuedInv

(* What is issued now. *)
LEMMA IssuedNow ==
  ASSUME cloud \in Clouds, NEW n, NEW s, AreSampled(n, s), NEW cur \in Points, s[n] = cur,
         NEW d \in Decision, Stands(n, cur, d), d.kind = "issue",
         NEW e \in Entry, e = table[d.bid], EntryIs(n, n - 1, s, d.bid, e, FALSE)
  PROVE  IssuedInv(n, s, d)
<1>1. d.refs = Append(e.merges, cur)
  BY DEF Stands
<1>2. e.merges \in Seq(Points) /\ d.bid \in BucketIds
  BY DEF Entry, Decision
<1>3. AreSamples(n, s, e.merges) /\ \A p \in Members(d.bid) : WillKnow(n - 1, s, p, e.merges)
  BY DEF EntryIs
<1>4. AreSamples(n, s, d.refs)
  BY <1>1, <1>2, <1>3, AppendSamples
<1>5. ASSUME NEW p \in Members(d.bid) PROVE WillKnow(n, s, p, d.refs)
  <2>1. p \in Points /\ WillKnow(n - 1, s, p, e.merges)
    BY <1>3 DEF Members
  <2>2. WillKnow(n, s, p, Append(e.merges, cur))
    BY <1>2, <2>1, AppendKnows
  <2> QED BY <1>1, <2>2
<1> QED BY <1>4, <1>5 DEF IssuedInv

LEMMA IssuedKept ==
  ASSUME NEW n, NEW cur, NEW w, NEW c, c = Carried(w), NEW s, NEW v, NEW moved,
         CycleFacts(n, cur, c, s, v, moved), EntriesInv(n, cur, w, s),
         \A d \in Elements(bucketFifo) : IssuedInv(n, s, d)
  PROVE  \A d \in Elements(bucketFifo)' : IssuedInv(n, s, d)'
<1>1. /\ cloud \in Clouds /\ cloud' = cloud /\ cur \in Points /\ c \in Nat /\ s[n] = cur
      /\ AreSampled(n, s) /\ QueueTypes /\ CycleWith(moved) /\ LessNow
  BY DEF CycleFacts, DistancesStep
<1>2. PICK D : D = Decision
  OBVIOUS
<1>3. PICK q \in Seq(D) : q = bucketFifo
  BY <1>1, <1>2 DEF QueueTypes
<1>4. PICK one \in {0, 1} : one = Flag(Accepts)
  BY DEF Flag
<1>5. PICK hi \in {0, 1} : hi = Flag(HeadIssues(Ready)) /\ (hi = 1 <=> HeadIssues(Ready))
  BY DEF Flag
<1>6. PICK x : x = decided[1]
  OBVIOUS
<1>7. PICK z : z = bucketFifo'
  OBVIOUS
<1>8. PassOn(D, q, one, hi, x, z)
  BY <1>1, <1>2, <1>3, <1>4, <1>5, <1>6, <1>7, BucketFifoMoves
<1>9. \A y \in Elements(z) : (hi = 1 /\ y = x) \/ \E i \in DOMAIN q : y = q[i] /\ (one = 1 => i # 1)
  BY <1>8, ElementsMove
<1>10. ASSUME NEW d \in Elements(z) PROVE IssuedInv(n, s, d)'
  <2>1. CASE d \in Elements(q)
    <3>1. d.bid \in BucketIds
      BY <1>1, <1>3, <2>1 DEF CycleFacts, ServiceParts, Decision
    <3> QED BY <1>1, <1>3, <2>1, <3>1, IssuedOn
  <2>2. CASE hi = 1 /\ d = x
    <3>1. HeadLeaves(Ready) /\ d.kind = "issue"
      BY <1>5, <1>6, <2>2 DEF HeadIssues
    <3>2. /\ d \in Decision /\ Stands(n, cur, d)
          /\ \A b \in BucketIds : b = d.bid <=> Position(cur, b) = c
      BY <1>6, <2>2, <3>1 DEF CycleFacts
    <3>3. PICK b \in BucketIds : b = d.bid /\ Position(cur, b) = c
      BY <3>2 DEF Decision
    <3>4. PICK e \in Entry : e = table[b]
      BY <1>1 DEF QueueTypes
    <3>5. b \notin Elements(InService)
      BY <1>1, <3>3 DEF CycleFacts
    <3>6. Account(n, cur, w, b) = n - 1
      BY <1>1, <3>3 DEF Account, Settled
    <3>7. EntryInv(n, cur, w, s, b)
      BY DEF EntriesInv
    <3>8. EntryIs(n, n - 1, s, b, e, FALSE)
      BY <3>4, <3>5, <3>6, <3>7 DEF EntryInv, EntryIs
    <3>9. IssuedInv(n, s, d)
      BY <1>1, <3>1, <3>2, <3>3, <3>4, <3>8, IssuedNow
    <3> QED BY <1>1, <3>3, <3>9, IssuedOn
  <2> QED BY <1>9, <2>1, <2>2 DEF Elements
<1> QED BY <1>7, <1>10 DEF Elements

(* The task as it is when its end is looked for. *)
LEMMA BetterFirst ==
  ASSUME NEW d \in Int, NEW i \in Int, NEW e \in Int, NEW j \in Int, NEW f \in Int, NEW k \in Int,
         Better(d, i, e, j), Better(e, j, f, k)
  PROVE  Better(d, i, f, k)
BY DEF Better

(* The best of what is reached, as more is reached. *)
Leads(M, best, R) ==
  /\ best.idx \in R /\ best.dist = M[best.idx]
  /\ \A p \in R \ {best.idx} : Better(best.dist, best.idx, M[p], p)

LEMMA BestOn ==
  ASSUME cloud \in Clouds, NEW M, NEW R, NEW C, R \subseteq Points, C \subseteq Points,
         \A p \in R \cup C : M[p] \in 0..Inf, NEW ptr \in Points,
         NEW best \in [dist : Dists, idx : Points],
         (R = {} /\ best = [dist |-> -1, idx |-> ptr]) \/ Leads(M, best, R),
         R \cap C = {},
         NEW x, x = BestOf(best, {[dist |-> M[p], idx |-> p] : p \in C})
  PROVE  (R \cup C = {} /\ x = [dist |-> -1, idx |-> ptr]) \/ Leads(M, x, R \cup C)
<1>1. PICK I \in Nat : I = Inf /\ Points \subseteq Nat
  BY CloudFacts
<1>2. PICK rows : rows = {[dist |-> M[p], idx |-> p] : p \in C}
  OBVIOUS
<1>3. rows \subseteq [dist : Dists, idx : Points]
  BY <1>1, <1>2 DEF Dists
<1>4. x \in rows \cup {best} /\ \A o \in rows \cup {best} : x = o \/ Better(x.dist, x.idx, o.dist, o.idx)
  BY <1>1, <1>2, <1>3, BestOfIs
<1>5. ASSUME NEW p \in C PROVE x = [dist |-> M[p], idx |-> p] \/ Better(x.dist, x.idx, M[p], p)
  <2>1. PICK o \in rows : o = [dist |-> M[p], idx |-> p]
    BY <1>2
  <2>2. o.dist = M[p] /\ o.idx = p
    BY <2>1
  <2> QED BY <1>4, <2>1, <2>2
<1>6. x \in rows => \E p \in C : x = [dist |-> M[p], idx |-> p]
  BY <1>2
<1>7. ASSUME NEW p \in C, x.idx # p PROVE Better(x.dist, x.idx, M[p], p)
  <2>1. [dist |-> M[p], idx |-> p].idx = p
    OBVIOUS
  <2> QED BY <1>5, <1>7, <2>1
<1>8. CASE R = {} /\ best = [dist |-> -1, idx |-> ptr]
  <2>1. CASE C = {}
    <3>1. rows = {}
      BY <1>2, <2>1
    <3> QED BY <1>4, <1>8, <2>1, <3>1
  <2>2. CASE C # {}
    <3>1. x \in rows
      <4>1. SUFFICES ASSUME x = best PROVE FALSE
        BY <1>4
      <4>2. PICK p \in C : TRUE
        BY <2>2
      <4>3. M[p] \in 0..I
        BY <1>1
      <4>4. x.dist = -1
        BY <1>8, <4>1
      <4>5. x # [dist |-> M[p], idx |-> p]
        <5>1. [dist |-> M[p], idx |-> p].dist = M[p]
          OBVIOUS
        <5> QED BY <4>3, <4>4, <5>1
      <4>6. Better(-1, x.idx, M[p], p)
        BY <1>5, <4>4, <4>5
      <4> QED BY <4>3, <4>6 DEF Better
    <3>2. PICK p \in C : x = [dist |-> M[p], idx |-> p]
      BY <1>6, <3>1
    <3>3. x.idx = p /\ x.dist = M[p]
      BY <3>2
    <3>4. \A q \in C \ {p} : Better(x.dist, x.idx, M[q], q)
      BY <1>7, <3>3
    <3> QED BY <1>8, <3>3, <3>4 DEF Leads
  <2> QED BY <2>1, <2>2
<1>9. CASE Leads(M, best, R)
  <2>1. PICK j \in R : j = best.idx /\ best.dist = M[j] /\ \A p \in R \ {j} : Better(M[j], j, M[p], p)
    BY <1>9 DEF Leads
  <2>2. CASE x = best
    <3>1. \A p \in R \cup C : p # j => Better(M[j], j, M[p], p)
      BY <1>7, <2>1, <2>2
    <3> QED BY <2>1, <2>2, <3>1 DEF Leads
  <2>3. CASE x # best
    <3>1. PICK p \in C : x = [dist |-> M[p], idx |-> p]
      BY <1>4, <1>6, <2>3
    <3>2. x.idx = p /\ x.dist = M[p]
      BY <3>1
    <3>3. Better(M[p], p, M[j], j)
      BY <1>4, <2>1, <2>3, <3>2
    <3>4. ASSUME NEW q \in R \cup C, q # p PROVE Better(M[p], p, M[q], q)
      <4>1. CASE q \in C
        BY <1>7, <3>2, <3>4, <4>1
      <4>2. CASE q = j
        BY <3>3, <4>2
      <4>3. CASE q \in R /\ q # j
        <5>1. Better(M[j], j, M[q], q)
          BY <2>1, <4>3
        <5>2. M[p] \in 0..I /\ M[j] \in 0..I /\ M[q] \in 0..I /\ p \in Nat /\ j \in Nat /\ q \in Nat
          BY <1>1, <4>3
        <5> QED BY <3>3, <5>1, <5>2, BetterFirst
      <4> QED BY <3>4, <4>1, <4>2, <4>3
    <3> QED BY <3>2, <3>4 DEF Leads
  <2> QED BY <2>2, <2>3
<1> QED BY <1>8, <1>9
-----------------------------------------------------------------------------
(* The task in one cycle.                                                  *)

(* What is reached grows by what is computed. *)
LEMMA ReachedGrows ==
  ASSUME cloud \in Clouds, NEW b \in BucketIds, NEW t0 \in TaskOf(b), t0.decision.bid = b,
         task = <<t0>>, NEW moved, moved \subseteq Pending,
         NEW t, t.decision = t0.decision, t.phase = NextPhases(t0.phase, moved)
  PROVE  Reached(t) = Reached(t0) \cup Computed(moved) /\ Reached(t0) \cap Computed(moved) = {}
<1>1. PICK K : K = ChunkIdsOf(b)
  OBVIOUS
<1>2. K \subseteq Nat
  BY <1>1, ChunksCover
<1>3. PICK ph \in [K -> Phases] : ph = t0.phase
  BY <1>1 DEF TaskOf
<1>4. PICK nx : nx = NextPhases(ph, moved)
  OBVIOUS
<1>5. /\ nx \in [K -> Phases]
      /\ \A k \in K : nx[k] \in {"writing", "done"}
                        <=> \/ ph[k] \in {"writing", "done"}
                            \/ k \in moved /\ ph[k] = "computing"
  <2>1. PhasesNext(K, ph, moved, nx)
    BY <1>2, <1>4, PhasesMove
  <2> QED BY <2>1 DEF PhasesNext
<1>6. task # <<>> /\ task[1] = t0
  OBVIOUS
<1>7. PICK now : now = {j \in moved : ph[j] = "computing"}
  OBVIOUS
<1>8. moved \subseteq K
  BY <1>3, <1>6 DEF Pending
<1>9. Computed(moved) = UNION {Chunk(b, k) : k \in now}
  BY <1>3, <1>6, <1>7 DEF Computed
<1>10. PICK old : old = {k \in K : ph[k] \in {"writing", "done"}}
  OBVIOUS
<1>11. Finished(t0) = old
  BY <1>3, <1>10 DEF Finished
<1>12. Finished(t) = old \cup now
  <2>1. t.phase = nx
    BY <1>3, <1>4
  <2> QED BY <1>5, <1>7, <1>8, <1>10, <2>1 DEF Finished
<1>13. Reached(t0) = UNION {Chunk(b, k) : k \in old}
  BY <1>11 DEF Reached
<1>14. Reached(t) = UNION {Chunk(b, k) : k \in old \cup now}
  BY <1>12 DEF Reached
<1>15. ASSUME NEW p \in Reached(t0), p \in Computed(moved) PROVE FALSE
  <2>1. PICK j \in old : p \in Chunk(b, j)
    BY <1>13, <1>15
  <2>2. PICK k \in now : p \in Chunk(b, k)
    BY <1>9, <1>15
  <2>3. j \in Nat /\ k \in Nat
    BY <1>2, <1>7, <1>8, <1>10
  <2>4. j = k
    BY <2>1, <2>2, <2>3, ChunksApart
  <2> QED BY <1>7, <1>10, <2>4
<1>16. Reached(t) = Reached(t0) \cup Computed(moved)
  BY <1>9, <1>13, <1>14
<1> QED BY <1>15, <1>16

LEMMA ReachedPart ==
  ASSUME cloud \in Clouds, NEW b \in BucketIds, NEW t, t.decision.bid = b
  PROVE  Reached(t) \subseteq Members(b) /\ Members(b) \subseteq Points
<1>1. \A k : Chunk(b, k) \subseteq Members(b) /\ Members(b) \subseteq Points
  BY ChunkPart
<1> QED BY <1>1 DEF Reached

LEMMA AdvancedInv ==
  ASSUME NEW n, NEW cur, NEW c, NEW s, NEW v, NEW moved, CycleFacts(n, cur, c, s, v, moved),
         \A d \in Elements(bucketFifo) : IssuedInv(n, s, d),
         task # <<>> => TaskInv(n, s, task[1]), Going, NEW t, t = Advanced(moved)
  PROVE  TaskInv(n, s, t)'
<1>1. /\ cloud \in Clouds /\ cloud' = cloud /\ AreSampled(n, s) /\ QueueTypes /\ CycleWith(moved)
      /\ moved \subseteq Pending /\ LessNow /\ DistancesStep(n, s, moved)
  BY DEF CycleFacts, DistancesStep
<1>2. PICK b \in BucketIds : /\ t \in TaskOf(b) /\ t.decision.bid = b
                             /\ task = <<>> => bucketFifo # <<>> /\ t.decision = bucketFifo[1]
                             /\ task # <<>> => t.decision = task[1].decision
  BY <1>1, AdvancedIs
<1>3. Members(b) \subseteq Points /\ Reached(t)' = Reached(t) /\ PointPtr(b)' = PointPtr(b)
      /\ PointPtr(b) \in Points
  BY <1>1, SamePlaces, CloudFacts, PointPtrIs
<1>4. PICK M : M = mdt'
  OBVIOUS
<1>5. n \in Int /\ n <= n
  BY <1>1 DEF AreSampled
<1>6. CASE task = <<>>
  <2>1. PICK D : D = Decision
    OBVIOUS
  <2>2. PICK q \in Seq(D) : q = bucketFifo /\ q # <<>>
    BY <1>1, <1>2, <1>6, <2>1 DEF QueueTypes
  <2>3. Len(q) \in Nat \ {0} /\ q[1] \in D /\ q[1] = Head(q)
    BY <2>2, HeadOf, HeadTailProperties
  <2>4. 1 \in DOMAIN q
    BY <2>3, LenProperties
  <2>5. t.decision = q[1] /\ t.decision \in Elements(bucketFifo)
    BY <1>2, <1>6, <2>2, <2>4 DEF Elements
  <2>6. IssuedInv(n, s, t.decision)'
    <3>1. IssuedInv(n, s, t.decision)
      BY <2>5
    <3> QED BY <1>1, <1>2, <3>1, IssuedOn
  <2>7. t.phase = FillPingpong(MakeChunks(b)) /\ t.best = [dist |-> -1, idx |-> PointPtr(b)]
    <3>1. Accepts
      BY <1>6, <2>2 DEF Accepts
    <3>2. t = [decision |-> Head(q), phase |-> FillPingpong(MakeChunks(Head(q).bid)),
               best |-> [dist |-> -1, idx |-> PointPtr(Head(q).bid)]]
      BY <2>2, <3>1 DEF Advanced
    <3>3. Head(q).bid = b
      BY <1>2, <2>3, <2>5
    <3> QED BY <3>2, <3>3
  <2>8. Reached(t) = {}
    <3>1. PICK ph \in [ChunkIdsOf(b) -> Phases] :
            ph = t.phase /\ \A k \in ChunkIdsOf(b) : ph[k] \notin {"writing", "done"}
      BY <1>1, <2>7, FirstPhases
    <3>2. Finished(t) = {}
      BY <3>1 DEF Finished
    <3> QED BY <3>2 DEF Reached
  <2>9. BestInv(t)'
    BY <1>2, <1>3, <2>7, <2>8 DEF BestInv
  <2> QED BY <1>3, <2>6, <2>8, <2>9 DEF TaskInv
<1>7. CASE task # <<>>
  <2>1. PICK b0 \in BucketIds : task[1] \in TaskOf(b0) /\ task[1].decision.bid = b0
                                /\ task = <<task[1]>>
    BY <1>1, <1>7, TaskIs
  <2>2. b0 = b
    BY <1>2, <1>7, <2>1
  <2>3. PICK t0 \in TaskOf(b) : t0 = task[1] /\ task = <<t0>> /\ t0.decision.bid = b
    BY <2>1, <2>2
  <2>4. TaskInv(n, s, t0)
    BY <1>7, <2>3
  <2>5. PICK refs \in Seq(Points) : refs = t0.decision.refs
    BY <2>3 DEF TaskOf, Decision
  <2>6. PICK C : C = Computed(moved)
    OBVIOUS
  <2>7. PICK rows : rows = {[dist |-> Nearest(p, refs), idx |-> p] : p \in C}
    OBVIOUS
  <2>8. t = [decision |-> t0.decision, phase |-> NextPhases(t0.phase, moved),
             best |-> BestOf(t0.best, rows)]
    <3>1. ~Accepts
      BY <1>7 DEF Accepts
    <3> QED BY <2>3, <2>5, <2>6, <2>7, <3>1 DEF Advanced, NextPhases
  <2>9. t.decision = t0.decision /\ t.phase = NextPhases(t0.phase, moved)
        /\ t.best = BestOf(t0.best, rows)
    BY <2>8
  <2>10. Reached(t) = Reached(t0) \cup C /\ Reached(t0) \cap C = {}
    BY <1>1, <2>3, <2>6, <2>9, ReachedGrows
  <2>11. Reached(t0) \subseteq Points /\ C \subseteq Points
    BY <1>1, <1>3, <2>3, <2>6, ReachedPart, ComputedIs
  <2>12. IssuedInv(n, s, t.decision)'
    <3>1. IssuedInv(n, s, t0.decision)
      BY <2>4 DEF TaskInv
    <3> QED BY <1>1, <1>2, <2>9, <3>1, IssuedOn
  <2>13. ASSUME NEW p \in Reached(t)' PROVE Knows(n, s, p)'
    <3>1. p \in Reached(t) /\ p \in Points
      BY <1>3, <2>10, <2>11, <2>13
    <3>2. CASE p \in C
      BY <1>1, <2>6, <3>1, <3>2 DEF DistancesStep
    <3>3. CASE p \in Reached(t0)
      <4>1. Knows(n, s, p)
        BY <2>4, <3>3 DEF TaskInv
      <4> QED BY <1>1, <1>5, <3>1, <4>1, KnowsOn
    <3> QED BY <2>10, <3>1, <3>2, <3>3
  <2>14. \A p \in C : M[p] = Nearest(p, refs)
    BY <1>1, <1>4, <2>3, <2>5, <2>6, DistancesMove
  <2>15. rows = {[dist |-> M[p], idx |-> p] : p \in C}
    BY <2>7, <2>14
  <2>16. \A p \in Points \ C : M[p] = mdt[p]
    BY <1>1, <1>4, <2>6 DEF DistancesStep
  <2>17. (Reached(t0) = {} /\ t0.best = [dist |-> -1, idx |-> PointPtr(b)])
           \/ Leads(M, t0.best, Reached(t0))
    <3>1. BestInv(t0)
      BY <2>4 DEF TaskInv
    <3>2. \A p \in Reached(t0) : mdt[p] = M[p]
      BY <2>10, <2>11, <2>16
    <3>3. CASE Reached(t0) = {} /\ t0.best = [dist |-> -1, idx |-> PointPtr(t0.decision.bid)]
      BY <2>3, <3>3
    <3>4. CASE /\ t0.best.idx \in Reached(t0) /\ t0.best.dist = mdt[t0.best.idx]
               /\ \A p \in Reached(t0) \ {t0.best.idx} : Better(t0.best.dist, t0.best.idx, mdt[p], p)
      BY <3>2, <3>4 DEF Leads
    <3> QED BY <3>1, <3>3, <3>4 DEF BestInv
  <2>18. \A p \in Reached(t0) \cup C : M[p] \in 0..Inf
    <3>1. \A p \in Points : M[p] \in 0..Inf
      BY <1>1, <1>4, DistancesMove
    <3> QED BY <2>11, <3>1
  <2>19. t0.best \in [dist : Dists, idx : Points]
    BY <2>3 DEF TaskOf
  <2>20. PICK R : R = Reached(t0)
    OBVIOUS
  <2>21. (R \cup C = {} /\ t.best = [dist |-> -1, idx |-> PointPtr(b)]) \/ Leads(M, t.best, R \cup C)
    BY <1>1, <1>3, <2>9, <2>10, <2>11, <2>15, <2>17, <2>18, <2>19, <2>20, BestOn
  <2>22. BestInv(t)'
    <3>1. CASE R \cup C = {} /\ t.best = [dist |-> -1, idx |-> PointPtr(b)]
      BY <1>2, <1>3, <2>10, <2>20, <3>1 DEF BestInv
    <3>2. CASE Leads(M, t.best, R \cup C)
      BY <1>3, <1>4, <2>10, <2>20, <3>2 DEF BestInv, Leads
    <3> QED BY <2>21, <3>1, <3>2
  <2> QED BY <2>12, <2>13, <2>22 DEF TaskInv
<1> QED BY <1>6, <1>7

TaskHolds(n, s) == task # <<>> => TaskInv(n, s, task[1])

LEMMA TaskKept ==
  ASSUME NEW n, NEW cur, NEW c, NEW s, NEW v, NEW moved, CycleFacts(n, cur, c, s, v, moved),
         \A d \in Elements(bucketFifo) : IssuedInv(n, s, d),
         task # <<>> => TaskInv(n, s, task[1])
  PROVE  TaskHolds(n, s)'
<1>1. SUFFICES ASSUME task' # <<>> PROVE TaskInv(n, s, task[1])'
  BY DEF TaskHolds
<1>2. CycleWith(moved)
  BY DEF CycleFacts
<1>3. Going /\ task' = <<Advanced(moved)>>
  BY <1>1, <1>2, TaskMoves
<1>4. PICK t : t = Advanced(moved)
  OBVIOUS
<1>5. TaskInv(n, s, t)'
  BY <1>3, <1>4, AdvancedInv
<1>6. task'[1] = t
  BY <1>3, <1>4
<1> QED BY <1>5, <1>6

(* A far point on its way stays, and a new one is exact. *)
FarsInv(n, s) == \A r \in Items(writebacks) \cup Elements(farFifo) : FarInv(n, s, r)

LEMMA FarOn ==
  ASSUME NEW n, NEW cur, NEW c, NEW s, NEW v, NEW moved, CycleFacts(n, cur, c, s, v, moved),
         NEW r \in Items(writebacks) \cup Elements(farFifo), FarInv(n, s, r)
  PROVE  FarInv(n, s, r)'
<1>1. /\ cloud \in Clouds /\ cloud' = cloud /\ AreSampled(n, s) /\ QueueTypes /\ CycleWith(moved)
      /\ LessNow /\ DistancesStep(n, s, moved) /\ ServiceParts
  BY DEF CycleFacts, DistancesStep
<1>2. r.bid \in BucketIds /\ (task # <<>> => r.bid # task[1].decision.bid)
  BY <1>1 DEF ServiceParts, Far
<1>3. PICK X : X = Members(r.bid)
  OBVIOUS
<1>4. Members(r.bid)' = X /\ X \subseteq Points
  BY <1>1, <1>2, <1>3, SamePlaces, CloudFacts
<1>5. \A p \in X : p \notin Computed(moved)
  BY <1>1, <1>2, <1>3, ComputedIs DEF Members
<1>6. \A p \in X : mdt'[p] = mdt[p]
  BY <1>1, <1>4, <1>5 DEF DistancesStep
<1>7. \A p \in X : Knows(n, s, p)'
  <2>1. TAKE p \in X
  <2>2. Knows(n, s, p) /\ p \in Points
    BY <1>3, <1>4 DEF FarInv
  <2>3. n \in Int /\ n <= n
    BY <1>1 DEF AreSampled
  <2> QED BY <1>1, <2>2, <2>3, KnowsOn
<1> QED BY <1>3, <1>4, <1>6, <1>7 DEF FarInv

LEMMA FarNew ==
  ASSUME NEW n, NEW cur, NEW c, NEW s, NEW v, NEW moved, CycleFacts(n, cur, c, s, v, moved),
         \A d \in Elements(bucketFifo) : IssuedInv(n, s, d),
         task # <<>> => TaskInv(n, s, task[1]), Finishes(moved),
         NEW r, r = FarPoint(Advanced(moved))
  PROVE  FarInv(n, s, r)'
<1>1. cloud \in Clouds /\ cloud' = cloud /\ QueueTypes /\ CycleWith(moved)
  BY DEF CycleFacts
<1>2. Going
  BY DEF Finishes, Going
<1>3. PICK t : t = Advanced(moved)
  OBVIOUS
<1>4. TaskInv(n, s, t)'
  BY <1>2, <1>3, AdvancedInv
<1>5. PICK b \in BucketIds : t \in TaskOf(b) /\ t.decision.bid = b
  BY <1>1, <1>2, <1>3, AdvancedIs
<1>6. \A k \in ChunkIdsOf(b) : t.phase[k] = "done"
  BY <1>3, <1>5 DEF Finishes, TaskOf
<1>7. Finished(t) = ChunkIdsOf(b)
  BY <1>5, <1>6 DEF Finished, TaskOf
<1>8. Reached(t) = Members(b)
  <2>1. Members(b) \subseteq Reached(t)
    BY <1>1, <1>5, <1>7, ChunksCover DEF Reached
  <2> QED BY <1>1, <1>5, <2>1, ReachedPart
<1>9. Reached(t)' = Members(b) /\ Members(b)' = Members(b) /\ Members(b) # {}
  BY <1>1, <1>8, SamePlaces, CloudFacts
<1>10. r.bid = b /\ r.idx = t.best.idx /\ r.dist = t.best.dist
  BY <1>3, <1>5 DEF FarPoint
<1>11. /\ t.best.idx \in Members(b) /\ t.best.dist = mdt'[t.best.idx]
       /\ \A p \in Members(b) \ {t.best.idx} : Better(t.best.dist, t.best.idx, mdt'[p], p)
  BY <1>4, <1>9 DEF TaskInv, BestInv
<1>12. \A p \in Members(b) : Knows(n, s, p)'
  BY <1>4, <1>9 DEF TaskInv
<1> QED BY <1>9, <1>10, <1>11, <1>12 DEF FarInv

LEMMA FarsKept ==
  ASSUME NEW n, NEW cur, NEW c, NEW s, NEW v, NEW moved, CycleFacts(n, cur, c, s, v, moved),
         \A d \in Elements(bucketFifo) : IssuedInv(n, s, d),
         task # <<>> => TaskInv(n, s, task[1]), FarsInv(n, s)
  PROVE  FarsInv(n, s)'
<1>1. cloud \in Clouds /\ cloud' = cloud /\ QueueTypes /\ CycleWith(moved)
  BY DEF CycleFacts
<1>2. PICK V : V = Far
  OBVIOUS
<1>3. PICK q \in Seq(V) : q = farFifo
  BY <1>1, <1>2 DEF QueueTypes
<1>4. PICK wq \in Seq(TimedOf(V)) : wq = writebacks
  BY <1>1, <1>2 DEF QueueTypes
<1>5. PICK pops \in {0, 1} : pops = Flag(farFifo # <<>>) /\ (pops = 1 <=> q # <<>>)
  BY <1>3 DEF Flag
<1>6. PICK fin \in {0, 1} : fin = Flag(Finishes(moved)) /\ (fin = 1 <=> Finishes(moved))
  BY DEF Flag
<1>7. PICK dw \in {0, 1} : dw = Flag(Due(writebacks))
  BY DEF Flag
<1>8. PICK x : x = FarPoint(Advanced(moved))
  OBVIOUS
<1>9. PICK y : y = farFifo[1]
  OBVIOUS
<1>10. PICK fr : fr = farFifo'
  OBVIOUS
<1>11. PICK wr : wr = writebacks'
  OBVIOUS
<1>12. PassOn(V, q, pops, fin, x, fr)
  BY <1>1, <1>2, <1>3, <1>5, <1>6, <1>8, <1>10, FarFifoMoves
<1>13. TimedPassOn(V, wq, dw, pops, y, wr)
  BY <1>1, <1>2, <1>4, <1>5, <1>7, <1>9, <1>11, WritebacksMove
<1>14. \A z \in Elements(fr) : (fin = 1 /\ z = x) \/ \E i \in DOMAIN q : z = q[i] /\ (pops = 1 => i # 1)
  BY <1>12, ElementsMove
<1>15. \A z \in Items(wr) : (pops = 1 /\ z = y)
                            \/ \E i \in DOMAIN wq : z = wq[i].item /\ (dw = 1 => i # 1)
  BY <1>13, ItemsMove
<1>16. pops = 1 => y \in Elements(q)
  <2>1. pops = 1 => 1 \in DOMAIN q
    BY <1>5, HeadOf, LenProperties
  <2> QED BY <1>3, <1>9, <2>1 DEF Elements
<1>17. ASSUME NEW r \in Items(wr) \cup Elements(fr) PROVE FarInv(n, s, r)'
  <2>1. (fin = 1 /\ r = x) \/ r \in Items(wq) \cup Elements(q)
    <3>1. CASE r \in Items(wr)
      <4>1. CASE pops = 1 /\ r = y
        BY <1>16, <4>1
      <4>2. CASE \E i \in DOMAIN wq : r = wq[i].item
        BY <4>2 DEF Items
      <4> QED BY <1>15, <3>1, <4>1, <4>2
    <3>2. CASE r \in Elements(fr)
      <4>1. CASE \E i \in DOMAIN q : r = q[i]
        BY <4>1 DEF Elements
      <4> QED BY <1>14, <3>2, <4>1
    <3> QED BY <3>1, <3>2
  <2>2. CASE fin = 1 /\ r = x
    BY <1>6, <1>8, <2>2, FarNew
  <2>3. CASE r \in Items(wq) \cup Elements(q)
    <3>1. r \in Items(writebacks) \cup Elements(farFifo) /\ FarInv(n, s, r)
      BY <1>3, <1>4, <2>3 DEF FarsInv
    <3> QED BY <3>1, FarOn
  <2> QED BY <2>1, <2>2, <2>3
<1>18. Items(writebacks)' \cup Elements(farFifo)' = Items(wr) \cup Elements(fr)
  BY <1>10, <1>11 DEF Items, Elements
<1> QED BY <1>17, <1>18 DEF FarsInv
-----------------------------------------------------------------------------
(* A cycle keeps what is known of the iteration.                           *)

(* A loop whose variables are these. *)
InLoop(n, cur, w, s) ==
  /\ cloud \in Clouds /\ sampledCount = n /\ current = cur /\ pos = w
  /\ LoopInv(n, cur, w, s)

LEMMA LoopTypes ==
  ASSUME NEW n, NEW cur, NEW w, NEW s, InLoop(n, cur, w, s)
  PROVE  /\ n \in Nat \ {0} /\ AreSampled(n, s) /\ s[n] = cur /\ cur \in Points /\ w \in Nat
         /\ QueueTypes /\ WalkInv(cur, w) /\ ServiceInv(cur, w) /\ DataInv(n, cur, w, s)
         /\ Carried(w) \in Nat
<1>1. BucketCount \in Nat
  BY CloudFacts DEF InLoop
<1> QED BY <1>1 DEF InLoop, LoopInv, AreSampled, WalkInv

LEMMA CycleFactsHold ==
  ASSUME NEW n, NEW cur, NEW w, NEW s, InLoop(n, cur, w, s), NEW c, c = Carried(w),
         NEW moved, CycleWith(moved), moved \subseteq Pending, NEW v, v = Walked
  PROVE  CycleFacts(n, cur, c, s, v, moved) /\ WalkIds(cur, c) /\ QueueTypes' /\ WalkInv(cur, v)'
<1>1. /\ cloud \in Clouds /\ n \in Nat \ {0} /\ AreSampled(n, s) /\ s[n] = cur /\ cur \in Points
      /\ current = cur /\ w \in Nat /\ pos = w /\ c \in Nat
      /\ QueueTypes /\ WalkInv(cur, w) /\ ServiceInv(cur, w) /\ DataInv(n, cur, w, s)
  BY LoopTypes DEF InLoop
<1>2. cloud' = cloud
  BY DEF CycleWith
<1>3. QueueTypes'
  BY <1>1, TypesKept
<1>4. /\ WalkInv(cur, v)' /\ Carried(v)' = c + Flag(HeadLeaves(Ready))
      /\ HeadLeaves(Ready) => decided[1].bid = VisitOf(cur, c)
  BY <1>1, <1>3, WalkKept
<1>5. ServiceStep(cur, v)
  <2>1. outstanding = Len(InService)
    BY DEF InLoop, LoopInv
  <2> QED BY <1>1, <1>3, <2>1, ServiceKept
<1>6. ServiceParts
  <2>1. PICK P : P = PositionsOf(cur)
    OBVIOUS
  <2>2. Ascending(P, c, InService)
    BY <1>1, <2>1, ServiceIs
  <2> QED BY <1>1, <2>2, ServiceApart
<1>7. \A b \in Elements(InService) : b \in BucketIds /\ Position(cur, b) < c
  <2>1. PICK q \in Seq(BucketIds) : q = InService
    BY <1>1, InServiceType
  <2>2. \A i \in DOMAIN q : q[i] \in BucketIds /\ Position(cur, q[i]) < c
    BY <1>1, <2>1, ElementOfSeq, LenProperties DEF ServiceInv
  <2> QED BY <2>1, <2>2 DEF Elements
<1>8. WalkIds(cur, c)
  BY <1>1, WalkVisits
<1>9. HeadLeaves(Ready) => /\ decided[1] \in Decision /\ Stands(n, cur, decided[1])
                           /\ \A b \in BucketIds : b = decided[1].bid <=> Position(cur, b) = c
  <2>1. SUFFICES ASSUME HeadLeaves(Ready)
                 PROVE  /\ decided[1] \in Decision /\ Stands(n, cur, decided[1])
                        /\ \A b \in BucketIds : b = decided[1].bid <=> Position(cur, b) = c
    OBVIOUS
  <2>2. PICK D : D = Decision
    OBVIOUS
  <2>3. PICK q \in Seq(D) : q = decided /\ q # <<>>
    BY <1>1, <2>1, <2>2 DEF QueueTypes, HeadLeaves
  <2>4. Len(q) \in Nat \ {0} /\ q[1] \in D
    BY <2>3, HeadOf
  <2>5. 1 \in DOMAIN q
    BY <2>4, LenProperties
  <2>6. decided[1] \in Waiting
    BY <2>3, <2>5 DEF Waiting, Elements
  <2>7. Stands(n, cur, decided[1])
    BY <2>6 DEF InLoop, LoopInv
  <2>8. PICK y \in BucketIds : y = decided[1].bid
    BY <2>2, <2>3, <2>4 DEF Decision
  <2>9. c \in 0..LastBucket(cloud)
    <3>1. PICK l \in Nat : l = LastBucket(cloud) /\ BucketCount = l + 1
      BY <1>1, CloudFacts
    <3>2. Len(cd) \in Nat /\ Len(fetched) \in Nat /\ Len(fetching) \in Nat /\ w <= l + 1
      BY <1>1, <3>1, LenProperties DEF QueueTypes, WalkInv
    <3>3. c = w - Len(fetching) - Len(fetched) - Len(cd) - Len(decided)
      BY DEF Carried
    <3> QED BY <1>1, <2>3, <2>4, <3>1, <3>2, <3>3
  <2>10. y = VisitOf(cur, c) /\ Position(cur, y) = c
    BY <1>1, <1>4, <2>1, <2>8, <2>9, Walk
  <2>11. ASSUME NEW b \in BucketIds PROVE b = y <=> Position(cur, b) = c
    BY <1>1, <2>10, Walk
  <2> QED BY <2>2, <2>3, <2>4, <2>7, <2>8, <2>11
<1>10. DistancesStep(n, s, moved)
  <2>1. (\A p \in Points : Sound(n, s, p)) /\ (task # <<>> => TaskInv(n, s, task[1]))
    BY <1>1 DEF DataInv
  <2> QED BY <1>1, <2>1, DistancesSound
<1> QED BY <1>1, <1>2, <1>3, <1>4, <1>5, <1>6, <1>7, <1>8, <1>9, <1>10 DEF CycleFacts

(* What was outstanding and has moved is known exactly. *)
LEMMA LoopKept ==
  ASSUME NEW n, NEW cur, NEW w, NEW s, InLoop(n, cur, w, s),
         NEW moved, CycleWith(moved), moved \subseteq Pending, NEW v, v = Walked
  PROVE  LoopInv(n, cur, v, s)' /\ v \in Nat
<1>1. /\ cloud \in Clouds /\ n \in Nat \ {0} /\ AreSampled(n, s) /\ s[n] = cur /\ cur \in Points
      /\ current = cur /\ sampledCount = n /\ w \in Nat /\ pos = w
      /\ QueueTypes /\ DataInv(n, cur, w, s)
  BY LoopTypes DEF InLoop
<1>2. PICK c : c = Carried(w) /\ c \in Nat
  BY LoopTypes
<1>3. CycleFacts(n, cur, c, s, v, moved) /\ WalkIds(cur, c) /\ QueueTypes' /\ WalkInv(cur, v)'
  BY <1>2, CycleFactsHold
<1>4. DepthInv'
  <2>1. DepthInv
    BY DEF InLoop, LoopInv
  <2> QED BY <1>1, <2>1, DepthsKept
<1>5. ServiceInv(cur, v)' /\ (outstanding = Len(InService))'
  BY <1>3 DEF CycleFacts, ServiceStep
<1>6. \A d \in Waiting' : Stands(n, cur, d)'
  <2>1. \A b \in Elements(InService) : Position(cur, b) < c
    BY <1>3 DEF CycleFacts
  <2>2. HeadLeaves(Ready) => Position(cur, decided[1].bid) = c
    BY <1>3 DEF CycleFacts, Decision
  <2>3. TableStands
    <3>1. Due(writebacks) => writebacks[1].item.bid \in Elements(InService)
      BY <1>3 DEF CycleFacts, ServiceStep
    <3> QED BY <1>1, <3>1, TableStays
  <2>4. \A d \in Waiting : Stands(n, cur, d)
    BY DEF InLoop, LoopInv
  <2> QED BY <1>1, <1>2, <1>3, <2>1, <2>2, <2>3, <2>4, StandsKept
<1>7. /\ \A p \in Points : Sound(n, s, p)
      /\ EntriesInv(n, cur, w, s)
      /\ \A d \in Elements(bucketFifo) : IssuedInv(n, s, d)
      /\ task # <<>> => TaskInv(n, s, task[1])
      /\ FarsInv(n, s)
  BY <1>1 DEF DataInv, EntriesInv, FarsInv
<1>8. \A p \in Points : Sound(n, s, p)'
  BY <1>3 DEF CycleFacts, DistancesStep
<1>9. EntriesInv(n, cur, v, s)'
  BY <1>2, <1>3, <1>7, EntriesKept DEF FarsInv
<1>10. \A d \in Elements(bucketFifo)' : IssuedInv(n, s, d)'
  BY <1>2, <1>3, <1>7, IssuedKept
<1>11. TaskHolds(n, s)'
  BY <1>3, <1>7, TaskKept
<1>12. FarsInv(n, s)'
  BY <1>3, <1>7, FarsKept
<1>13. DataInv(n, cur, v, s)'
  BY <1>8, <1>9, <1>10, <1>11, <1>12 DEF DataInv, EntriesInv, TaskHolds, FarsInv
<1>14. v \in Nat
  BY <1>1, FetchingMoves
<1> QED BY <1>1, <1>3, <1>4, <1>5, <1>6, <1>13, <1>14 DEF LoopInv, AreSampled
-----------------------------------------------------------------------------
(* An iteration ends and the next begins.                                  *)

(* An iteration that begins: nothing is under way. *)
LEMMA StartLoop ==
  ASSUME cloud \in Clouds, NEW n, NEW s, AreSampled(n, s), NEW cur \in Points, s[n] = cur,
         NoWork, QueueTypes, outstanding = 0, \A p \in Points : Sound(n, s, p),
         \A b \in BucketIds : EntryIs(n, n - 1, s, b, table[b], FALSE)
  PROVE  LoopInv(n, cur, 0, s)
<1>1. /\ fetching = <<>> /\ fetched = <<>> /\ cd = <<>> /\ decided = <<>> /\ writebacks = <<>>
      /\ bucketFifo = <<>> /\ farFifo = <<>> /\ task = <<>>
  BY DEF NoWork
<1>2. DOMAIN <<>> = {} /\ Len(<<>>) = 0
  OBVIOUS
<1>3. /\ Len(fetching) = 0 /\ Len(fetched) = 0 /\ Len(cd) = 0 /\ Len(decided) = 0
      /\ Len(bucketFifo) = 0 /\ Len(farFifo) = 0
      /\ DOMAIN fetching = {} /\ DOMAIN fetched = {} /\ DOMAIN cd = {} /\ DOMAIN decided = {}
      /\ DOMAIN bucketFifo = {} /\ DOMAIN farFifo = {} /\ DOMAIN writebacks = {}
  BY <1>1, <1>2
<1>4. Carried(0) = 0
  BY <1>3 DEF Carried
<1>5. InService = <<>>
  <2>1. TaskId = <<>>
    BY <1>1 DEF TaskId, IfThen
  <2>2. Map(LateId, writebacks) = <<>> /\ Map(FarId, farFifo) = <<>> /\ Map(IssueId, bucketFifo) = <<>>
    BY <1>1 DEF Map
  <2>3. Join(<<>>, <<>>) = <<>>
    BY EmptySeq, ConcatEmptySeq DEF Join
  <2>4. InService = Join(Join(Join(<<>>, <<>>), <<>>), <<>>)
    BY <2>1, <2>2, InServiceIs
  <2> QED BY <2>3, <2>4
<1>6. DOMAIN InService = {} /\ Len(InService) = 0 /\ Elements(InService) = {}
  BY <1>2, <1>5 DEF Elements
<1>7. DepthInv
  BY <1>3, Sizes DEF DepthInv
<1>8. BucketCount \in Nat /\ LastBucket(cloud) \in Nat
  BY CloudFacts
<1>9. WalkInv(cur, 0)
  BY <1>3, <1>4, <1>8 DEF WalkInv
<1>10. ServiceInv(cur, 0)
  BY <1>6 DEF ServiceInv
<1>11. Waiting = {}
  BY <1>3 DEF Waiting, Items, Elements
<1>12. Elements(bucketFifo) = {} /\ Items(writebacks) \cup Elements(farFifo) = {}
  BY <1>3 DEF Items, Elements
<1>13. ASSUME NEW b \in BucketIds PROVE EntryInv(n, cur, 0, s, b)
  <2>1. Position(cur, b) \in Nat
    BY <1>8, Walk
  <2>2. Account(n, cur, 0, b) = n - 1
    BY <1>4, <2>1 DEF Account, Settled
  <2>3. EntryIs(n, n - 1, s, b, table[b], FALSE)
    OBVIOUS
  <2> QED BY <2>2, <2>3 DEF EntryInv, EntryIs
<1>14. DataInv(n, cur, 0, s)
  BY <1>1, <1>12, <1>13 DEF DataInv
<1> QED BY <1>6, <1>7, <1>9, <1>10, <1>11, <1>14 DEF LoopInv, AreSampled

LEMMA FirstLoop ==
  ASSUME cloud \in Clouds, NEW first \in Points, NoWork, outstanding = 0,
         table = [b \in BucketIds |-> [far |-> PointPtr(b), dist |-> Inf, merges |-> <<>>]],
         mdt = [p \in Points |-> Inf]
  PROVE  LoopInv(1, first, 0, <<first>>)
<1>1. PICK s : s = <<first>>
  OBVIOUS
<1>2. s \in Seq(Points) /\ Len(s) = 1 /\ s[1] = first
  BY <1>1
<1>3. AreSampled(1, s)
  BY <1>2 DEF AreSampled
<1>4. Inf \in Nat
  BY CloudFacts
<1>5. \A b \in BucketIds : PointPtr(b) \in Points
  BY PointPtrIs DEF Members
<1>6. PICK e \in Seq(Points) : e = <<>>
  BY EmptySeq
<1>7. QueueTypes
  <2>1. table \in [BucketIds -> Entry]
    BY <1>4, <1>5, <1>6 DEF Entry, Dists
  <2>2. mdt \in [Points -> 0..Inf]
    BY <1>4
  <2> QED BY <2>1, <2>2, EmptySeq DEF QueueTypes, NoWork
<1>8. \A p \in Points : Sound(1, s, p)
  BY DEF Sound
<1>9. ASSUME NEW b \in BucketIds PROVE EntryIs(1, 1 - 1, s, b, table[b], FALSE)
  <2>1. table[b].merges = <<>>
    OBVIOUS
  <2>2. AreSamples(1, s, table[b].merges)
    BY <2>1, EmptySeq DEF AreSamples
  <2>3. \A p \in Members(b) : WillKnow(0, s, p, table[b].merges)
    BY DEF WillKnow
  <2> QED BY <2>2, <2>3 DEF EntryIs
<1> QED BY <1>1, <1>2, <1>3, <1>7, <1>8, <1>9, StartLoop

-----------------------------------------------------------------------------
(* The next sample.                                                        *)

(* The best entry of a table each of whose buckets has its own far point. *)
LEMMA GlobalFarIs ==
  ASSUME cloud \in Clouds, NEW t \in [BucketIds -> Entry],
         \A b \in BucketIds : t[b].far \in Members(b)
  PROVE  /\ GlobalFar(t) \in BucketIds
         /\ \A o \in BucketIds \ {GlobalFar(t)} :
              Better(t[GlobalFar(t)].dist, t[GlobalFar(t)].far, t[o].dist, t[o].far)
<1>1. PICK B : B = BucketIds
  OBVIOUS
<1>2. DOMAIN t = B /\ B # {}
  BY <1>1, CloudFacts
<1>3. PICK rows : rows = {[dist |-> t[b].dist, idx |-> t[b].far] : b \in B}
  OBVIOUS
<1>4. rows \subseteq [dist : Dists, idx : Points] /\ rows # {}
  <2>1. \A b \in B : t[b] \in Entry
    BY <1>1
  <2>2. \A b \in B : t[b].dist \in Dists /\ t[b].far \in Points
    BY <2>1 DEF Entry
  <2>3. rows \subseteq [dist : Dists, idx : Points]
    BY <1>3, <2>2
  <2>4. PICK b \in B : TRUE
    BY <1>2
  <2>5. [dist |-> t[b].dist, idx |-> t[b].far] \in rows
    BY <1>3
  <2> QED BY <2>3, <2>5
<1>5. Inf \in Nat /\ Points \subseteq Nat
  BY CloudFacts
<1>6. PICK r \in rows : \A o \in rows : r = o \/ Better(r.dist, r.idx, o.dist, o.idx)
  BY <1>4, <1>5, BestExists
<1>7. PICK b \in B : r = [dist |-> t[b].dist, idx |-> t[b].far]
  BY <1>3
<1>8. r.dist = t[b].dist /\ r.idx = t[b].far
  BY <1>7
<1>9. ASSUME NEW o \in B \ {b} PROVE Better(t[b].dist, t[b].far, t[o].dist, t[o].far)
  <2>1. PICK z \in rows : z = [dist |-> t[o].dist, idx |-> t[o].far]
    BY <1>3
  <2>2. z.dist = t[o].dist /\ z.idx = t[o].far
    BY <2>1
  <2>3. t[o].far # t[b].far
    BY <1>1 DEF Members
  <2> QED BY <1>6, <1>8, <2>2, <2>3
<1>10. \E x \in B : \A o \in B \ {x} : Better(t[x].dist, t[x].far, t[o].dist, t[o].far)
  BY <1>9
<1>11. PICK g : g = GlobalFar(t)
  OBVIOUS
<1>12. g = CHOOSE x \in B : \A o \in B \ {x} : Better(t[x].dist, t[x].far, t[o].dist, t[o].far)
  BY <1>2, <1>11 DEF GlobalFar
<1> QED BY <1>1, <1>10, <1>11, <1>12

(* All buckets account for all samples: the best far point is the next     *)
(* sample of the definition.                                               *)
LEMMA FarthestIs ==
  ASSUME cloud \in Clouds, NEW n, NEW s, AreSampled(n, s), NEW t \in [BucketIds -> Entry],
         \A b \in BucketIds : Summary(n, s, b, t[b].far, t[b].dist),
         NEW x, x = t[GlobalFar(t)].far
  PROVE  x \in Points /\ FPS!Farthest(cloud, {s[i] : i \in 1..n}, x)
<1>1. /\ GlobalFar(t) \in BucketIds
      /\ \A o \in BucketIds \ {GlobalFar(t)} :
           Better(t[GlobalFar(t)].dist, t[GlobalFar(t)].far, t[o].dist, t[o].far)
  BY GlobalFarIs DEF Summary
<1>2. PICK b \in BucketIds : b = GlobalFar(t)
  BY <1>1
<1>3. PICK d : d = t[b].dist
  OBVIOUS
<1>4. x = t[b].far /\ Summary(n, s, b, x, d)
  BY <1>2, <1>3
<1>5. Points \subseteq Nat /\ Inf \in Nat /\ x \in Points
  BY <1>4, CloudFacts DEF Summary, Members
<1>6. \A o \in BucketIds : t[o].dist \in Int /\ t[o].far \in Nat
  <2>1. \A o \in BucketIds : t[o] \in Entry
    OBVIOUS
  <2>2. Dists \subseteq Int
    BY <1>5 DEF Dists
  <2> QED BY <1>5, <2>1, <2>2 DEF Entry
<1>7. d \in Int /\ x \in Nat
  BY <1>3, <1>5, <1>6
<1>8. \A i \in 1..n : s[i] \in Points
  BY SampledPoints
<1>9. \A p \in Points : \A i \in 1..n : Dist(cloud, p, s[i]) \in Nat
  BY <1>8, CloudFacts
<1>10. ASSUME NEW r \in Points, r # x
       PROVE  \E i \in 1..n : Better(d, x, Dist(cloud, r, s[i]), r)
  <2>1. PICK o \in BucketIds : o = BucketOf(cloud, r) /\ r \in Members(o)
    BY CloudFacts DEF Members
  <2>2. Summary(n, s, o, t[o].far, t[o].dist)
    OBVIOUS
  <2>3. CASE o = b
    BY <1>4, <1>10, <2>1, <2>3 DEF Summary
  <2>4. CASE o # b
    <3>1. Better(d, x, t[o].dist, t[o].far)
      BY <1>1, <1>2, <1>3, <1>4, <2>4
    <3>2. CASE r = t[o].far
      <4>1. PICK i \in 1..n : t[o].dist = Dist(cloud, r, s[i])
        BY <2>2, <3>2 DEF Summary
      <4> QED BY <3>1, <3>2, <4>1
    <3>3. CASE r # t[o].far
      <4>1. PICK i \in 1..n : Better(t[o].dist, t[o].far, Dist(cloud, r, s[i]), r)
        BY <2>1, <2>2, <3>3 DEF Summary
      <4>2. Dist(cloud, r, s[i]) \in Int /\ r \in Int /\ t[o].dist \in Int /\ t[o].far \in Int
        BY <1>5, <1>6, <1>9
      <4>3. Better(d, x, Dist(cloud, r, s[i]), r)
        BY <1>7, <3>1, <4>1, <4>2, BetterFirst
      <4> QED BY <4>3
    <3> QED BY <3>2, <3>3
  <2> QED BY <2>3, <2>4
<1>11. PICK S : S = {s[i] : i \in 1..n}
  OBVIOUS
<1>12. ASSUME NEW r \in Points \ {x} PROVE FPS!Beats(cloud, S, x, r)
  <2>1. PICK i \in 1..n : Better(d, x, Dist(cloud, r, s[i]), r)
    BY <1>10
  <2>2. PICK q \in S : q = s[i]
    BY <1>11
  <2>3. PICK e \in Nat : e = Dist(cloud, r, q)
    BY <1>9, <2>2
  <2>4. d > e \/ (d = e /\ x < r)
    BY <2>1, <2>2, <2>3 DEF Better
  <2>5. ASSUME NEW z \in S PROVE e < Dist(cloud, x, z) \/ (e = Dist(cloud, x, z) /\ x < r)
    <3>1. PICK j \in 1..n : z = s[j]
      BY <1>11
    <3>2. PICK f \in Nat : f = Dist(cloud, x, z)
      BY <1>5, <1>9, <3>1
    <3>3. d <= f
      BY <1>4, <3>1, <3>2 DEF Summary
    <3> QED BY <1>7, <2>4, <3>2, <3>3
  <2> QED BY <2>3, <2>5 DEF FPS!Beats
<1> QED BY <1>5, <1>11, <1>12 DEF FPS!Farthest
-----------------------------------------------------------------------------
(* The iteration's end.                                                    *)

(* Nothing is under way, every bucket was visited. *)
AtEnd ==
  /\ fetching = <<>> /\ fetched = <<>> /\ cd = <<>> /\ decided = <<>>
  /\ outstanding = 0 /\ writebacks = <<>> /\ task = <<>> /\ farFifo = <<>>

LEMMA EmptyLine ==
  ASSUME NEW V, NEW q \in Seq(V), Elements(q) = {} \/ Len(q) = 0
  PROVE  q = <<>> /\ Elements(q) = {}
<1>1. PICK n \in Nat : n = Len(q) /\ DOMAIN q = 1..n
  BY LenProperties
<1>2. n = 0
  <2>1. CASE Elements(q) = {}
    <3>1. n >= 1 => q[1] \in Elements(q)
      BY <1>1 DEF Elements
    <3> QED BY <2>1, <3>1
  <2>2. CASE Len(q) = 0
    BY <1>1, <2>2
  <2> QED BY <2>1, <2>2
<1> QED BY <1>1, <1>2, EmptySeq DEF Elements

LEMMA EndSettled ==
  ASSUME cloud \in Clouds, NEW n, NEW cur, NEW w, NEW s, LoopInv(n, cur, w, s),
         w = BucketCount, AtEnd
  PROVE  /\ NoWork /\ AreSampled(n, s) /\ QueueTypes
         /\ \A b \in BucketIds : EntryIs(n, n, s, b, table[b], FALSE)
<1>1. AreSampled(n, s) /\ QueueTypes /\ DataInv(n, cur, w, s) /\ cur \in Points /\ WalkInv(cur, w)
      /\ ServiceInv(cur, w) /\ outstanding = Len(InService)
  BY DEF LoopInv, AreSampled
<1>2. PICK l \in Nat : l = LastBucket(cloud) /\ w = l + 1
  BY CloudFacts
<1>3. InService = <<>> /\ Elements(InService) = {}
  <2>1. PICK B : B = BucketIds
    OBVIOUS
  <2>2. PICK q \in Seq(B) : q = InService
    BY <1>1, <2>1, InServiceType
  <2>3. Len(q) = 0
    BY <1>1, <2>2 DEF AtEnd
  <2> QED BY <2>2, <2>3, EmptyLine
<1>4. bucketFifo = <<>>
  <2>1. PICK P : P = PositionsOf(cur)
    OBVIOUS
  <2>2. PICK c : c = Carried(w)
    OBVIOUS
  <2>3. Ascending(P, c, InService)
    BY <1>1, <1>2, <2>1, <2>2, ServiceIs
  <2>4. ServiceParts
    BY <1>1, <2>3, ServiceApart
  <2>5. Elements(bucketFifo) = {}
    BY <1>3, <2>4 DEF ServiceParts
  <2>6. PICK V : V = Decision
    OBVIOUS
  <2>7. PICK q \in Seq(V) : q = bucketFifo
    BY <1>1, <2>6 DEF QueueTypes
  <2> QED BY <2>5, <2>7, EmptyLine
<1>5. NoWork
  BY <1>4 DEF AtEnd, NoWork
<1>6. Carried(w) = l + 1
  <2>1. Len(<<>>) = 0
    OBVIOUS
  <2> QED BY <1>2, <2>1 DEF AtEnd, Carried
<1>7. ASSUME NEW b \in BucketIds PROVE EntryIs(n, n, s, b, table[b], FALSE)
  <2>1. Position(cur, b) \in 0..l
    BY <1>1, <1>2, Walk
  <2>2. Account(n, cur, w, b) = n /\ b \notin Elements(InService)
    BY <1>3, <1>6, <2>1 DEF Account, Settled
  <2>3. EntryInv(n, cur, w, s, b)
    BY <1>1 DEF DataInv
  <2> QED BY <2>2, <2>3 DEF EntryInv, EntryIs
<1> QED BY <1>1, <1>5, <1>7

(* What is known of the first n samples does not change with one more. *)
KnownOn(n, s, x, z) ==
  /\ AreSampled(n + 1, z) /\ z[n + 1] = x
  /\ \A p : Sound(n, s, p) => Sound(n + 1, z, p)
  /\ \A b, e : EntryIs(n, n, s, b, e, FALSE) => EntryIs(n + 1, n, z, b, e, FALSE)

LEMMA OneMore ==
  ASSUME NEW n, NEW s, AreSampled(n, s), NEW x \in Points, NEW z, z = Append(s, x)
  PROVE  KnownOn(n, s, x, z)
<1>1. n \in Nat \ {0} /\ s \in Seq(Points) /\ Len(s) = n
  BY DEF AreSampled
<1>2. z \in Seq(Points) /\ Len(z) = n + 1 /\ (\A i \in 1..n : z[i] = s[i]) /\ z[n + 1] = x
  BY <1>1, AppendProperties
<1>3. \A i \in 1..n : i \in 1..n + 1
  BY <1>1
<1>4. AreSampled(n + 1, z)
  BY <1>1, <1>2 DEF AreSampled
<1>5. \A p : Sound(n, s, p) => Sound(n + 1, z, p)
  BY <1>2, <1>3 DEF Sound
<1>6. ASSUME NEW b, NEW e, EntryIs(n, n, s, b, e, FALSE) PROVE EntryIs(n + 1, n, z, b, e, FALSE)
  <2>1. AreSamples(n + 1, z, e.merges)
    BY <1>2, <1>3, <1>6 DEF EntryIs, AreSamples
  <2>2. \A p \in Members(b) : WillKnow(n, z, p, e.merges)
    BY <1>2, <1>6 DEF EntryIs, WillKnow
  <2>3. Summary(n, z, b, e.far, e.dist)
    <3>1. Summary(n, s, b, e.far, e.dist)
      BY <1>1, <1>6 DEF EntryIs
    <3> QED BY <1>2, <3>1 DEF Summary
  <2> QED BY <2>1, <2>2, <2>3 DEF EntryIs
<1> QED BY <1>2, <1>4, <1>5, <1>6 DEF KnownOn

NextSample(n, s, x) ==
  /\ x \in Points /\ FPS!Farthest(cloud, {s[i] : i \in 1..n}, x)
  /\ LoopInv(n + 1, x, 0, Append(s, x))

LEMMA NextLoop ==
  ASSUME cloud \in Clouds, NEW n, NEW cur, NEW w, NEW s, LoopInv(n, cur, w, s),
         w = BucketCount, AtEnd, NEW x, x = table[GlobalFar(table)].far
  PROVE  NextSample(n, s, x) /\ NoWork
<1>1. /\ NoWork /\ AreSampled(n, s) /\ QueueTypes
      /\ \A b \in BucketIds : EntryIs(n, n, s, b, table[b], FALSE)
  BY EndSettled
<1>2. n \in Nat \ {0}
  BY <1>1 DEF AreSampled
<1>3. x \in Points /\ FPS!Farthest(cloud, {s[i] : i \in 1..n}, x)
  <2>1. PICK t \in [BucketIds -> Entry] : t = table
    BY <1>1 DEF QueueTypes
  <2>2. \A b \in BucketIds : Summary(n, s, b, t[b].far, t[b].dist)
    BY <1>1, <1>2, <2>1 DEF EntryIs
  <2>3. x = t[GlobalFar(t)].far
    BY <2>1 DEF GlobalFar
  <2> QED BY <1>1, <2>2, <2>3, FarthestIs
<1>4. PICK z : z = Append(s, x)
  OBVIOUS
<1>5. /\ AreSampled(n + 1, z) /\ z[n + 1] = x
      /\ \A p : Sound(n, s, p) => Sound(n + 1, z, p)
      /\ \A b, e : EntryIs(n, n, s, b, e, FALSE) => EntryIs(n + 1, n, z, b, e, FALSE)
  <2>1. KnownOn(n, s, x, z)
    BY <1>1, <1>3, <1>4, OneMore
  <2> QED BY <2>1 DEF KnownOn
<1>10. PICK m \in Nat : m = n + 1 /\ m - 1 = n
  BY <1>2
<1>6. \A p \in Points : Sound(m, z, p)
  BY <1>5, <1>10 DEF LoopInv, DataInv
<1>7. \A b \in BucketIds : EntryIs(m, m - 1, z, b, table[b], FALSE)
  BY <1>1, <1>5, <1>10
<1>8. outstanding = 0 /\ AreSampled(m, z) /\ z[m] = x
  BY <1>5, <1>10 DEF AtEnd
<1>9. LoopInv(m, x, 0, z)
  BY <1>1, <1>3, <1>6, <1>7, <1>8, StartLoop
<1> QED BY <1>1, <1>3, <1>4, <1>9, <1>10 DEF NextSample

LEMMA NextLoopNext ==
  ASSUME NEW n, NEW cur, NEW w, NEW s, NEW x
  PROVE  (/\ cloud \in Clouds /\ LoopInv(n, cur, w, s) /\ w = BucketCount /\ AtEnd
          /\ x = table[GlobalFar(table)].far)' => (NextSample(n, s, x) /\ NoWork)'
<1>1. (/\ cloud \in Clouds /\ LoopInv(n, cur, w, s) /\ w = BucketCount /\ AtEnd
       /\ x = table[GlobalFar(table)].far) => (NextSample(n, s, x) /\ NoWork)
  BY NextLoop
<1> QED BY <1>1, PTL
-----------------------------------------------------------------------------
(* The run.                                                                *)

(* What a cycle makes of a loop that has taken the samples s. *)
LoopGoesOn(n, cur, v, s) ==
  /\ status' = "running" /\ sampledCount' = n /\ current' = cur /\ samples' = s /\ ~done'
  /\ pos' = v /\ LoopInv(n, cur, v, s)'

LoopPicks(n, s, x) ==
  /\ x \in Points /\ FPS!Farthest(cloud, {s[i] : i \in 1..n}, x)
  /\ samples' = Append(s, x) /\ sampledCount' = n + 1 /\ current' = x
  /\ \/ n + 1 = goal /\ status' = "ended" /\ NoWork' /\ outstanding' = 0
     \/ /\ n + 1 # goal /\ status' = "running" /\ ~done' /\ pos' = 0
        /\ LoopInv(n + 1, x, 0, Append(s, x))'

LEMMA CycleStep ==
  ASSUME NEW n, NEW cur, NEW w, NEW s, InLoop(n, cur, w, s), samples = s, ~done,
         NEW moved, CycleWith(moved), moved \subseteq Pending, NEW v, v = Walked
  PROVE  LoopGoesOn(n, cur, v, s) \/ \E x : LoopPicks(n, s, x)
<1>1. LoopInv(n, cur, v, s)' /\ v \in Nat
  BY LoopKept
<1>2. cloud' = cloud /\ cloud \in Clouds /\ goal' = goal /\ sampledCount = n /\ current = cur
      /\ n \in Nat
  BY LoopTypes DEF CycleWith, InLoop
<1>3. CASE ContinueIteration
  <2>1. sampledCount' = n /\ current' = cur /\ (done' <=> done) /\ pos' = v
    BY <1>2, <1>3 DEF ContinueIteration
  <2>2. samples' = s /\ status' = "running"
    BY <1>2, <2>1 DEF CycleWith
  <2> QED BY <1>1, <2>1, <2>2 DEF LoopGoesOn
<1>4. CASE ScanDone /\ outstanding' = 0 /\ writebacks' = <<>> /\ Idle /\ CompleteIteration
  <2>1. PICK x : x = current'
    OBVIOUS
  <2>2. x = table'[GlobalFar(table')].far
    BY <1>4, <2>1 DEF CompleteIteration
  <2>3. AtEnd'
    BY <1>4 DEF ScanDone, Idle, AtEnd
  <2>4. (v = BucketCount)'
    BY <1>2, <1>4 DEF ScanDone, BucketCount
  <2>5. (x = table[GlobalFar(table)].far)'
    BY <2>2 DEF GlobalFar
  <2>6. (cloud \in Clouds)'
    BY <1>2
  <2>7. (NextSample(n, s, x) /\ NoWork)'
    BY <1>1, <2>3, <2>4, <2>5, <2>6, NextLoopNext
  <2>8. x \in Points /\ FPS!Farthest(cloud, {s[i] : i \in 1..n}, x)
        /\ LoopInv(n + 1, x, 0, Append(s, x))'
    BY <1>2, <2>7 DEF NextSample
  <2>9. sampledCount' = n + 1 /\ (done' <=> n + 1 = goal) /\ (~done' => pos' = 0)
    BY <1>2, <1>4 DEF CompleteIteration, LastSample
  <2>10. samples' = Append(s, x)
    <3>1. sampledCount' # sampledCount
      BY <1>2, <2>9
    <3> QED BY <2>1, <3>1 DEF CycleWith
  <2>11. status' = IF done' THEN "ended" ELSE "running"
    BY DEF CycleWith
  <2>12. LoopPicks(n, s, x)
    BY <1>4, <2>1, <2>7, <2>8, <2>9, <2>10, <2>11 DEF LoopPicks
  <2> QED BY <2>12
<1> QED BY <1>3, <1>4 DEF CycleWith, Step

-----------------------------------------------------------------------------
(* The whole run: its invariant and the definition it follows.             *)

(* What holds in every status. *)
Around ==
  /\ cloud \in Clouds /\ goal \in SampleCounts /\ goal \in Nat \ {0}
  /\ cooldown \in Nat /\ mdt \in [Points -> 0..Inf]

LEMMA AroundIs ==
  ASSUME RunInv
  PROVE  Around
<1>1. Cardinality(Points) \in Nat
  BY PointsAssumption, FS_CardinalityType
<1> QED BY <1>1, CountsAssumption DEF RunInv, Around

(* The loop of a running model. *)
LEMMA RunningIs ==
  ASSUME RunInv, status = "running"
  PROVE  \E n, cur, w, s : InLoop(n, cur, w, s) /\ samples = s /\ ~done /\ n < goal
<1>1. PICK n, cur, w, s :
        /\ n = sampledCount /\ cur = current /\ w = pos /\ s = samples
        /\ LoopInv(n, cur, w, s) /\ n < goal /\ ~done
  BY DEF RunInv
<1>2. cloud \in Clouds
  BY DEF RunInv
<1> QED BY <1>1, <1>2 DEF InLoop

LEMMA RunningNext ==
  ASSUME (cloud \in Clouds /\ goal \in SampleCounts /\ cooldown \in Nat
            /\ mdt \in [Points -> 0..Inf])',
         status' = "running", ~done', NEW n, NEW cur, NEW w, NEW s,
         sampledCount' = n, current' = cur, pos' = w, samples' = s,
         LoopInv(n, cur, w, s)', n < goal'
  PROVE  RunInv'
BY DEF RunInv, Statuses

LEMMA EndedNext ==
  ASSUME (cloud \in Clouds /\ goal \in SampleCounts /\ cooldown \in Nat
            /\ mdt \in [Points -> 0..Inf])',
         status' \in {"ended", "returned"}, NoWork', outstanding' = 0,
         samples' \in Seq(Points), Len(samples') = goal'
  PROVE  RunInv'
BY DEF RunInv, Statuses

LEMMA IdleNext ==
  ASSUME (cloud \in Clouds /\ goal \in SampleCounts /\ cooldown \in Nat
            /\ mdt \in [Points -> 0..Inf])',
         status' \in {"none", "built"}, NoWork', outstanding' = 0, samples' = <<>>,
         status' = "built" => mdt' = [p \in Points |-> Inf]
  PROVE  RunInv'
BY DEF RunInv, Statuses

LEMMA FirstLoopNext ==
  ASSUME NEW first \in Points
  PROVE  (/\ cloud \in Clouds /\ NoWork /\ outstanding = 0
          /\ table = [b \in BucketIds |-> [far |-> PointPtr(b), dist |-> Inf, merges |-> <<>>]]
          /\ mdt = [p \in Points |-> Inf])' => LoopInv(1, first, 0, <<first>>)'
<1>1. (/\ cloud \in Clouds /\ NoWork /\ outstanding = 0
       /\ table = [b \in BucketIds |-> [far |-> PointPtr(b), dist |-> Inf, merges |-> <<>>]]
       /\ mdt = [p \in Points |-> Inf]) => LoopInv(1, first, 0, <<first>>)
  BY FirstLoop
<1> QED BY <1>1, PTL

LEMMA InitHolds == Init => RunInv
<1> SUFFICES ASSUME Init PROVE RunInv
  OBVIOUS
<1>1. mdt \in [Points -> 0..Inf]
  BY DistAssumption DEF Init
<1> QED BY <1>1 DEF Init, RunInv, Statuses, NoWork

LEMMA BuildStep ==
  ASSUME RunInv, Build
  PROVE  RunInv' /\ FPS!Load
<1>1. Around
  BY AroundIs
<1>2. samples = <<>> /\ NoWork /\ outstanding = 0
  BY DEF RunInv, Build
<1>3. cloud' \in Clouds /\ goal' \in SampleCounts /\ cooldown' = cooldown
  BY <1>1, ReloadAssumption DEF Build, Around, scheduler
<1>4. mdt' = [p \in Points |-> Inf] /\ mdt' \in [Points -> 0..Inf]
  BY DistAssumption DEF Build
<1>5. NoWork' /\ outstanding' = 0 /\ samples' = <<>> /\ status' = "built"
  BY <1>2 DEF Build, NoWork, scheduler, engine
<1>6. RunInv'
  BY <1>1, <1>3, <1>4, <1>5, IdleNext DEF Around
<1>7. goal' \in Nat
  BY <1>3, <1>6, AroundIs, CountsAssumption, PointsAssumption, FS_CardinalityType
<1> QED BY <1>2, <1>3, <1>5, <1>6, <1>7 DEF FPS!Load, Build

LEMMA RunStep ==
  ASSUME RunInv, Run
  PROVE  RunInv' /\ FPS!Begin
<1>1. Around /\ status = "built" /\ samples = <<>> /\ NoWork /\ outstanding = 0
      /\ mdt = [p \in Points |-> Inf]
  BY AroundIs DEF RunInv, Run
<1>2. PICK first \in FirstSamples :
        /\ samples' = <<first>>
        /\ IF goal = 1 THEN status' = "ended" /\ UNCHANGED scheduler
           ELSE status' = "running" /\ Create(first)
  BY DEF Run
<1>3. first \in Points
  BY CountsAssumption
<1>4. cloud' = cloud /\ goal' = goal /\ mdt' = mdt /\ bucketFifo' = bucketFifo
      /\ farFifo' = farFifo /\ task' = task
  BY DEF Run, engine
<1>5. PICK s \in Seq(Points) : s = <<first>> /\ Len(s) = 1
  <2>1. \A S, x : x \in S => <<x>> \in Seq(S) /\ Len(<<x>>) = 1
    OBVIOUS
  <2> QED BY <1>3, <2>1
<1>6. RunInv'
  <2>1. CASE goal = 1
    <3>1. status' = "ended" /\ UNCHANGED scheduler
      BY <1>2, <2>1
    <3>2. NoWork' /\ outstanding' = 0 /\ cooldown' = cooldown
      BY <1>1, <1>4, <3>1 DEF NoWork, scheduler
    <3>3. (cloud \in Clouds /\ goal \in SampleCounts /\ cooldown \in Nat
            /\ mdt \in [Points -> 0..Inf])'
      BY <1>1, <1>4, <3>2 DEF Around
    <3>4. samples' \in Seq(Points) /\ Len(samples') = goal'
      BY <1>2, <1>4, <1>5, <2>1
    <3> QED BY <3>1, <3>2, <3>3, <3>4, EndedNext
  <2>2. CASE goal # 1
    <3>1. status' = "running" /\ Create(first)
      BY <1>2, <2>2
    <3>2. NoWork' /\ outstanding' = 0 /\ cooldown' = 0 /\ ~done' /\ pos' = 0
          /\ sampledCount' = 1 /\ current' = first
      BY <1>1, <1>4, <3>1 DEF NoWork, Create
    <3>3. (cloud \in Clouds /\ goal \in SampleCounts /\ cooldown \in Nat
            /\ mdt \in [Points -> 0..Inf])'
      BY <1>1, <1>4, <3>2 DEF Around
    <3>4. (table = [b \in BucketIds |-> [far |-> PointPtr(b), dist |-> Inf, merges |-> <<>>]])'
      <4>1. BucketIds' = BucketIds /\ \A b : PointPtr(b)' = PointPtr(b)
        BY <1>4, SamePlaces
      <4> QED BY <3>1, <4>1 DEF Create
    <3>5. (mdt = [p \in Points |-> Inf])'
      BY <1>1, <1>4
    <3>6. LoopInv(1, first, 0, <<first>>)'
      BY <1>3, <3>2, <3>3, <3>4, <3>5, FirstLoopNext
    <3>7. 1 < goal'
      BY <1>1, <1>4, <2>2 DEF Around
    <3> QED BY <1>2, <3>1, <3>2, <3>3, <3>6, <3>7, RunningNext
  <2> QED BY <2>1, <2>2
<1>7. FPS!Begin
  <2>1. (status = "returned") = FALSE /\ (status = "returned")' = FALSE
    BY <1>1, <1>2
  <2> QED BY <1>1, <1>2, <1>3, <1>4, <2>1 DEF FPS!Begin
<1> QED BY <1>6, <1>7

LEMMA CycleRuns ==
  ASSUME RunInv, Cycle
  PROVE  RunInv' /\ (FPS!Pick \/ UNCHANGED FPS!vars)
<1>1. PICK moved : moved \subseteq Pending /\ CycleWith(moved)
  BY DEF Cycle
<1>2. status = "running" /\ cloud' = cloud /\ goal' = goal
  BY <1>1 DEF CycleWith
<1>3. PICK n, cur, w, s : InLoop(n, cur, w, s) /\ samples = s /\ ~done /\ n < goal
  BY <1>2, RunningIs
<1>4. Around
  BY AroundIs
<1>5. AreSampled(n, s) /\ QueueTypes /\ n \in Nat \ {0} /\ s \in Seq(Points) /\ Len(s) = n
  BY <1>3, LoopTypes DEF AreSampled
<1>6. (cloud \in Clouds /\ goal \in SampleCounts /\ cooldown \in Nat
        /\ mdt \in [Points -> 0..Inf])'
  <2>1. mdt' \in [Points -> 0..Inf]
    BY <1>1, <1>4, <1>5, DistancesMove DEF Around
  <2>2. Cooled \in Nat
    <3>1. ISSUE_II - 1 \in Nat /\ cooldown \in Nat
      BY <1>4, Sizes DEF Around
    <3> QED BY <3>1 DEF Cooled
  <2>3. cooldown' \in Nat
    BY <1>1, <2>2 DEF CycleWith, Step, CompleteIteration, ContinueIteration
  <2> QED BY <1>2, <1>4, <2>1, <2>3 DEF Around
<1>7. PICK v : v = Walked
  OBVIOUS
<1>8. LoopGoesOn(n, cur, v, s) \/ \E x : LoopPicks(n, s, x)
  BY <1>1, <1>3, <1>7, CycleStep
<1>9. CASE LoopGoesOn(n, cur, v, s)
  <2>1. RunInv'
    BY <1>2, <1>3, <1>6, <1>9, RunningNext DEF LoopGoesOn
  <2>2. UNCHANGED FPS!vars
    <3>1. (status = "returned") = FALSE /\ (status = "returned")' = FALSE
      BY <1>2, <1>9 DEF LoopGoesOn
    <3> QED BY <1>2, <1>3, <1>9, <3>1 DEF LoopGoesOn, FPS!vars
  <2> QED BY <2>1, <2>2
<1>10. CASE \E x : LoopPicks(n, s, x)
  <2>1. PICK x : LoopPicks(n, s, x)
    BY <1>10
  <2>2. PICK z \in Seq(Points) : z = Append(s, x) /\ Len(z) = n + 1 /\ samples' = z
    BY <1>5, <2>1, AppendProperties DEF LoopPicks
  <2>3. RunInv'
    <3>1. CASE n + 1 = goal /\ status' = "ended" /\ NoWork' /\ outstanding' = 0
      BY <1>2, <1>6, <2>2, <3>1, EndedNext
    <3>2. CASE /\ n + 1 # goal /\ status' = "running" /\ ~done' /\ pos' = 0
               /\ LoopInv(n + 1, x, 0, Append(s, x))'
      <4>1. n + 1 < goal'
        BY <1>2, <1>3, <1>4, <1>5, <3>2 DEF Around
      <4>2. sampledCount' = n + 1 /\ current' = x /\ samples' = Append(s, x)
        BY <2>1 DEF LoopPicks
      <4> QED BY <1>6, <3>2, <4>1, <4>2, RunningNext
    <3> QED BY <2>1, <3>1, <3>2 DEF LoopPicks
  <2>4. FPS!Pick
    <3>1. (status = "returned") = FALSE /\ (status = "returned")' = FALSE
      BY <1>2, <2>1 DEF LoopPicks
    <3>2. samples # <<>> /\ ~(Len(samples) >= goal)
      BY <1>3, <1>4, <1>5, EmptySeq DEF Around
    <3>3. FPS!SampleSet = {s[i] : i \in 1..n}
      BY <1>3, <1>5, LenProperties DEF FPS!SampleSet
    <3>4. x \in Points /\ FPS!Farthest(cloud, FPS!SampleSet, x) /\ samples' = Append(samples, x)
      BY <1>3, <2>1, <3>3 DEF LoopPicks
    <3> QED BY <1>2, <3>1, <3>2, <3>4 DEF FPS!Pick, FPS!Complete
  <2> QED BY <2>3, <2>4
<1> QED BY <1>8, <1>9, <1>10

LEMMA DiscardedStep ==
  ASSUME RunInv, Discarded
  PROVE  RunInv'
<1>1. Around
  BY AroundIs
<1>2. NoWork' /\ outstanding' = 0 /\ samples' = <<>> /\ status' = "none"
      /\ cooldown' = 0 /\ cloud' = cloud /\ goal' = goal /\ mdt' = mdt
  BY DEF Discarded, NoWork
<1> QED BY <1>1, <1>2, IdleNext DEF Around

(* A step that changes nothing keeps the invariant. *)
LEMMA LoopStands ==
  ASSUME UNCHANGED vars, NEW n, NEW cur, NEW w, NEW s, LoopInv(n, cur, w, s)
  PROVE  LoopInv(n, cur, w, s)'
<1>1. /\ cloud' = cloud /\ mdt' = mdt /\ table' = table /\ fetching' = fetching
      /\ fetched' = fetched /\ cd' = cd /\ decided' = decided /\ writebacks' = writebacks
      /\ outstanding' = outstanding /\ bucketFifo' = bucketFifo /\ farFifo' = farFifo
      /\ task' = task
  BY DEF vars, scheduler, engine
<1>2. BucketIds' = BucketIds /\ BucketCount' = BucketCount /\ Winner(cur)' = Winner(cur)
      /\ Decision' = Decision /\ Far' = Far /\ Entry' = Entry
  BY <1>1 DEF BucketIds, BucketCount, Winner, Decision, Far, Entry
<1>3. (\A b : Members(b)' = Members(b)) /\ (\A b : PointPtr(b)' = PointPtr(b))
  BY <1>1, SamePlaces
<1>4. (\A b, k : Chunk(b, k)' = Chunk(b, k)) /\ (\A b : ChunkIdsOf(b)' = ChunkIdsOf(b))
      /\ (\A b : TaskOf(b)' = TaskOf(b))
  BY <1>2, <1>3 DEF Chunk, ChunkIdsOf, MakeChunks, TaskOf
<1>5. QueueTypes'
  BY <1>1, <1>2, <1>4 DEF LoopInv, QueueTypes
<1>6. DepthInv'
  BY <1>1 DEF LoopInv, DepthInv
<1>7. (\A k : VisitOf(cur, k)' = VisitOf(cur, k)) /\ (\A b : Position(cur, b)' = Position(cur, b))
      /\ Carried(w)' = Carried(w)
  BY <1>1, <1>2 DEF VisitOf, Position, Carried
<1>8. WalkInv(cur, w)'
  BY <1>1, <1>2, <1>7 DEF LoopInv, WalkInv
<1>9. InService' = InService
  BY <1>1 DEF InService
<1>10. ServiceInv(cur, w)' /\ outstanding' = Len(InService')
  BY <1>1, <1>7, <1>9 DEF LoopInv, ServiceInv
<1>11. Waiting' = Waiting
  BY <1>1 DEF Waiting
<1>12. \A d : Stands(n, cur, d)' <=> Stands(n, cur, d)
  BY <1>1 DEF Stands
<1>13. \A p : Sound(n, s, p)' <=> Sound(n, s, p)
  BY <1>1 DEF Sound
<1>14. \A m, p : Knows(m, s, p)' <=> Knows(m, s, p)
  BY <1>1 DEF Knows
<1>15. \A m, p, refs : WillKnow(m, s, p, refs)' <=> WillKnow(m, s, p, refs)
  BY <1>1 DEF WillKnow
<1>16. \A m, b, x, d : Summary(m, s, b, x, d)' <=> Summary(m, s, b, x, d)
  BY <1>1, <1>3 DEF Summary
<1>17. \A b : Account(n, cur, w, b)' = Account(n, cur, w, b)
  BY <1>7, <1>9 DEF Account, Settled
<1>18. \A b : EntryInv(n, cur, w, s, b)' <=> EntryInv(n, cur, w, s, b)
  BY <1>1, <1>3, <1>9, <1>15, <1>16, <1>17 DEF EntryInv
<1>19. \A d : IssuedInv(n, s, d)' <=> IssuedInv(n, s, d)
  BY <1>3, <1>15 DEF IssuedInv
<1>20. \A t : Reached(t)' = Reached(t)
  BY <1>4 DEF Reached
<1>21. \A t : BestInv(t)' <=> BestInv(t)
  BY <1>1, <1>3, <1>20 DEF BestInv
<1>22. \A t : TaskInv(n, s, t)' <=> TaskInv(n, s, t)
  BY <1>14, <1>19, <1>20, <1>21 DEF TaskInv
<1>23. \A r : FarInv(n, s, r)' <=> FarInv(n, s, r)
  BY <1>1, <1>3, <1>14 DEF FarInv
<1>24. DataInv(n, cur, w, s)'
  BY <1>1, <1>2, <1>13, <1>18, <1>19, <1>22, <1>23 DEF LoopInv, DataInv
<1> QED BY <1>5, <1>6, <1>8, <1>10, <1>11, <1>12, <1>24 DEF LoopInv

LEMMA StutterKeeps ==
  ASSUME RunInv, UNCHANGED vars
  PROVE  RunInv'
<1>1. status' = status /\ cloud' = cloud /\ goal' = goal /\ samples' = samples /\ mdt' = mdt
      /\ cooldown' = cooldown /\ sampledCount' = sampledCount /\ current' = current
      /\ pos' = pos /\ (done' = done) /\ outstanding' = outstanding
  BY DEF vars, scheduler, engine
<1>2. NoWork => NoWork'
  BY DEF NoWork, vars, scheduler, engine
<1>3. CASE status = "running"
  <2>1. PICK n, cur, w, s :
          /\ n = sampledCount /\ cur = current /\ w = pos /\ s = samples
          /\ LoopInv(n, cur, w, s) /\ n < goal /\ ~done
    BY <1>3 DEF RunInv
  <2>2. LoopInv(n, cur, w, s)'
    BY <2>1, LoopStands
  <2>3. (cloud \in Clouds /\ goal \in SampleCounts /\ cooldown \in Nat
          /\ mdt \in [Points -> 0..Inf])'
    BY <1>1 DEF RunInv
  <2>4. ~done'
    BY <1>1, <2>1, Zenon
  <2> QED BY <1>1, <1>3, <2>1, <2>2, <2>3, <2>4, RunningNext
<1>4. CASE status # "running"
  BY <1>1, <1>2, <1>4 DEF RunInv
<1> QED BY <1>3, <1>4

LEMMA RunStepped ==
  ASSUME RunInv, [Next]_vars
  PROVE  RunInv' /\ [FPS!Next]_FPS!vars
<1>1. CASE Build
  BY <1>1, BuildStep DEF FPS!Next
<1>2. CASE Run
  BY <1>2, RunStep DEF FPS!Next
<1>3. CASE Cycle
  BY <1>3, CycleRuns DEF FPS!Next
<1>4. CASE TimeOut
  <2>1. RunInv'
    BY <1>4, DiscardedStep DEF TimeOut
  <2>2. FPS!Abort
    BY <1>4 DEF FPS!Abort, TimeOut, Discarded
  <2> QED BY <2>1, <2>2 DEF FPS!Next
<1>5. CASE Return
  <2>1. Around /\ NoWork /\ outstanding = 0 /\ samples \in Seq(Points) /\ Len(samples) = goal
    BY <1>5, AroundIs DEF RunInv, Return
  <2>2. status' = "returned" /\ cloud' = cloud /\ goal' = goal /\ mdt' = mdt /\ samples' = samples
        /\ cooldown' = cooldown /\ NoWork' /\ outstanding' = 0
    BY <1>5, <2>1 DEF Return, NoWork, scheduler, engine
  <2>3. RunInv'
    BY <2>1, <2>2, EndedNext DEF Around
  <2>4. FPS!Report
    <3>1. samples # <<>> /\ Len(samples) >= goal
      BY <2>1, EmptySeq DEF Around
    <3> QED BY <2>2, <3>1 DEF FPS!Report, FPS!Complete
  <2> QED BY <2>3, <2>4 DEF FPS!Next
<1>6. CASE Discard
  <2>1. RunInv'
    BY <1>6, DiscardedStep DEF Discard
  <2>2. FPS!Retire
    BY <1>6 DEF FPS!Retire, Discard, Discarded
  <2> QED BY <2>1, <2>2 DEF FPS!Next
<1>7. CASE UNCHANGED vars
  <2>1. /\ status' = status /\ cloud' = cloud /\ goal' = goal /\ mdt' = mdt /\ samples' = samples
        /\ table' = table /\ current' = current /\ sampledCount' = sampledCount /\ (done' = done)
        /\ pos' = pos /\ fetching' = fetching /\ fetched' = fetched /\ cd' = cd
        /\ decided' = decided /\ writebacks' = writebacks /\ outstanding' = outstanding
        /\ cooldown' = cooldown
        /\ bucketFifo' = bucketFifo /\ farFifo' = farFifo /\ task' = task
    BY <1>7 DEF vars, scheduler, engine
  <2>2. UNCHANGED FPS!vars
    BY <2>1 DEF FPS!vars
  <2>3. RunInv'
    BY <1>7, StutterKeeps
  <2> QED BY <2>2, <2>3
<1> QED BY <1>1, <1>2, <1>3, <1>4, <1>5, <1>6, <1>7 DEF Next

-----------------------------------------------------------------------------
(* The properties.                                                         *)

LEMMA AscendingCount ==
  ASSUME NEW B, NEW q \in Seq(B), NEW P, NEW c, Ascending(P, c, q)
  PROVE  Cardinality(Elements(q)) = Len(q)
<1>1. PICK m \in Nat : m = Len(q) /\ DOMAIN q = 1..m
  BY LenProperties
<1>2. PICK f : f = [i \in 1..m |-> q[i]]
  OBVIOUS
<1>3. Elements(q) = {q[i] : i \in 1..m}
  BY <1>1 DEF Elements
<1>4. f \in [1..m -> Elements(q)] /\ \A x \in Elements(q) : \E i \in 1..m : f[i] = x
  BY <1>2, <1>3
<1>5. \A i, j \in 1..m : f[i] = f[j] => i = j
  <2> SUFFICES ASSUME NEW i \in 1..m, NEW j \in 1..m, f[i] = f[j] PROVE i = j
    OBVIOUS
  <2>1. q[i] = q[j]
    BY <1>2
  <2>2. P[q[i]] \in Nat /\ (i < j => P[q[i]] < P[q[j]]) /\ (j < i => P[q[j]] < P[q[i]])
    BY <1>1 DEF Ascending
  <2> QED BY <2>1, <2>2
<1>6. f \in Bijection(1..m, Elements(q))
  BY <1>4, <1>5, Fun_IsBij
<1>7. ExistsBijection(1..m, Elements(q))
  BY <1>6, Fun_ExistsBij
<1> QED BY <1>1, <1>7, FS_CountingElements

LEMMA NothingInService ==
  ASSUME NoWork
  PROVE  /\ InService = <<>> /\ Elements(InService) = {} /\ Len(InService) = 0
         /\ Waiting = {} /\ Items(writebacks) \cup Elements(farFifo) = {}
         /\ Len(bucketFifo) = 0 /\ Len(farFifo) = 0 /\ Len(fetching) = 0 /\ Len(fetched) = 0
         /\ Len(cd) = 0 /\ Len(decided) = 0
<1>1. /\ fetching = <<>> /\ fetched = <<>> /\ cd = <<>> /\ decided = <<>> /\ writebacks = <<>>
      /\ bucketFifo = <<>> /\ farFifo = <<>> /\ task = <<>>
  BY DEF NoWork
<1>2. DOMAIN <<>> = {} /\ Len(<<>>) = 0
  OBVIOUS
<1>3. /\ [i \in DOMAIN writebacks |-> writebacks[i].item.bid] = <<>>
      /\ [i \in DOMAIN farFifo |-> farFifo[i].bid] = <<>>
      /\ [i \in DOMAIN bucketFifo |-> bucketFifo[i].bid] = <<>>
  BY <1>1, <1>2
<1>4. <<>> \o <<>> = <<>>
  BY EmptySeq, ConcatEmptySeq
<1>5. InService = <<>>
  BY <1>1, <1>3, <1>4 DEF InService
<1>6. Elements(InService) = {} /\ Waiting = {} /\ Items(writebacks) \cup Elements(farFifo) = {}
  BY <1>1, <1>2, <1>5 DEF Elements, Items, Waiting
<1> QED BY <1>1, <1>2, <1>5, <1>6

LEMMA RunningLoop ==
  ASSUME RunInv, status = "running"
  PROVE  \E n, cur, w, s : InLoop(n, cur, w, s) /\ DepthInv /\ outstanding = Len(InService)
                           /\ (\A d \in Waiting : Stands(n, cur, d)) /\ samples = s
<1>1. PICK n, cur, w, s : InLoop(n, cur, w, s) /\ samples = s
  BY RunningIs
<1>2. LoopInv(n, cur, w, s)
  BY <1>1 DEF InLoop
<1>3. DepthInv /\ outstanding = Len(InService) /\ \A d \in Waiting : Stands(n, cur, d)
  BY <1>2 DEF LoopInv
<1> QED BY <1>1, <1>3

LEMMA OutstandingFollows == ASSUME RunInv PROVE OutstandingExact
<1>1. CASE status = "running"
  <2>1. PICK n, cur, w, s : InLoop(n, cur, w, s) /\ DepthInv /\ outstanding = Len(InService)
    BY <1>1, RunningLoop
  <2>2. /\ cur \in Points /\ w \in Nat /\ QueueTypes /\ WalkInv(cur, w) /\ ServiceInv(cur, w)
        /\ cloud \in Clouds
    BY <2>1, LoopTypes DEF InLoop
  <2>3. PICK c \in Nat : c = Carried(w)
    BY <2>1, LoopTypes
  <2>4. PICK P : P = PositionsOf(cur)
    OBVIOUS
  <2>5. Ascending(P, c, InService)
    BY <2>2, <2>3, <2>4, ServiceIs
  <2>6. PICK B : B = BucketIds
    OBVIOUS
  <2>7. PICK q \in Seq(B) : q = InService
    BY <2>2, <2>6, InServiceType
  <2>8. Cardinality(Elements(InService)) = Len(InService)
    BY <2>5, <2>7, AscendingCount
  <2>9. \A b \in Elements(InService) : Position(cur, b) < c
    BY <2>2, <2>3 DEF ServiceInv, Elements
  <2>10. WalkIds(cur, c)
    BY <2>2, <2>3, WalkVisits
  <2>11. \A b \in Undecided \cup {d.bid : d \in Waiting} : Position(cur, b) \in Int /\ Position(cur, b) >= c
    <3>1. \A b \in Undecided \cup {d.bid : d \in Waiting} : b \in BucketIds /\ Position(cur, b) >= c
      BY <2>10 DEF WalkIds, Decision
    <3>2. LastBucket(cloud) \in Nat /\ \A b \in BucketIds : Position(cur, b) \in 0..LastBucket(cloud)
      BY <2>2, Walk, CloudFacts
    <3> QED BY <3>1, <3>2
  <2>12. Elements(InService) \cap (Undecided \cup {d.bid : d \in Waiting}) = {}
    BY <2>9, <2>11
  <2> QED BY <2>1, <2>8, <2>12 DEF OutstandingExact, DepthInv
<1>2. CASE status # "running"
  <2>1. NoWork /\ outstanding = 0
    BY <1>2 DEF RunInv
  <2>2. /\ Elements(InService) = {} /\ Len(InService) = 0
        /\ Len(bucketFifo) = 0 /\ Len(farFifo) = 0
    BY <2>1, NothingInService
  <2>3. Cardinality(Elements(InService)) = 0
    BY <2>2, FS_EmptySet
  <2>4. Elements(InService) \cap (Undecided \cup {d.bid : d \in Waiting}) = {}
    BY <2>2
  <2>5. Len(bucketFifo) <= BUCKET_DEPTH /\ Len(farFifo) <= FAR_DEPTH
    BY <2>2, Sizes
  <2> QED BY <2>1, <2>2, <2>3, <2>4, <2>5 DEF OutstandingExact
<1> QED BY <1>1, <1>2

LEMMA DecisionsFollow == ASSUME RunInv PROVE DecisionsStand
<1>1. CASE status = "running"
  <2>1. PICK n, cur, w, s : InLoop(n, cur, w, s) /\ DepthInv /\ \A d \in Waiting : Stands(n, cur, d)
    BY <1>1, RunningLoop
  <2>2. current = cur
    BY <2>1 DEF InLoop
  <2> QED BY <2>1, <2>2 DEF DecisionsStand, DepthInv, Stands
<1>2. CASE status # "running"
  <2>1. NoWork
    BY <1>2 DEF RunInv
  <2> QED BY <2>1, NothingInService, Sizes DEF DecisionsStand
<1> QED BY <1>1, <1>2

(* A far point that is exact by the samples known is so by the property.   *)
LEMMA FarIsNearest ==
  ASSUME cloud \in Clouds, NEW n, NEW s, AreSampled(n, s), samples = s,
         \A p \in Points : Sound(n, s, p) /\ mdt[p] \in Nat,
         NEW p \in Points, Knows(n, s, p)
  PROVE  IsNearest(p, mdt[p])
<1>1. n \in Nat \ {0} /\ 1 \in 1..n /\ DOMAIN samples = 1..n
  BY LenProperties DEF AreSampled
<1>2. PICK x \in Points : x = s[1]
  BY <1>1, SampledPoints
<1>3. PICK I \in Nat : I = Inf /\ Dist(cloud, p, x) < I /\ Dist(cloud, p, x) \in Nat
  BY CloudFacts
<1>4. mdt[p] <= Dist(cloud, p, x) /\ mdt[p] \in Nat
  BY <1>1, <1>2 DEF Knows
<1>5. mdt[p] # Inf
  BY <1>3, <1>4
<1>6. \E i \in 1..n : mdt[p] = Dist(cloud, p, s[i])
  BY <1>5 DEF Sound
<1>7. \A i \in 1..n : mdt[p] <= Dist(cloud, p, s[i])
  BY DEF Knows
<1> QED BY <1>1, <1>6, <1>7 DEF IsNearest

LEMMA FarPointsFollow == ASSUME RunInv PROVE FarPointsExact
<1>1. CASE status = "running"
  <2>1. PICK n, cur, w, s : InLoop(n, cur, w, s) /\ samples = s
    BY <1>1, RunningLoop
  <2>2. AreSampled(n, s) /\ cloud \in Clouds /\ QueueTypes /\ DataInv(n, cur, w, s)
        /\ cur \in Points /\ w \in Nat /\ ServiceInv(cur, w)
    BY <2>1, LoopTypes DEF InLoop
  <2>3. \A p \in Points : Sound(n, s, p) /\ mdt[p] \in Nat
    <3>1. mdt \in [Points -> 0..Inf] /\ \A p \in Points : Sound(n, s, p)
      BY <2>2 DEF QueueTypes, DataInv
    <3> QED BY <3>1
  <2>4. ServiceParts
    BY <2>2, ServiceIs, ServiceApart
  <2>5. SUFFICES ASSUME NEW r \in Items(writebacks) \cup Elements(farFifo)
                 PROVE  /\ r.idx \in Members(r.bid) /\ r.dist = mdt[r.idx]
                        /\ \A p \in Members(r.bid) :
                             /\ IsNearest(p, mdt[p])
                             /\ p # r.idx => mdt[p] < r.dist \/ (mdt[p] = r.dist /\ r.idx < p)
    BY DEF FarPointsExact
  <2>6. FarInv(n, s, r) /\ r \in Far
    BY <2>2, <2>4 DEF DataInv, ServiceParts
  <2>7. r.bid \in BucketIds /\ Members(r.bid) \subseteq Points
    BY <2>2, <2>6, CloudFacts DEF Far
  <2>8. r.idx \in Members(r.bid) /\ r.dist = mdt[r.idx]
    BY <2>6 DEF FarInv
  <2>9. ASSUME NEW p \in Members(r.bid)
        PROVE  /\ IsNearest(p, mdt[p])
               /\ p # r.idx => mdt[p] < r.dist \/ (mdt[p] = r.dist /\ r.idx < p)
    <3>1. p \in Points /\ mdt[p] \in Nat /\ Knows(n, s, p)
      BY <2>3, <2>6, <2>7 DEF FarInv
    <3>2. IsNearest(p, mdt[p])
      BY <2>1, <2>2, <2>3, <3>1, FarIsNearest
    <3>3. p # r.idx => Better(r.dist, r.idx, mdt[p], p)
      BY <2>6 DEF FarInv
    <3>4. r.dist \in Nat
      BY <2>3, <2>7, <2>8
    <3> QED BY <3>1, <3>2, <3>3, <3>4 DEF Better
  <2> QED BY <2>8, <2>9
<1>2. CASE status # "running"
  <2>1. NoWork
    BY <1>2 DEF RunInv
  <2> QED BY <2>1, NothingInService DEF FarPointsExact
<1> QED BY <1>1, <1>2

-----------------------------------------------------------------------------

(* The driver's loop, the scheduler and the point engine keep the          *)
(* invariant, whatever the memory answers in a cycle.                      *)
THEOREM RunInvariant == Spec => []RunInv
<1>1. RunInv /\ [Next]_vars => RunInv'
  BY RunStepped
<1> QED BY InitHolds, <1>1, PTL DEF Spec

(* Every bucket the scheduler hands out is counted in outstanding_, is on  *)
(* its way through the point engine once, and is not decided again before  *)
(* its far point is written: the engine's two FIFOs never overflow.        *)
THEOREM BucketsReturn == Spec => []OutstandingExact
<1>1. RunInv => OutstandingExact
  BY OutstandingFollows
<1> QED BY RunInvariant, <1>1, PTL

(* A decision that waits in the distance unit or in the decision FIFO is   *)
(* still right when the scheduler carries it out: no write of a far point  *)
(* and no other decision touches its bucket meanwhile.                     *)
THEOREM DecisionsHold == Spec => []DecisionsStand
<1>1. RunInv => DecisionsStand
  BY DecisionsFollow
<1> QED BY RunInvariant, <1>1, PTL

(* The far point on its way back from the point engine is that of the      *)
(* whole bucket by all samples so far, deferred and skipped ones included. *)
THEOREM FarPointsKept == Spec => []FarPointsExact
<1>1. RunInv => FarPointsExact
  BY FarPointsFollow
<1> QED BY RunInvariant, <1>1, PTL

(* The cycle model implements farthest-point sampling: every sample it     *)
(* appends is the farthest point of the definition, for every cloud, depth *)
(* and latency and every order in which the memory answers.                *)
THEOREM SamplesAsDefined == Spec => ExactSampling
<1>1. Init => FPS!Init
  <2> SUFFICES ASSUME Init PROVE FPS!Init
    OBVIOUS
  <2>1. goal \in Nat
    BY InitHolds, AroundIs DEF Around
  <2> QED BY <2>1 DEF Init, FPS!Init
<1>2. RunInv /\ [Next]_vars => [FPS!Next]_FPS!vars
  BY RunStepped
<1> QED BY <1>1, <1>2, RunInvariant, PTL DEF Spec, ExactSampling, FPS!Spec
=============================================================================
