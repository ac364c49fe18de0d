------------------------ MODULE PointBatches_proofs -------------------------
(***************************************************************************)
(* The point engine edge by edge: it answers each bucket with the far      *)
(* point of its final distances, each the least of what it was and those   *)
(* to all references, after exactly the modelled number of cycles, for     *)
(* every size of the array, number of stages, points and references.       *)
(***************************************************************************)
EXTENDS PointBatches, WellFoundedInduction, SequenceTheorems, TLAPS

Memory == [Addresses -> 0..Inf]

(* The references of the task, as far as they go. *)
RefAt(k) ==
  IF k < Len(task.merges) THEN task.merges[k + 1]
  ELSE IF k = Len(task.merges) THEN task.sample ELSE NoRef

(* m is the least of the distance a had and those to the first k of them.  *)
LeastOf(a, k, m) ==
  /\ m \in 0..Inf /\ m <= before[a]
  /\ \A i \in 0..k - 1 : m <= Dist(a, RefAt(i))
  /\ m = before[a] \/ \E i \in 0..k - 1 : m = Dist(a, RefAt(i))

(* In the memory m the first points of the bucket have met k references,   *)
(* the others fewer.                                                       *)
Distances(m, done, k, fewer) ==
  \A a \in Addresses :
    IF a \notin Members THEN m[a] = before[a]
    ELSE IF a - task.base < done THEN LeastOf(a, k, m[a]) ELSE LeastOf(a, fewer, m[a])

(* The tree T has the best of the local indices S, by the distances D.     *)
TreeOf(T, D, S) ==
  \/ S = {} /\ T = <<>>
  \/ \E i \in S : /\ T = <<[idx |-> i, dist |-> D[i]]>>
                  /\ \A o \in S \ {i} : Better(D[i], i, D[o], o)

LocalDistances(m) == [i \in 0..task.points - 1 |-> m[task.base + i]]

(* It has the far point of the first points of the bucket. *)
TreeHas(done) == TreeOf(tree, LocalDistances(mdt), {i \in 0..task.points - 1 : i < done})

PassTime == L + NumBatches + PipeLength

Working(x) ==
  /\ task \in Descriptors /\ task.points >= 1 /\ pass \in 0..NumPasses - 1
  /\ age = 1 + pass * PassTime + x
  /\ ModelLatency(task.points, Len(task.merges)) <= MAX_AGE

Quiet == issue.lanes = {} /\ \A i \in 1..PipeLength : rows[i].lanes = {}

Loaded(n) == \A j \in 0..n - 1 : columns[j] = RefAt(pass * L + j)

LoadInv ==
  /\ Working(c) /\ c \in Columns
  /\ Loaded(c)
  /\ Distances(mdt, 0, 0, pass * L)
  /\ LastPass /\ c > 0 => tree = <<>>

(* Batch b in a row that has met k references, or nothing if there is none *)
(* of that number.                                                         *)
RowHolds(row, b, k) ==
  IF b \in 0..NumBatches - 1
  THEN /\ row.first = b * R /\ row.lanes = LanesOf(b)
       /\ \A g \in LanesOf(b) : /\ row.place[g] = task.base + b * R + g
                                /\ LeastOf(task.base + b * R + g, k, row.dist[g])
  ELSE row.lanes = {}

(* How many columns a row has met behind stage i. *)
MetBehind(i) == (i - 1) \div PE_STAGES + 1

IsRow(row) ==
  row = [first |-> row.first, lanes |-> row.lanes, place |-> row.place, dist |-> row.dist]

(* After j edges of a pass: the requests, the counts, and what is where.   *)
StreamInv(j) ==
  /\ Working(L + j)
  /\ Loaded(L)
  /\ inBatch = (IF j < NumBatches THEN j + 1 ELSE NumBatches)
  /\ capBatch = (IF j < PipeLength THEN 0 ELSE j - PipeLength)
  /\ IF j < NumBatches
     THEN /\ coAddr = task.base + j * R /\ diAddr = task.base + j * R
          /\ issue = [first |-> j * R, lanes |-> LanesOf(j)]
     ELSE issue.lanes = {}
  /\ \A i \in 1..PipeLength : RowHolds(rows[i], j - i, pass * L + MetBehind(i))
  /\ Distances(mdt, (j - PipeLength) * R, (pass + 1) * L, pass * L)
  /\ LastPass => TreeHas((j - PipeLength) * R)

Finished(x) ==
  /\ Working(PassTime + x) /\ LastPass
  /\ Distances(mdt, task.points, NumPasses * L, 0)

CollectInv == Finished(0) /\ TreeHas(task.points)

CaptureInv ==
  /\ Finished(1) /\ TreeHas(task.points)
  /\ coAddr = task.base + (tree[1].idx \div R) * R

PushInv ==
  /\ Finished(2)
  /\ hold.bid = task.bid /\ hold.idx \in Members /\ hold.place = hold.idx
  /\ hold.dist = mdt[hold.idx]
  /\ \A a \in Members \ {hold.idx} : Better(hold.dist, hold.idx, mdt[a], a)

Bounded(t) == ModelLatency(t.points, Len(t.merges)) <= MAX_AGE

Common ==
  /\ mdt \in Memory /\ before \in Memory /\ columns \in [Columns -> Places]
  /\ fifo \in Seq(Descriptors) /\ \A i \in DOMAIN fifo : Bounded(fifo[i])
  /\ age \in Nat /\ \A i \in 1..PipeLength : IsRow(rows[i])

Phase ==
  /\ st \in {"IDLE", "LDMERGE", "STREAM", "COLLECT", "CAPTURE", "PUSH"}
  /\ st # "STREAM" => Quiet
  /\ st = "LDMERGE" => LoadInv
  /\ st = "STREAM" => \E j \in 0..NumBatches + PipeLength - 1 : StreamInv(j)
  /\ st = "COLLECT" => CollectInv
  /\ st = "CAPTURE" => CaptureInv
  /\ st = "PUSH" => age = 1 \/ PushInv

EngineInv == Common /\ Phase

-----------------------------------------------------------------------------
(* Arithmetic of batches, stages and passes.                               *)

LEMMA DivMod ==
  ASSUME NEW a \in Nat, NEW d \in Nat, d >= 1
  PROVE  /\ a \div d \in Nat /\ a % d \in Nat /\ a % d < d
         /\ a = d * (a \div d) + (a % d)
OBVIOUS

LEMMA DivUnique ==
  ASSUME NEW k \in Nat, NEW d \in Nat, NEW r \in Nat, r < d
  PROVE  (d * k + r) \div d = k /\ (d * k + r) % d = r
<1>1. PICK a \in Nat : a = d * k + r
  OBVIOUS
<1>2. PICK q \in Nat, s \in Nat : q = a \div d /\ s = a % d /\ a = d * q + s /\ s < d
  BY DivMod
<1>3. ~(q < k)
  <2>1. SUFFICES ASSUME q < k PROVE FALSE
    OBVIOUS
  <2>2. d * (q + 1) <= d * k /\ d * (q + 1) = d * q + d
    BY <2>1
  <2> QED BY <1>1, <1>2, <2>2
<1>4. ~(k < q)
  <2>1. SUFFICES ASSUME k < q PROVE FALSE
    OBVIOUS
  <2>2. d * (k + 1) <= d * q /\ d * (k + 1) = d * k + d
    BY <2>1
  <2> QED BY <1>1, <1>2, <2>2
<1>5. q = k
  BY <1>3, <1>4
<1> QED BY <1>1, <1>2, <1>5

LEMMA Sizes ==
  /\ R = 4 /\ L \in Nat \ {0} /\ PE_STAGES \in Nat \ {0} /\ DEPTH \in Nat \ {0}
  /\ LOCAL_INDICES \in Nat \ {0} /\ Inf \in Nat /\ PipeLength \in Nat \ {0}
<1>1. L \in Nat \ {0} /\ PE_STAGES \in Nat \ {0}
  BY ArrayAssumption
<1>2. PipeLength \in Nat \ {0}
  <2>1. PICK p \in Nat : p = PE_STAGES - 1
    BY <1>1
  <2>2. L * PE_STAGES = L * p + L /\ L * p \in Nat
    BY <1>1, <2>1
  <2> QED BY <1>1, <2>2 DEF PipeLength
<1> QED BY <1>1, <1>2, ArrayAssumption, DistAssumption

(* The columns met behind each stage. *)
StageMeets(i) ==
  /\ MetBehind(i) \in 1..L
  /\ (i - 1) \div PE_STAGES = MetBehind(i) - 1
  /\ i = 1 => FirstOfColumn(i) /\ MetBehind(i) = 1
  /\ i > 1 /\ FirstOfColumn(i) => MetBehind(i) = MetBehind(i - 1) + 1
  /\ i > 1 /\ ~FirstOfColumn(i) => MetBehind(i) = MetBehind(i - 1)

LEMMA StageFacts ==
  ASSUME NEW i \in 1..PipeLength
  PROVE  StageMeets(i)
<1>1. PICK S \in Nat \ {0} : S = PE_STAGES
  BY Sizes
<1>2. PICK l \in Nat \ {0} : l = L
  BY Sizes
<1>3. i \in Nat /\ i >= 1 /\ i <= S * l
  BY <1>1, <1>2, Sizes DEF PipeLength
<1>4. PICK q \in Nat, r \in Nat : i - 1 = S * q + r /\ r < S /\ q = (i - 1) \div S /\ r = (i - 1) % S
  BY <1>3, DivMod
<1>5. q < l
  <2>1. SUFFICES ASSUME l <= q PROVE FALSE
    BY <1>4
  <2>2. S * l <= S * q
    BY <2>1
  <2>3. PICK u \in Nat, v \in Nat : u = S * l /\ v = S * q
    OBVIOUS
  <2> QED BY <1>3, <1>4, <2>2, <2>3
<1>6. MetBehind(i) = q + 1 /\ (FirstOfColumn(i) <=> r = 0)
  BY <1>1, <1>4 DEF MetBehind, FirstOfColumn
<1>7. i = 1 => q = 0 /\ r = 0
  <2>1. i = 1 => 0 = S * q + r
    BY <1>4
  <2>2. 0 \div S = 0 /\ 0 % S = 0
    BY DivUnique
  <2> QED BY <1>4, <2>2
<1>8. CASE i > 1 /\ r = 0
  <2>1. q >= 1
    <3>1. SUFFICES ASSUME q = 0 PROVE FALSE
      BY <1>4
    <3>2. S * q = 0
      BY <3>1
    <3> QED BY <1>4, <1>8, <3>2
  <2>2. PICK p \in Nat : p = q - 1
    BY <1>4, <2>1
  <2>3. PICK t \in Nat : t = S - 1 /\ t < S
    BY <1>1
  <2>4. S * q = S * p + S
    BY <2>2
  <2>5. i - 1 - 1 = S * p + t
    <3>1. PICK u \in Nat, v \in Nat : u = S * q /\ v = S * p
      OBVIOUS
    <3> QED BY <1>4, <1>8, <2>3, <2>4, <3>1
  <2>6. (i - 1 - 1) \div S = p
    BY <2>3, <2>5, DivUnique
  <2>7. MetBehind(i - 1) = q
    BY <1>1, <2>2, <2>6 DEF MetBehind
  <2> QED BY <1>1, <1>2, <1>4, <1>5, <1>6, <1>8, <2>7 DEF StageMeets
<1>9. CASE i > 1 /\ r # 0
  <2>1. PICK t \in Nat : t = r - 1 /\ t < S
    BY <1>4, <1>9
  <2>2. i - 1 - 1 = S * q + t
    <3>1. PICK u \in Nat : u = S * q
      OBVIOUS
    <3> QED BY <1>4, <1>9, <2>1, <3>1
  <2>3. (i - 1 - 1) \div S = q
    BY <2>1, <2>2, DivUnique
  <2>4. MetBehind(i - 1) = q + 1
    BY <1>1, <2>3 DEF MetBehind
  <2> QED BY <1>1, <1>2, <1>4, <1>5, <1>6, <1>9, <2>4 DEF StageMeets
<1>10. CASE i = 1
  BY <1>1, <1>2, <1>4, <1>5, <1>6, <1>7, <1>10 DEF StageMeets
<1> QED BY <1>3, <1>8, <1>9, <1>10

LEMMA LastStage == PipeLength \in 1..PipeLength /\ MetBehind(PipeLength) = L
<1>1. PICK S \in Nat \ {0} : S = PE_STAGES
  BY Sizes
<1>2. PICK l \in Nat \ {0} : l = L
  BY Sizes
<1>3. PICK p \in Nat, t \in Nat : p = l - 1 /\ t = S - 1 /\ t < S
  OBVIOUS
<1>4. PipeLength - 1 = S * p + t
  <2>1. l * S = S * p + S
    BY <1>3
  <2>2. PICK u \in Nat : u = S * p
    OBVIOUS
  <2> QED BY <1>1, <1>2, <1>3, <2>1, <2>2 DEF PipeLength
<1>5. (PipeLength - 1) \div S = p
  <2>1. (S * p + t) \div S = p
    BY <1>3, DivUnique
  <2> QED BY <1>4, <2>1
<1> QED BY <1>1, <1>2, <1>3, <1>5, Sizes DEF MetBehind

(* A task's batches and passes. *)
TaskSizes ==
  /\ task \in Descriptors
  /\ task.base \in Nat /\ task.points \in Nat /\ task.points <= LOCAL_INDICES
  /\ task.base + task.points <= DEPTH
  /\ task.merges \in Seq(Addresses) /\ Len(task.merges) \in Nat /\ task.sample \in Addresses
  /\ NumBatches \in Nat /\ task.points <= 4 * NumBatches
  /\ task.points >= 1 => NumBatches >= 1 /\ 4 * (NumBatches - 1) < task.points
  /\ NumPasses \in Nat \ {0} /\ Len(task.merges) + 1 <= NumPasses * L

LEMMA TaskFacts ==
  ASSUME task \in Descriptors
  PROVE  TaskSizes
<1>1. /\ task.base \in Nat /\ task.points \in 0..LOCAL_INDICES /\ task.base + task.points <= DEPTH
      /\ task.merges \in Seq(Addresses) /\ task.sample \in Addresses
  BY DEF Descriptors
<1>2. PICK n \in Nat : n = task.points
  BY <1>1, Sizes
<1>3. PICK m \in Nat : m = Len(task.merges)
  BY <1>1, LenProperties
<1>4. PICK l \in Nat \ {0} : l = L
  BY Sizes
<1>5. /\ NumBatches \in Nat /\ n <= 4 * NumBatches
      /\ n >= 1 => NumBatches >= 1 /\ 4 * (NumBatches - 1) < n
  <2>1. NumBatches = (n + 3) \div 4
    BY <1>2, Sizes DEF NumBatches
  <2> QED BY <2>1
<1>6. NumPasses \in Nat \ {0} /\ m + 1 <= NumPasses * l
  <2>1. NumPasses = (m + l) \div l
    <3>1. m + 1 + l - 1 = m + l
      OBVIOUS
    <3> QED BY <1>3, <1>4, <3>1 DEF NumPasses
  <2>2. PICK q \in Nat, r \in Nat : q = (m + l) \div l /\ m + l = l * q + r /\ r < l
    <3>1. m + l \in Nat
      OBVIOUS
    <3> QED BY <3>1, DivMod
  <2>3. PICK u \in Nat : u = l * q
    OBVIOUS
  <2>4. m + 1 <= u
    BY <2>2, <2>3
  <2>5. q # 0
    <3>1. q = 0 => l * q = 0
      OBVIOUS
    <3> QED BY <2>3, <2>4, <3>1
  <2> QED BY <2>1, <2>2, <2>3, <2>4, <2>5
<1> QED BY <1>1, <1>2, <1>3, <1>4, <1>5, <1>6, Sizes DEF TaskSizes

-----------------------------------------------------------------------------
(* The least of a distance and those to the references.                    *)

LEMMA RefIs ==
  ASSUME TaskSizes, NEW k \in Nat
  PROVE  /\ RefAt(k) \in Addresses \cup {NoRef}
         /\ k < Len(task.merges) => k + 1 \in DOMAIN task.merges /\ RefAt(k) = task.merges[k + 1]
         /\ k = Len(task.merges) => RefAt(k) = task.sample
         /\ k > Len(task.merges) => RefAt(k) = NoRef
<1>1. PICK q \in Seq(Addresses) : q = task.merges /\ Len(q) \in Nat
  BY DEF TaskSizes
<1>2. DOMAIN q = 1..Len(q) /\ \A i \in 1..Len(q) : q[i] \in Addresses
  BY <1>1, LenProperties, ElementOfSeq
<1>3. k < Len(q) => k + 1 \in 1..Len(q)
  BY <1>1
<1>4. task.sample \in Addresses
  BY DEF TaskSizes
<1> QED BY <1>1, <1>2, <1>3, <1>4 DEF RefAt

LEMMA DistIs ==
  ASSUME NEW a \in Addresses, NEW q \in Addresses \cup {NoRef}
  PROVE  Dist(a, q) \in 0..Inf /\ Dist(a, NoRef) = Inf /\ Inf \in Nat
BY DistAssumption

LEMMA LeastStep ==
  ASSUME TaskSizes, NEW a \in Addresses, NEW k \in Nat, NEW m, LeastOf(a, k, m),
         before[a] \in Nat
  PROVE  LeastOf(a, k + 1, Lesser(m, Dist(a, RefAt(k))))
<1>1. PICK d \in 0..Inf : d = Dist(a, RefAt(k))
  BY RefIs, DistIs
<1>2. /\ m \in 0..Inf /\ m <= before[a]
      /\ \A i \in 0..k - 1 : m <= Dist(a, RefAt(i))
      /\ m = before[a] \/ \E i \in 0..k - 1 : m = Dist(a, RefAt(i))
  BY DEF LeastOf
<1>3. PICK x : x = Lesser(m, d)
  OBVIOUS
<1>4. x \in 0..Inf /\ x <= m /\ x <= d /\ (x = m \/ x = d)
  BY <1>1, <1>2, <1>3, Sizes DEF Lesser
<1>5. x <= before[a]
  BY <1>2, <1>4, Sizes
<1>6. ASSUME NEW i \in 0..k PROVE x <= Dist(a, RefAt(i))
  <2>1. CASE i = k
    BY <1>1, <1>4, <2>1
  <2>2. CASE i # k
    <3>1. i \in 0..k - 1
      BY <2>2
    <3>2. PICK e \in 0..Inf : e = Dist(a, RefAt(i)) /\ m <= e
      BY <1>2, <3>1, RefIs, DistIs
    <3> QED BY <1>2, <1>4, <3>2, Sizes
  <2> QED BY <2>1, <2>2
<1>7. x = before[a] \/ \E i \in 0..k : x = Dist(a, RefAt(i))
  <2>1. CASE x = d
    <3>1. k \in 0..k
      OBVIOUS
    <3> QED BY <1>1, <2>1, <3>1
  <2>2. CASE x = m /\ m # before[a]
    <3>1. PICK i \in 0..k - 1 : m = Dist(a, RefAt(i))
      BY <1>2, <2>2
    <3>2. i \in 0..k
      OBVIOUS
    <3> QED BY <2>2, <3>1, <3>2
  <2> QED BY <1>4, <2>1, <2>2
<1>8. k + 1 - 1 = k
  OBVIOUS
<1>9. LeastOf(a, k + 1, x)
  BY <1>4, <1>5, <1>6, <1>7, <1>8 DEF LeastOf
<1> QED BY <1>1, <1>3, <1>9

(* With all references met, and those that fill the last pass.             *)
LEMMA LeastAll ==
  ASSUME TaskSizes, NEW a \in Addresses, NEW k \in Nat, Len(task.merges) + 1 <= k,
         NEW m, LeastOf(a, k, m), before[a] \in 0..Inf
  PROVE  IsLeast(a, m)
<1>1. PICK n \in Nat : n = Len(task.merges) /\ n + 1 <= k
  BY DEF TaskSizes
<1>2. /\ m \in 0..Inf /\ m <= before[a]
      /\ \A i \in 0..k - 1 : m <= Dist(a, RefAt(i))
      /\ m = before[a] \/ \E i \in 0..k - 1 : m = Dist(a, RefAt(i))
  BY DEF LeastOf
<1>3. \A i \in 1..n : i - 1 \in 0..k - 1 /\ i - 1 \in Nat /\ i - 1 < n /\ i - 1 + 1 = i
  BY <1>1
<1>4. DOMAIN task.merges = 1..n
  BY <1>1, LenProperties DEF TaskSizes
<1>5. ASSUME NEW i \in 1..n PROVE RefAt(i - 1) = task.merges[i]
  BY <1>1, <1>3, RefIs
<1>6. RefAt(n) = task.sample /\ n \in 0..k - 1
  BY <1>1, RefIs
<1>7. \A q \in References : m <= Dist(a, q)
  <2> SUFFICES ASSUME NEW q \in References PROVE m <= Dist(a, q)
    OBVIOUS
  <2>1. CASE q = task.sample
    BY <1>2, <1>6, <2>1
  <2>2. CASE \E i \in 1..n : q = task.merges[i]
    <3>1. PICK i \in 1..n : q = task.merges[i]
      BY <2>2
    <3>2. PICK j \in 0..k - 1 : j = i - 1
      BY <1>3
    <3>3. q = RefAt(j)
      BY <1>5, <3>1, <3>2
    <3> QED BY <1>2, <3>3
  <2> QED BY <1>4, <2>1, <2>2 DEF References
<1>8. m = before[a] \/ \E q \in References : m = Dist(a, q)
  <2>1. CASE \E i \in 0..k - 1 : m = Dist(a, RefAt(i))
    <3>1. PICK i \in 0..k - 1 : m = Dist(a, RefAt(i))
      BY <2>1
    <3>2. i \in Nat
      OBVIOUS
    <3>3. CASE i < n
      <4>1. i + 1 \in DOMAIN task.merges /\ RefAt(i) = task.merges[i + 1]
        BY <1>1, <3>2, <3>3, RefIs
      <4> QED BY <3>1, <4>1 DEF References
    <3>4. CASE i = n
      BY <1>6, <3>1, <3>4 DEF References
    <3>5. CASE i > n
      <4>1. RefAt(i) = NoRef
        BY <1>1, <3>2, <3>5, RefIs
      <4>2. m = Inf
        BY <3>1, <4>1, DistAssumption
      <4> QED BY <1>2, <4>2, Sizes
    <3> QED BY <1>1, <3>3, <3>4, <3>5
  <2> QED BY <1>2, <2>1
<1> QED BY <1>2, <1>7, <1>8 DEF IsLeast

-----------------------------------------------------------------------------
(* The comparator tree.                                                    *)

LEMMA NatLess == IsWellFoundedOn({ss \in Nat \X Nat : ss[1] < ss[2]}, Nat)
BY NatLessThanWellFounded, Zenon DEF OpToRel

(* The least element is found by well-foundedness of <. *)
LEMMA NatMin ==
  ASSUME NEW S, S \subseteq Nat, S # {}
  PROVE  \E x \in S : \A y \in S : x <= y
<1> DEFINE Less == {ss \in Nat \X Nat : ss[1] < ss[2]}
<1>1. PICK x \in S : \A y \in S : ~(<<y, x>> \in Less)
  <2> HIDE DEF Less
  <2>1. IsWellFoundedOn(Less, Nat) BY NatLess DEF Less
  <2> QED BY <2>1, WFMin, Zenon
<1>2. \A y \in S : ~(y < x)
  BY <1>1
<1> QED BY <1>1, <1>2

(* The first of the leaves with the largest distance. *)
BestOf(f, S) == f \in S /\ \A g \in S : g = f \/ Better(f.dist, f.idx, g.dist, g.idx)

OneEach(S, n) ==
  /\ \A r \in S : r.dist \in 0..n /\ r.idx \in Nat
  /\ \A r, o \in S : r.idx = o.idx => r = o

LEMMA BestExists ==
  ASSUME NEW S, NEW n \in Nat, S # {}, OneEach(S, n)
  PROVE  \E f : BestOf(f, S)
<1>0. /\ \A r \in S : r.dist \in 0..n /\ r.idx \in Nat
      /\ \A r, o \in S : r.idx = o.idx => r = o
  BY DEF OneEach
<1>1. PICK D : D = {n - r.dist : r \in S}
  OBVIOUS
<1>2. D \subseteq Nat /\ D # {}
  BY <1>0, <1>1
<1>3. PICK d \in D : \A x \in D : d <= x
  BY <1>2, NatMin
<1>4. PICK e \in S : n - e.dist = d
  BY <1>1, <1>3
<1>5. \A r \in S : r.dist <= e.dist
  <2> SUFFICES ASSUME NEW r \in S PROVE r.dist <= e.dist
    OBVIOUS
  <2>1. n - r.dist \in D
    BY <1>1
  <2>2. n - e.dist <= n - r.dist
    BY <1>3, <1>4, <2>1
  <2> QED BY <1>0, <2>2
<1>6. PICK I : I = {r.idx : r \in {x \in S : x.dist = e.dist}}
  OBVIOUS
<1>7. I \subseteq Nat /\ I # {}
  BY <1>0, <1>6
<1>8. PICK i \in I : \A x \in I : i <= x
  BY <1>7, NatMin
<1>9. PICK f \in S : f.dist = e.dist /\ f.idx = i
  BY <1>6, <1>8
<1>10. ASSUME NEW g \in S, g # f PROVE Better(f.dist, f.idx, g.dist, g.idx)
  <2>1. g.dist <= f.dist /\ g.dist \in Nat /\ f.dist \in Nat /\ f.idx \in Nat /\ g.idx \in Nat
    BY <1>0, <1>5, <1>9
  <2>2. g.idx # f.idx
    BY <1>0, <1>9, <1>10
  <2>3. g.dist = f.dist => f.idx <= g.idx
    BY <1>6, <1>8, <1>9
  <2> QED BY <2>1, <2>2, <2>3 DEF Better
<1> QED BY <1>9, <1>10 DEF BestOf

(* What the tree has after leaves joined, those of the indices C.          *)
Leaves(D, C) == {[idx |-> i, dist |-> D[i]] : i \in C}

LEMMA TreeGrows ==
  ASSUME NEW n \in Nat, NEW S, S \subseteq Nat, NEW C, C \subseteq Nat, NEW D,
         \A i \in S \cup C : D[i] \in 0..n, NEW T, TreeOf(T, D, S),
         NEW all, all = Leaves(D, C) \cup {T[i] : i \in DOMAIN T},
         NEW U, U = IF all = {} THEN <<>> ELSE <<Best(all)>>
  PROVE  TreeOf(U, D, S \cup C)
<1>1. CASE S = {} /\ C = {}
  <2>1. T = <<>>
    BY <1>1 DEF TreeOf
  <2>2. DOMAIN <<>> = {}
    OBVIOUS
  <2>3. all = {}
    BY <1>1, <2>1, <2>2 DEF Leaves
  <2> QED BY <1>1, <2>3 DEF TreeOf
<1>2. CASE S # {} \/ C # {}
  <2>1. PICK K : /\ K \subseteq S /\ {T[i] : i \in DOMAIN T} = Leaves(D, K)
                 /\ \A o \in S : \/ o \in K
                                 \/ \E i \in K : Better(D[i], i, D[o], o)
                 /\ S # {} => K # {}
    <3>1. CASE S = {}
      <4>1. T = <<>> /\ DOMAIN T = {}
        BY <3>1 DEF TreeOf
      <4> QED BY <3>1, <4>1 DEF Leaves
    <3>2. CASE S # {}
      <4>1. PICK i \in S : /\ T = <<[idx |-> i, dist |-> D[i]]>>
                           /\ \A o \in S \ {i} : Better(D[i], i, D[o], o)
        BY <3>2 DEF TreeOf
      <4>2. {T[k] : k \in DOMAIN T} = {[idx |-> i, dist |-> D[i]]}
        <5>1. PICK x : x = [idx |-> i, dist |-> D[i]]
          OBVIOUS
        <5>2. DOMAIN T = {1} /\ T[1] = x
          BY <4>1, <5>1
        <5> QED BY <5>1, <5>2
      <4>3. Leaves(D, {i}) = {[idx |-> i, dist |-> D[i]]}
        BY DEF Leaves
      <4> QED BY <4>1, <4>2, <4>3
    <3> QED BY <3>1, <3>2
  <2>2. all = Leaves(D, C \cup K) /\ C \cup K # {} /\ C \cup K \subseteq S \cup C
    BY <1>2, <2>1 DEF Leaves
  <2>3. \A r \in all : r.idx \in C \cup K /\ r.dist = D[r.idx] /\ r = [idx |-> r.idx, dist |-> D[r.idx]]
    BY <2>2 DEF Leaves
  <2>4. all # {}
    BY <2>2 DEF Leaves
  <2>5. PICK f : BestOf(f, all)
    <3>1. \A r \in all : r.dist \in 0..n /\ r.idx \in Nat
      BY <2>2, <2>3
    <3>2. \A r, o \in all : r.idx = o.idx => r = o
      BY <2>3
    <3>3. OneEach(all, n)
      BY <3>1, <3>2 DEF OneEach
    <3> QED BY <2>4, <3>3, BestExists
  <2>6. BestOf(Best(all), all)
    <3>1. f \in all /\ \A g \in all : g = f \/ Better(f.dist, f.idx, g.dist, g.idx)
      BY <2>5 DEF BestOf
    <3>2. Best(all) \in all /\ \A g \in all : g = Best(all) \/ Better(Best(all).dist, Best(all).idx, g.dist, g.idx)
      BY <3>1 DEF Best
    <3> QED BY <3>2 DEF BestOf
  <2>61. PICK b : b = Best(all) /\ b \in all /\ \A g \in all : g = b \/ Better(b.dist, b.idx, g.dist, g.idx)
    BY <2>6 DEF BestOf
  <2>7. PICK i \in C \cup K : i = b.idx /\ b.dist = D[i] /\ b = [idx |-> i, dist |-> D[i]]
    BY <2>3, <2>61
  <2>8. ASSUME NEW o \in C \cup K, o # i PROVE Better(D[i], i, D[o], o)
    <3>1. PICK g : g = [idx |-> o, dist |-> D[o]]
      OBVIOUS
    <3>2. g \in all /\ g.idx = o /\ g.dist = D[o]
      BY <2>2, <3>1 DEF Leaves
    <3>3. g # b
      BY <2>7, <2>8, <3>2
    <3> QED BY <2>61, <2>7, <3>2, <3>3
  <2>9. ASSUME NEW o \in S \cup C, o # i PROVE Better(D[i], i, D[o], o)
    <3>1. CASE o \in C \cup K
      BY <2>8, <2>9, <3>1
    <3>2. CASE o \notin C \cup K
      <4>1. PICK k \in K : Better(D[k], k, D[o], o)
        BY <2>1, <3>2
      <4>2. k = i \/ Better(D[i], i, D[k], k)
        BY <2>8
      <4>3. i \in S \cup C /\ k \in S \cup C
        BY <2>1
      <4>4. ASSUME NEW x \in S \cup C PROVE x \in Nat /\ D[x] \in Nat
        <5>1. x \in Nat
          OBVIOUS
        <5>2. PICK e \in 0..n : e = D[x]
          OBVIOUS
        <5> QED BY <5>1, <5>2
      <4>5. PICK di \in Nat, do \in Nat, dk \in Nat : di = D[i] /\ do = D[o] /\ dk = D[k]
        BY <4>3, <4>4
      <4>6. i \in Nat /\ o \in Nat /\ k \in Nat
        BY <4>3, <4>4
      <4>7. Better(dk, k, do, o) /\ (k = i \/ Better(di, i, dk, k))
        BY <4>1, <4>2, <4>5
      <4>8. Better(di, i, do, o)
        BY <4>5, <4>6, <4>7 DEF Better
      <4> QED BY <4>5, <4>8
    <3> QED BY <3>1, <3>2
  <2>10. U = <<[idx |-> i, dist |-> D[i]]>>
    BY <2>4, <2>61, <2>7
  <2> QED BY <2>2, <2>9, <2>10 DEF TreeOf
<1> QED BY <1>1, <1>2

-----------------------------------------------------------------------------
(* What depends on the task only stays as it is while the task does.       *)

TaskKept ==
  /\ NumBatches' = NumBatches /\ NumPasses' = NumPasses /\ Members' = Members
  /\ PassTime' = PassTime
  /\ \A k : RefAt(k)' = RefAt(k)
  /\ \A b : LanesOf(b)' = LanesOf(b)
  /\ \A a, k, m : LeastOf(a, k, m)' <=> LeastOf(a, k, m)
  /\ \A row, b, k : RowHolds(row, b, k)' <=> RowHolds(row, b, k)
  /\ \A m : LocalDistances(m)' = LocalDistances(m)
  /\ \A m, done, k, fewer : Distances(m, done, k, fewer)' <=> Distances(m, done, k, fewer)
  /\ TaskSizes => TaskSizes'

LEMMA SameTask ==
  ASSUME task' = task, before' = before
  PROVE  TaskKept
<1>1. NumBatches' = NumBatches /\ NumPasses' = NumPasses /\ Members' = Members
  BY DEF NumBatches, NumPasses, Members
<1>2. PassTime' = PassTime
  BY <1>1 DEF PassTime, PipeLength
<1>3. \A k : RefAt(k)' = RefAt(k)
  BY DEF RefAt
<1>4. \A b : LanesOf(b)' = LanesOf(b)
  BY DEF LanesOf
<1>5. \A a, k, m : LeastOf(a, k, m)' <=> LeastOf(a, k, m)
  BY <1>3 DEF LeastOf
<1>6. \A row, b, k : RowHolds(row, b, k)' <=> RowHolds(row, b, k)
  BY <1>1, <1>4, <1>5 DEF RowHolds
<1>7. TaskSizes => TaskSizes'
  BY <1>1 DEF TaskSizes
<1>8. \A m : LocalDistances(m)' = LocalDistances(m)
  BY DEF LocalDistances
<1>9. \A m, done, k, fewer : Distances(m, done, k, fewer)' <=> Distances(m, done, k, fewer)
  BY <1>1, <1>5 DEF Distances
<1> QED BY <1>1, <1>2, <1>3, <1>4, <1>5, <1>6, <1>7, <1>8, <1>9 DEF TaskKept

-----------------------------------------------------------------------------
(* The rows of the array.                                                  *)

(* The task at hand, with everything in the memories a distance. *)
Busy ==
  /\ TaskSizes /\ task.points >= 1 /\ pass \in 0..NumPasses - 1
  /\ before \in Memory /\ mdt \in Memory

LEMMA LaneFacts ==
  ASSUME TaskSizes, NEW b \in Nat, NEW g \in LanesOf(b)
  PROVE  /\ g \in 0..3 /\ b * R + g \in Nat /\ b * R + g < task.points
         /\ task.base + b * R + g \in Addresses
<1>1. g \in 0..3 /\ b * R + g < task.points
  BY Sizes DEF LanesOf, Lanes
<1>2. /\ task.base \in Nat /\ task.points \in Nat /\ task.base + task.points <= DEPTH
      /\ DEPTH \in Nat /\ R = 4
  BY Sizes DEF TaskSizes
<1> QED BY <1>1, <1>2 DEF Addresses

LEMMA AgainstHolds ==
  ASSUME Busy, NEW row, IsRow(row), NEW j \in Columns, NEW k \in Nat, NEW b \in Int,
         columns[j] = RefAt(k), RowHolds(row, b, k)
  PROVE  RowHolds(Against(row, j), b, k + 1) /\ IsRow(Against(row, j))
<1>1. PICK f, w, p, d : row = [first |-> f, lanes |-> w, place |-> p, dist |-> d]
  BY DEF IsRow
<1>2. PICK e : e = [g \in w |-> Lesser(d[g], Dist(p[g], columns[j]))]
  OBVIOUS
<1>3. Against(row, j) = [first |-> f, lanes |-> w, place |-> p, dist |-> e]
  BY <1>1, <1>2 DEF Against
<1>4. IsRow(Against(row, j))
  BY <1>3 DEF IsRow
<1>5. CASE b \in 0..NumBatches - 1
  <2>1. /\ f = b * R /\ w = LanesOf(b)
        /\ \A g \in LanesOf(b) : /\ p[g] = task.base + b * R + g
                                 /\ LeastOf(task.base + b * R + g, k, d[g])
    BY <1>1, <1>5 DEF RowHolds
  <2>2. ASSUME NEW g \in LanesOf(b)
        PROVE  LeastOf(task.base + b * R + g, k + 1, e[g])
    <3>1. b \in Nat
      BY <1>5
    <3>2. PICK a \in Addresses : a = task.base + b * R + g
      BY <3>1, LaneFacts DEF Busy
    <3>3. p[g] = a /\ LeastOf(a, k, d[g])
      BY <2>1, <3>2
    <3>4. e[g] = Lesser(d[g], Dist(a, RefAt(k)))
      BY <1>2, <2>1, <3>3
    <3>5. before[a] \in Nat
      BY Sizes DEF Busy, Memory
    <3>6. LeastOf(a, k + 1, e[g])
      BY <3>3, <3>4, <3>5, LeastStep DEF Busy
    <3> QED BY <3>2, <3>6
  <2>3. RowHolds([first |-> f, lanes |-> w, place |-> p, dist |-> e], b, k + 1)
    BY <1>5, <2>1, <2>2 DEF RowHolds
  <2> QED BY <1>3, <1>4, <2>3
<1>6. CASE b \notin 0..NumBatches - 1
  <2>1. w = {}
    BY <1>1, <1>6 DEF RowHolds
  <2>2. RowHolds([first |-> f, lanes |-> w, place |-> p, dist |-> e], b, k + 1)
    BY <1>6, <2>1 DEF RowHolds
  <2> QED BY <1>3, <1>4, <2>2
<1> QED BY <1>5, <1>6

(* The words the request reads have met the references of the passes       *)
(* before.                                                                 *)
LEMMA InputHolds ==
  ASSUME Busy, NEW j \in Nat, StreamInv(j)
  PROVE  RowHolds(InputRow, j, pass * L) /\ IsRow(InputRow)
<1>1. IsRow(InputRow)
  BY DEF IsRow, InputRow
<1>2. CASE j < NumBatches
  <2>1. /\ coAddr = task.base + j * R /\ diAddr = task.base + j * R
        /\ issue = [first |-> j * R, lanes |-> LanesOf(j)]
    BY <1>2 DEF StreamInv
  <2>2. InputRow.first = j * R /\ InputRow.lanes = LanesOf(j)
    BY <2>1 DEF InputRow
  <2>3. ASSUME NEW g \in LanesOf(j)
        PROVE  /\ InputRow.place[g] = task.base + j * R + g
               /\ LeastOf(task.base + j * R + g, pass * L, InputRow.dist[g])
    <3>1. PICK a \in Addresses : a = task.base + j * R + g
      BY LaneFacts DEF Busy
    <3>2. InputRow.place[g] = a /\ InputRow.dist[g] = mdt[a]
      BY <2>1, <3>1 DEF InputRow, Read
    <3>3. Distances(mdt, (j - PipeLength) * R, (pass + 1) * L, pass * L)
      BY DEF StreamInv
    <3>4. a \in Members /\ ~(a - task.base < (j - PipeLength) * R)
      <4>1. /\ task.base \in Nat /\ task.points \in Nat
            /\ g \in 0..3 /\ j * R + g < task.points
        BY LaneFacts DEF Busy, TaskSizes
      <4>2. a = task.base + j * 4 + g /\ j * 4 + g < task.points
        BY <3>1, <4>1, Sizes
      <4>3. a \in Members
        BY <4>1, <4>2 DEF Members
      <4>4. ~(a - task.base < (j - PipeLength) * 4)
        BY <4>1, <4>2, Sizes
      <4> QED BY <4>3, <4>4, Sizes
    <3>5. LeastOf(a, pass * L, mdt[a])
      BY <3>3, <3>4 DEF Distances
    <3> QED BY <3>1, <3>2, <3>5
  <2>4. j \in 0..NumBatches - 1
    BY <1>2 DEF Busy, TaskSizes
  <2> QED BY <1>1, <2>2, <2>3, <2>4 DEF RowHolds
<1>3. CASE ~(j < NumBatches)
  <2>1. InputRow.lanes = {}
    BY <1>3 DEF StreamInv, InputRow
  <2>2. j \notin 0..NumBatches - 1
    BY <1>3 DEF Busy, TaskSizes
  <2> QED BY <1>1, <2>1, <2>2 DEF RowHolds
<1> QED BY <1>2, <1>3

LEMMA RowsStep ==
  ASSUME Busy, NEW j \in Nat, StreamInv(j), RowsAdvance,
         \A i \in 1..PipeLength : IsRow(rows[i]), NEW i \in 1..PipeLength
  PROVE  RowHolds(rows'[i], j + 1 - i, pass * L + MetBehind(i)) /\ IsRow(rows'[i])
<1>1. PICK pl \in Nat : pl = pass * L
  BY Sizes DEF Busy
<1>2. /\ rows'[i] = IF FirstOfColumn(i) THEN Against(Entering(i), (i - 1) \div PE_STAGES)
                    ELSE Entering(i)
  BY DEF RowsAdvance
<1>3. PICK m \in 1..L : m = MetBehind(i) /\ (i - 1) \div PE_STAGES = m - 1
  BY StageFacts DEF StageMeets
<1>4. m - 1 \in Columns /\ columns[m - 1] = RefAt(pl + m - 1)
  <2>1. Loaded(L)
    BY DEF StreamInv
  <2>2. m - 1 \in 0..L - 1
    BY Sizes
  <2>3. columns[m - 1] = RefAt(pl + (m - 1))
    BY <1>1, <2>1, <2>2 DEF Loaded
  <2> QED BY <2>2, <2>3 DEF Columns
<1>5. m - 1 \in Nat /\ m \in Nat
  BY Sizes
<1>6. PICK k \in Nat : k = pl + m - 1 /\ k + 1 = pl + m
  BY <1>5
<1>7. CASE i = 1
  <2>1. FirstOfColumn(i) /\ m = 1
    BY <1>3, <1>7, StageFacts DEF StageMeets
  <2>2. Entering(i) = InputRow
    BY <1>7 DEF Entering
  <2>3. RowHolds(InputRow, j, k) /\ IsRow(InputRow)
    <3>1. k = pl
      BY <1>6, <2>1
    <3> QED BY <1>1, <3>1, InputHolds
  <2>4. columns[m - 1] = RefAt(k)
    BY <1>4, <1>6
  <2>5. RowHolds(Against(InputRow, m - 1), j, k + 1) /\ IsRow(Against(InputRow, m - 1))
    BY <1>4, <2>3, <2>4, AgainstHolds
  <2>6. rows'[i] = Against(InputRow, m - 1)
    BY <1>2, <1>3, <2>1, <2>2
  <2>7. j + 1 - i = j
    BY <1>7
  <2> QED BY <1>1, <1>3, <1>6, <2>5, <2>6, <2>7
<1>8. CASE i > 1
  <2>1. i - 1 \in 1..PipeLength
    BY <1>8, Sizes
  <2>2. PICK row : row = rows[i - 1] /\ Entering(i) = row
    BY <1>8 DEF Entering
  <2>3. IsRow(row)
    BY <2>1, <2>2
  <2>4. RowHolds(row, j - (i - 1), pl + MetBehind(i - 1))
    BY <1>1, <2>1, <2>2 DEF StreamInv
  <2>5. PICK b \in Int : b = j - (i - 1) /\ b = j + 1 - i
    BY Sizes
  <2>6. CASE FirstOfColumn(i)
    <3>1. m = MetBehind(i - 1) + 1
      BY <1>3, <1>8, <2>6, StageFacts DEF StageMeets
    <3>2. MetBehind(i - 1) \in 1..L
      BY <2>1, StageFacts DEF StageMeets
    <3>3. pl + MetBehind(i - 1) = k
      BY <1>6, <3>1, <3>2, Sizes
    <3>4. RowHolds(row, b, k) /\ columns[m - 1] = RefAt(k)
      BY <1>4, <1>6, <2>4, <2>5, <3>3
    <3>5. RowHolds(Against(row, m - 1), b, k + 1) /\ IsRow(Against(row, m - 1))
      BY <1>4, <2>3, <3>4, AgainstHolds
    <3>6. rows'[i] = Against(row, m - 1)
      BY <1>2, <1>3, <2>2, <2>6
    <3> QED BY <1>1, <1>3, <1>6, <2>5, <3>5, <3>6
  <2>7. CASE ~FirstOfColumn(i)
    <3>1. m = MetBehind(i - 1)
      BY <1>3, <1>8, <2>7, StageFacts DEF StageMeets
    <3>2. rows'[i] = row
      BY <1>2, <2>2, <2>7
    <3> QED BY <1>1, <1>3, <2>3, <2>4, <2>5, <3>1, <3>2
  <2> QED BY <2>6, <2>7
<1> QED BY <1>7, <1>8, Sizes

-----------------------------------------------------------------------------
(* What a row that leaves the array writes.                                *)

(* The batch that leaves, b, and the memory after it. *)
LEMMA RowLeaves ==
  ASSUME Busy, NEW j \in Nat, StreamInv(j)
  PROVE  RowHolds(RowOut, j - PipeLength, (pass + 1) * L)
<1>1. PICK pl \in Nat : pl = pass * L /\ (pass + 1) * L = pl + L
  BY Sizes DEF Busy
<1>2. PICK P \in Nat \ {0} : P = PipeLength
  BY Sizes
<1>3. P \in 1..PipeLength /\ MetBehind(P) = L
  BY <1>2, LastStage
<1>4. RowHolds(rows[P], j - P, pl + MetBehind(P))
  BY <1>1, <1>3 DEF StreamInv
<1> QED BY <1>1, <1>2, <1>3, <1>4 DEF RowOut

LEMMA LocalIndexIs ==
  ASSUME TaskSizes, NEW b \in Nat, b * R < task.points
  PROVE  /\ (b * R) % LOCAL_INDICES = b * R
         /\ \A g \in LanesOf(b) : (b * R + g) % LOCAL_INDICES = b * R + g
         /\ 0 \in LanesOf(b)
<1>1. \A x \in Nat : x < task.points => x % LOCAL_INDICES = x
  <2> SUFFICES ASSUME NEW x \in Nat, x < task.points PROVE x % LOCAL_INDICES = x
    OBVIOUS
  <2>1. PICK d \in Nat : d = LOCAL_INDICES /\ x < d
    BY Sizes DEF TaskSizes
  <2>2. (d * 0 + x) % d = x
    BY <2>1, DivUnique
  <2>3. d * 0 + x = x
    BY <2>1
  <2> QED BY <2>1, <2>2, <2>3
<1>2. b * R \in Nat
  BY Sizes
<1>3. 0 \in LanesOf(b)
  BY <1>2, Sizes DEF LanesOf, Lanes
<1>4. \A g \in LanesOf(b) : b * R + g \in Nat /\ b * R + g < task.points
  BY LaneFacts
<1> QED BY <1>1, <1>2, <1>3, <1>4

(* One batch of distances written, after those below b. *)
Written(new, b) ==
  \A a \in Addresses :
    IF a \in Members /\ a - task.base \in b * R..b * R + R - 1 /\ b >= 0
    THEN LeastOf(a, (pass + 1) * L, new[a])
    ELSE new[a] = mdt[a]

LEMMA WriteStep ==
  ASSUME Busy, NEW j \in 0..NumBatches + PipeLength - 1, StreamInv(j), DistanceWrite,
         st = "STREAM"
  PROVE  /\ Written(mdt', j - PipeLength)
         /\ j >= PipeLength =>
              \A g \in LanesOf(j - PipeLength) :
                /\ task.base + (j - PipeLength) * R + g \in Addresses
                /\ RowOut.dist[g] = mdt'[task.base + (j - PipeLength) * R + g]
<1>1. PICK b \in Int : b = j - PipeLength /\ b < NumBatches
  BY Sizes DEF Busy, TaskSizes
<1>2. RowHolds(RowOut, b, (pass + 1) * L)
  BY <1>1, RowLeaves
<1>3. PICK base \in Nat : base = task.base
  BY DEF Busy, TaskSizes
<1>4. CASE b < 0
  <2>1. RowOut.lanes = {}
    BY <1>2, <1>4 DEF RowHolds
  <2>2. \A a \in Addresses : mdt'[a] = mdt[a]
    BY <2>1 DEF DistanceWrite
  <2>3. ~(b >= 0)
    BY <1>4
  <2>4. Written(mdt', b)
    BY <2>2, <2>3 DEF Written
  <2>5. ~(j >= PipeLength)
    BY <1>1, <1>4, Sizes
  <2> QED BY <1>1, <2>4, <2>5
<1>5. CASE b >= 0
  <2>1. b \in Nat /\ b \in 0..NumBatches - 1
    BY <1>1, <1>5 DEF Busy, TaskSizes
  <2>2. PICK f \in Nat : f = b * R /\ f = 4 * b
    BY <2>1, Sizes
  <2>3. /\ RowOut.first = f /\ RowOut.lanes = LanesOf(b)
        /\ \A g \in LanesOf(b) : LeastOf(base + f + g, (pass + 1) * L, RowOut.dist[g])
    BY <1>2, <1>3, <2>1, <2>2 DEF RowHolds
  <2>4. PICK points \in Nat : points = task.points /\ f < points
    <3>1. PICK nb \in Nat : nb = NumBatches /\ b + 1 <= nb /\ 4 * (nb - 1) < task.points
      BY <1>1, <2>1 DEF Busy, TaskSizes
    <3>2. f <= 4 * (nb - 1)
      BY <2>1, <2>2, <3>1
    <3>3. PICK points \in Nat : points = task.points
      BY DEF Busy, TaskSizes
    <3> QED BY <3>1, <3>2, <3>3
  <2>5. LocalIndex(RowOut, 0) = f
    <3>1. f % LOCAL_INDICES = f
      BY <2>1, <2>2, <2>4, LocalIndexIs DEF Busy
    <3>2. f + 0 = f
      OBVIOUS
    <3> QED BY <2>3, <3>1, <3>2 DEF LocalIndex
  <2>6. \A g : g \in LanesOf(b) <=> g \in 0..3 /\ f + g < points
    BY <2>2, <2>4, Sizes DEF LanesOf, Lanes
  <2>7. ASSUME NEW a \in Addresses
        PROVE  mdt'[a] = IF a - (base + f) \in LanesOf(b) THEN RowOut.dist[a - (base + f)] ELSE mdt[a]
    BY <1>3, <2>3, <2>5, <2>7 DEF DistanceWrite
  <2>8. \A a \in Addresses : a \in Int
    BY Sizes DEF Addresses
  <2>9. ASSUME NEW a \in Addresses
        PROVE  a - (base + f) \in LanesOf(b) <=> a \in Members /\ a - base \in f..f + 3
    <3>1. a \in Int /\ Members = base..base + points - 1
      BY <1>3, <2>4, <2>8 DEF Members
    <3> QED BY <2>6, <3>1
  <2>10. Written(mdt', b)
    <3> SUFFICES ASSUME NEW a \in Addresses
                 PROVE  IF a \in Members /\ a - base \in f..f + 3
                        THEN LeastOf(a, (pass + 1) * L, mdt'[a])
                        ELSE mdt'[a] = mdt[a]
      BY <1>3, <1>5, <2>2, Sizes DEF Written
    <3>1. CASE a - (base + f) \in LanesOf(b)
      <4>1. PICK g \in LanesOf(b) : g = a - (base + f)
        BY <3>1
      <4>2. base + f + g = a
        BY <2>6, <2>8, <4>1
      <4> QED BY <2>3, <2>7, <2>9, <3>1, <4>1, <4>2
    <3>2. CASE a - (base + f) \notin LanesOf(b)
      BY <2>7, <2>9, <3>2
    <3> QED BY <3>1, <3>2
  <2>11. ASSUME NEW g \in LanesOf(b)
         PROVE  base + f + g \in Addresses /\ RowOut.dist[g] = mdt'[base + f + g]
    <3>1. base + f + g \in Addresses
      BY <1>3, <2>1, <2>2, LaneFacts DEF Busy
    <3>2. base + f + g - (base + f) = g
      BY <2>6
    <3>3. PICK a \in Addresses : a = base + f + g
      BY <3>1
    <3>4. a - (base + f) = g
      BY <2>6, <2>8, <3>3
    <3>5. mdt'[a] = RowOut.dist[a - (base + f)]
      BY <2>7, <3>4
    <3> QED BY <3>3, <3>4, <3>5
  <2> QED BY <1>1, <1>3, <2>2, <2>10, <2>11
<1> QED BY <1>4, <1>5

(* The points below the end of the batch have met one more load. *)
LEMMA DistancesStep ==
  ASSUME Busy, NEW b \in Int, NEW k, NEW fewer, k = (pass + 1) * L, Distances(mdt, b * R, k, fewer),
         NEW new, Written(new, b), b < NumBatches
  PROVE  Distances(new, (b + 1) * R, k, fewer)
<1>0. SUFFICES ASSUME NEW a \in Addresses
               PROVE  IF a \notin Members THEN new[a] = before[a]
                      ELSE IF a - task.base < (b + 1) * R THEN LeastOf(a, k, new[a])
                      ELSE LeastOf(a, fewer, new[a])
  BY DEF Distances
<1>1. PICK base \in Nat, points \in Nat : base = task.base /\ points = task.points
  BY DEF Busy, TaskSizes
<1>2. PICK f \in Int : f = b * R /\ f = 4 * b /\ (b + 1) * R = f + 4
  BY Sizes
<1>3. a \in Int /\ R = 4 /\ Members = base..base + points - 1
  BY <1>1, Sizes DEF Addresses, Members
<1>4. IF a \in Members /\ a - base \in f..f + 3 /\ b >= 0
      THEN LeastOf(a, k, new[a]) ELSE new[a] = mdt[a]
  BY <1>1, <1>2, <1>3 DEF Written
<1>5. IF a \notin Members THEN mdt[a] = before[a]
      ELSE IF a - base < f THEN LeastOf(a, k, mdt[a]) ELSE LeastOf(a, fewer, mdt[a])
  BY <1>1, <1>2 DEF Distances
<1>6. CASE a \notin Members
  BY <1>4, <1>5, <1>6
<1>7. CASE a \in Members /\ a - base < f
  <2>1. ~(a - base \in f..f + 3) /\ a - base < f + 4
    BY <1>3, <1>7
  <2> QED BY <1>1, <1>2, <1>4, <1>5, <1>7, <2>1
<1>8. CASE a \in Members /\ a - base >= f /\ a - base < f + 4
  <2>1. a \in base..base + points - 1 /\ a - base >= 0
    BY <1>1, <1>3, <1>8
  <2>2. a - base < 4 * b + 4
    BY <1>2, <1>8
  <2>3. PICK o \in Int : o = a - base /\ o >= 0 /\ o < 4 * b + 4
    BY <1>1, <1>3, <2>1, <2>2
  <2>4. b >= 0
    BY <2>3
  <2>5. a - base \in f..f + 3
    BY <1>1, <1>2, <1>3, <1>8
  <2>6. LeastOf(a, k, new[a]) /\ a - base < f + 4
    BY <1>4, <1>8, <2>4, <2>5
  <2> QED BY <1>1, <1>2, <1>8, <2>6
<1>9. CASE a \in Members /\ a - base >= f + 4
  <2>1. ~(a - base \in f..f + 3) /\ ~(a - base < f) /\ ~(a - base < f + 4)
    BY <1>3, <1>9
  <2> QED BY <1>1, <1>2, <1>4, <1>5, <1>9, <2>1
<1> QED BY <1>1, <1>2, <1>3, <1>6, <1>7, <1>8, <1>9

-----------------------------------------------------------------------------
(* What the tree does on an edge.                                          *)

LEMMA TreeSame ==
  ASSUME NEW T, NEW D, NEW E, NEW S, \A i \in S : D[i] = E[i], TreeOf(T, D, S)
  PROVE  TreeOf(T, E, S)
<1>1. CASE S = {} /\ T = <<>>
  BY <1>1 DEF TreeOf
<1>2. CASE \E i \in S : /\ T = <<[idx |-> i, dist |-> D[i]]>>
                        /\ \A o \in S \ {i} : Better(D[i], i, D[o], o)
  <2>1. PICK i \in S : /\ T = <<[idx |-> i, dist |-> D[i]]>>
                       /\ \A o \in S \ {i} : Better(D[i], i, D[o], o)
    BY <1>2
  <2>2. D[i] = E[i] /\ \A o \in S \ {i} : D[o] = E[o]
    OBVIOUS
  <2>3. T = <<[idx |-> i, dist |-> E[i]]>>
    BY <2>1, <2>2
  <2>4. \A o \in S \ {i} : Better(E[i], i, E[o], o)
    <3> SUFFICES ASSUME NEW o \in S \ {i} PROVE Better(E[i], i, E[o], o)
      OBVIOUS
    <3>1. E[i] = D[i] /\ E[o] = D[o] /\ Better(D[i], i, D[o], o)
      BY <2>1, <2>2
    <3> QED BY <3>1
  <2> QED BY <2>3, <2>4 DEF TreeOf
<1> QED BY <1>1, <1>2 DEF TreeOf

LEMMA TreeStep ==
  ASSUME Busy, NEW j \in 0..NumBatches + PipeLength - 1, StreamInv(j), DistanceWrite,
         TreeAdvance, st = "STREAM", LastPass, mdt' \in Memory
  PROVE  TreeOf(tree', LocalDistances(mdt'), {i \in 0..task.points - 1 : i < (j + 1 - PipeLength) * R})
<1>0. PICK E : E = LocalDistances(mdt')
  OBVIOUS
<1>1. PICK b \in Int : b = j - PipeLength /\ b + 1 = j + 1 - PipeLength /\ b < NumBatches
  BY Sizes DEF Busy, TaskSizes
<1>2. PICK f \in Int : f = b * R /\ f = 4 * b /\ (b + 1) * R = f + 4
  BY Sizes
<1>3. PICK base \in Nat, points \in Nat : /\ base = task.base /\ points = task.points
                                          /\ base + points <= DEPTH
  BY DEF Busy, TaskSizes
<1>4. PICK D, S : /\ D = LocalDistances(mdt) /\ S = {i \in 0..points - 1 : i < f}
                  /\ TreeOf(tree, D, S)
  <2>1. TreeHas((j - PipeLength) * R)
    BY DEF StreamInv
  <2> QED BY <1>1, <1>2, <1>3, <2>1 DEF TreeHas
<1>5. \A i \in 0..points - 1 : /\ base + i \in Addresses /\ base + i - base = i
                               /\ base + i \in Members
                               /\ D[i] = mdt[base + i] /\ E[i] = mdt'[base + i]
  <2> SUFFICES ASSUME NEW i \in 0..points - 1
               PROVE  /\ base + i \in Addresses /\ base + i - base = i
                      /\ base + i \in Members
                      /\ D[i] = mdt[base + i] /\ E[i] = mdt'[base + i]
    OBVIOUS
  <2>1. base + i \in Addresses /\ base + i - base = i /\ base + i \in Members
    BY <1>3, Sizes DEF Addresses, Members
  <2>2. D[i] = mdt[base + i] /\ E[i] = mdt'[base + i]
    BY <1>0, <1>3, <1>4 DEF LocalDistances
  <2> QED BY <2>1, <2>2
<1>6. Written(mdt', b)
  BY <1>1, WriteStep
<1>7. \A i \in S : D[i] = E[i]
  <2> SUFFICES ASSUME NEW i \in S PROVE D[i] = E[i]
    OBVIOUS
  <2>1. i \in 0..points - 1 /\ i < f
    BY <1>4
  <2>2. PICK a \in Addresses : a = base + i /\ a - base = i
    BY <1>5, <2>1
  <2>3. ~(a - base \in f..f + 3)
    BY <2>1, <2>2
  <2>4. mdt'[a] = mdt[a]
    BY <1>2, <1>3, <1>6, <2>3, Sizes DEF Written
  <2> QED BY <1>5, <2>1, <2>2, <2>4
<1>8. TreeOf(tree, E, S)
  BY <1>4, <1>7, TreeSame
<1>9. PICK C : C = IF b >= 0 THEN {f + g : g \in LanesOf(b)} ELSE {}
  OBVIOUS
<1>10. b >= 0 => \A g : g \in LanesOf(b) <=> g \in 0..3 /\ f + g < points
  BY <1>2, <1>3, Sizes DEF LanesOf, Lanes
<1>11. S \cup C = {i \in 0..points - 1 : i < f + 4}
  <2>1. CASE b >= 0
    <3>1. C = {f + g : g \in LanesOf(b)}
      BY <1>9, <2>1
    <3>2. ASSUME NEW i, i \in C PROVE i \in 0..points - 1 /\ i < f + 4
      <4>1. PICK g \in LanesOf(b) : i = f + g
        BY <3>1, <3>2
      <4> QED BY <1>2, <1>10, <2>1, <4>1
    <3>3. ASSUME NEW i \in 0..points - 1, i < f + 4 PROVE i \in S \cup C
      <4>1. CASE i < f
        BY <1>4, <4>1
      <4>2. CASE i >= f
        <5>1. i - f \in 0..3 /\ f + (i - f) = i
          BY <3>3, <4>2
        <5>2. i - f \in LanesOf(b)
          BY <1>10, <2>1, <5>1
        <5> QED BY <3>1, <5>1, <5>2
      <4> QED BY <4>1, <4>2
    <3>4. ASSUME NEW i \in S PROVE i \in 0..points - 1 /\ i < f + 4
      BY <1>4
    <3> QED BY <3>2, <3>3, <3>4
  <2>2. CASE b < 0
    <3>1. C = {}
      BY <1>9, <2>2
    <3>2. \A i \in 0..points - 1 : (i < f) <=> (i < f + 4)
      BY <1>2, <2>2
    <3> QED BY <1>4, <3>1, <3>2
  <2> QED BY <2>1, <2>2
<1>12. Candidates = Leaves(E, C) \cup {tree[i] : i \in DOMAIN tree}
  <2>1. RowHolds(RowOut, b, (pass + 1) * L)
    BY <1>1, RowLeaves
  <2>2. {[idx |-> LocalIndex(RowOut, g), dist |-> RowOut.dist[g]] : g \in RowOut.lanes}
          = Leaves(E, C)
    <3>1. CASE b >= 0
      <4>1. b \in Nat /\ b \in 0..NumBatches - 1
        BY <1>1, <3>1 DEF Busy, TaskSizes
      <4>2. RowOut.first = f /\ RowOut.lanes = LanesOf(b)
        BY <1>2, <2>1, <4>1 DEF RowHolds
      <4>3. f < points
        <5>1. PICK nb \in Nat : nb = NumBatches /\ b + 1 <= nb /\ 4 * (nb - 1) < points
          BY <1>1, <1>3, <4>1 DEF Busy, TaskSizes
        <5> QED BY <1>2, <4>1, <5>1
      <4>4. ASSUME NEW g \in LanesOf(b)
            PROVE  LocalIndex(RowOut, g) = f + g /\ RowOut.dist[g] = E[f + g]
        <5>1. (b * R + g) % LOCAL_INDICES = b * R + g
          BY <1>2, <1>3, <4>1, <4>3, LocalIndexIs DEF Busy
        <5>2. LocalIndex(RowOut, g) = f + g
          BY <1>2, <4>2, <5>1 DEF LocalIndex
        <5>3. f + g \in 0..points - 1
          BY <1>2, <1>10, <3>1
        <5>4. j >= PipeLength
          BY <1>1, <3>1, Sizes
        <5>5. RowOut.dist[g] = mdt'[task.base + b * R + g]
          BY <1>1, <5>4, WriteStep
        <5>6. task.base + b * R + g = base + (f + g)
          BY <1>2, <1>3, <1>10, <3>1
        <5> QED BY <1>5, <5>2, <5>3, <5>5, <5>6
      <4>5. C = {f + g : g \in LanesOf(b)}
        BY <1>9, <3>1
      <4>6. {[idx |-> LocalIndex(RowOut, g), dist |-> RowOut.dist[g]] : g \in LanesOf(b)}
              = {[idx |-> f + g, dist |-> E[f + g]] : g \in LanesOf(b)}
        BY <4>4
      <4>7. Leaves(E, C) = {[idx |-> f + g, dist |-> E[f + g]] : g \in LanesOf(b)}
        BY <4>5 DEF Leaves
      <4> QED BY <4>2, <4>6, <4>7
    <3>2. CASE b < 0
      <4>1. RowOut.lanes = {}
        BY <2>1, <3>2 DEF RowHolds
      <4>2. C = {}
        BY <1>9, <3>2
      <4> QED BY <4>1, <4>2 DEF Leaves
    <3> QED BY <3>1, <3>2
  <2> QED BY <2>2 DEF Candidates
<1>13. tree' = IF Candidates = {} THEN <<>> ELSE <<Best(Candidates)>>
  BY DEF TreeAdvance, TreeClear
<1>14. TreeOf(tree', E, S \cup C)
  <2>1. PICK n \in Nat : n = Inf
    BY Sizes
  <2>2. S \cup C \subseteq 0..points - 1
    BY <1>11
  <2>3. S \subseteq Nat /\ C \subseteq Nat
    BY <1>3, <2>2
  <2>4. \A i \in S \cup C : E[i] \in 0..n
    <3> SUFFICES ASSUME NEW i \in S \cup C PROVE E[i] \in 0..n
      OBVIOUS
    <3>1. i \in 0..points - 1
      BY <2>2
    <3>2. base + i \in Addresses /\ E[i] = mdt'[base + i]
      BY <1>5, <3>1
    <3> QED BY <2>1, <3>2 DEF Memory
  <2>5. PICK all : all = Candidates
    OBVIOUS
  <2> QED BY <1>8, <1>12, <1>13, <2>1, <2>3, <2>4, <2>5, TreeGrows
<1>15. (j + 1 - PipeLength) * R = f + 4
  BY <1>1, <1>2
<1> QED BY <1>0, <1>3, <1>11, <1>14, <1>15

LEMMA RowKinds ==
  ASSUME RowsAdvance, \A i \in 1..PipeLength : IsRow(rows[i]), NEW i \in 1..PipeLength
  PROVE  IsRow(rows'[i]) /\ rows'[i].lanes = Entering(i).lanes
<1>1. rows'[i] = IF FirstOfColumn(i) THEN Against(Entering(i), (i - 1) \div PE_STAGES)
                 ELSE Entering(i)
  BY DEF RowsAdvance
<1>2. IsRow(Entering(i))
  <2>1. CASE i = 1
    BY <2>1 DEF Entering, InputRow, IsRow
  <2>2. CASE i # 1
    <3>1. i - 1 \in 1..PipeLength
      BY <2>2, Sizes
    <3> QED BY <2>2, <3>1 DEF Entering
  <2> QED BY <2>1, <2>2
<1>3. PICK row : row = Entering(i)
  OBVIOUS
<1>4. PICK f, w, p, d : row = [first |-> f, lanes |-> w, place |-> p, dist |-> d]
  BY <1>2, <1>3 DEF IsRow
<1>5. ASSUME NEW j PROVE IsRow(Against(row, j)) /\ Against(row, j).lanes = row.lanes
  <2>1. PICK e : e = [g \in w |-> Lesser(d[g], Dist(p[g], columns[j]))]
    OBVIOUS
  <2>2. Against(row, j) = [first |-> f, lanes |-> w, place |-> p, dist |-> e]
    BY <1>4, <2>1 DEF Against
  <2> QED BY <1>4, <2>2 DEF IsRow
<1> QED BY <1>1, <1>2, <1>3, <1>5

(* Without rows in the array or at its input it stays empty, and the tree  *)
(* keeps what it has unless it is cleared.                                 *)
LEMMA QuietStep ==
  ASSUME Quiet, RowsAdvance, TreeAdvance, \A i \in 1..PipeLength : IsRow(rows[i])
  PROVE  /\ \A i \in 1..PipeLength : IsRow(rows'[i]) /\ rows'[i].lanes = {}
         /\ tree = <<>> \/ TreeClear => tree' = <<>>
         /\ ~TreeClear => \A x : tree = <<x>> => tree' = tree
<1>1. ASSUME NEW i \in 1..PipeLength PROVE IsRow(rows'[i]) /\ rows'[i].lanes = {}
  <2>1. IsRow(rows'[i]) /\ rows'[i].lanes = Entering(i).lanes
    BY RowKinds
  <2>2. Entering(i).lanes = {}
    <3>1. CASE i = 1
      BY <3>1 DEF Entering, InputRow, Quiet
    <3>2. CASE i # 1
      <4>1. i - 1 \in 1..PipeLength
        BY <3>2, Sizes
      <4> QED BY <3>2, <4>1 DEF Entering, Quiet
    <3> QED BY <3>1, <3>2
  <2> QED BY <2>1, <2>2
<1>2. RowOut.lanes = {}
  BY LastStage DEF RowOut, Quiet
<1>3. PICK all : all = Candidates /\ all = {tree[i] : i \in DOMAIN tree}
  BY <1>2 DEF Candidates
<1>4. tree' = IF TreeClear \/ all = {} THEN <<>> ELSE <<Best(all)>>
  BY <1>3 DEF TreeAdvance
<1>5. CASE tree = <<>>
  <2>1. DOMAIN <<>> = {}
    OBVIOUS
  <2>2. all = {}
    BY <1>3, <1>5, <2>1
  <2> QED BY <1>1, <1>4, <1>5, <2>2
<1>6. ASSUME NEW x, tree = <<x>>, ~TreeClear PROVE tree' = tree
  <2>1. DOMAIN tree = {1} /\ tree[1] = x
    BY <1>6
  <2>2. all = {x}
    BY <1>3, <2>1
  <2>3. Best({x}) = x
    BY DEF Best
  <2> QED BY <1>4, <1>6, <2>2, <2>3
<1> QED BY <1>1, <1>4, <1>5, <1>6

-----------------------------------------------------------------------------
(* What every edge of the array leaves, and the count of edges.            *)

LEMMA MemoryKept ==
  ASSUME mdt \in Memory, DistanceWrite, st # "STREAM"
  PROVE  mdt' = mdt
<1>1. mdt = [a \in Addresses |-> mdt[a]]
  BY DEF Memory
<1>2. mdt' = [a \in Addresses |-> mdt[a]]
  BY DEF DistanceWrite
<1> QED BY <1>1, <1>2

LEMMA QuietArray ==
  ASSUME Common, Quiet, Array, issue' = NoIssue, st # "STREAM"
  PROVE  /\ Quiet' /\ mdt' = mdt
         /\ \A i \in 1..PipeLength : IsRow(rows'[i])
<1>1. mdt' = mdt
  BY MemoryKept DEF Common, Array
<1>2. \A i \in 1..PipeLength : IsRow(rows'[i]) /\ rows'[i].lanes = {}
  BY QuietStep DEF Common, Array
<1>3. issue'.lanes = {}
  BY DEF NoIssue
<1> QED BY <1>1, <1>2, <1>3 DEF Quiet

LEMMA ColumnsKept ==
  ASSUME ColumnsLoad, st # "LDMERGE"
  PROVE  columns' = columns
BY DEF ColumnsLoad

LEMMA WorkingBusy ==
  ASSUME Common, NEW x, Working(x)
  PROVE  Busy
<1>1. TaskSizes
  BY TaskFacts DEF Working
<1> QED BY <1>1 DEF Busy, Working, Common

LEMMA PlacesKept ==
  ASSUME Common, Busy, ColumnsLoad, st = "LDMERGE", c \in Columns
  PROVE  /\ columns' \in [Columns -> Places]
         /\ columns'[c] = RefAt(pass * L + c)
         /\ \A j \in Columns \ {c} : columns'[j] = columns[j]
<1>1. PICK k \in Nat : k = pass * L + c
  <2>1. PICK u \in Nat : u = pass * L
    BY Sizes DEF Busy
  <2>2. c \in Nat
    BY Sizes DEF Columns
  <2> QED BY <2>1, <2>2
<1>2. MergePoint = RefAt(k)
  BY <1>1 DEF MergePoint, RefAt
<1>3. RefAt(k) \in Places
  BY RefIs DEF Busy, Places
<1>4. columns' = [columns EXCEPT ![c] = RefAt(k)]
  BY <1>2 DEF ColumnsLoad
<1>5. columns \in [Columns -> Places]
  BY DEF Common
<1> QED BY <1>1, <1>3, <1>4, <1>5

LEMMA PassTimeIs ==
  ASSUME TaskSizes
  PROVE  /\ PassTime \in Nat \ {0} /\ PassTime = L + NumBatches + PipeLength
         /\ task.points >= 1 =>
              ModelLatency(task.points, Len(task.merges)) = NumPasses * PassTime + 3
<1>1. PassTime \in Nat \ {0} /\ PassTime = L + NumBatches + PipeLength
  BY Sizes DEF PassTime, TaskSizes
<1>2. ASSUME task.points >= 1
      PROVE  ModelLatency(task.points, Len(task.merges)) = NumPasses * PassTime + 3
  <2>1. ~(task.points = 0)
    BY <1>2 DEF TaskSizes
  <2>2. ModelLatency(task.points, Len(task.merges))
          = NumPasses * (MERGE_LOAD + NumBatches + L * PE_CELL) + OVERHEAD + IO_PIPELINE
    BY <2>1 DEF ModelLatency, NumPasses, NumBatches
  <2>3. MERGE_LOAD + NumBatches + L * PE_CELL = PassTime
    BY LatencyAssumption DEF PassTime, PipeLength
  <2>4. PICK u \in Nat : u = NumPasses * PassTime
    BY <1>1 DEF TaskSizes
  <2>5. OVERHEAD = 2 /\ IO_PIPELINE = 1
    BY LatencyAssumption
  <2> QED BY <2>2, <2>3, <2>4, <2>5
<1> QED BY <1>1, <1>2

LEMMA MulMono ==
  ASSUME NEW a \in Nat, NEW b \in Nat, NEW d \in Nat, a <= b
  PROVE  a * d <= b * d /\ a * d \in Nat /\ b * d \in Nat /\ (a + 1) * d = a * d + d
<1>1. PICK e \in Nat : b = a + e
  <2>1. b - a \in Nat /\ b = a + (b - a)
    OBVIOUS
  <2> QED BY <2>1
<1>2. b * d = a * d + e * d /\ a * d \in Nat /\ e * d \in Nat /\ (a + 1) * d = a * d + d
  BY <1>1
<1> QED BY <1>1, <1>2

(* The passes so far and this one take no longer than all of them. *)
LEMMA PassesFit ==
  ASSUME Busy
  PROVE  /\ pass * PassTime \in Nat /\ (pass + 1) * PassTime = pass * PassTime + PassTime
         /\ (pass + 1) * PassTime <= NumPasses * PassTime
         /\ NumPasses * PassTime \in Nat
<1>1. pass \in Nat /\ NumPasses \in Nat /\ pass + 1 \in Nat /\ pass + 1 <= NumPasses
  BY DEF Busy, TaskSizes
<1>2. PassTime \in Nat
  BY PassTimeIs DEF Busy
<1>3. (pass + 1) * PassTime <= NumPasses * PassTime /\ NumPasses * PassTime \in Nat
  BY <1>1, <1>2, MulMono
<1>4. pass * PassTime \in Nat /\ (pass + 1) * PassTime = pass * PassTime + PassTime
  BY <1>1, <1>2, MulMono
<1> QED BY <1>3, <1>4

(* The age has not stopped counting. *)
LEMMA AgeCounts ==
  ASSUME Busy, NEW x \in Nat, Working(x), x <= PassTime + 1, Aging
  PROVE  age' = 1 + pass * PassTime + (x + 1) /\ age' \in Nat /\ before' = before
<1>1. PICK u \in Nat, w \in Nat, n \in Nat, t \in Nat :
        /\ u = pass * PassTime /\ w = (pass + 1) * PassTime /\ n = NumPasses * PassTime
        /\ t = PassTime /\ w = u + t /\ w <= n
  <2>1. PassTime \in Nat
    BY PassTimeIs DEF Busy
  <2> QED BY <2>1, PassesFit
<1>2. ModelLatency(task.points, Len(task.merges)) = n + 3
  BY <1>1, PassTimeIs DEF Busy
<1>3. n + 3 <= MAX_AGE /\ MAX_AGE \in Nat
  BY <1>2, LatencyAssumption DEF Working
<1>4. age = 1 + u + x
  BY <1>1 DEF Working
<1>5. age < MAX_AGE
  BY <1>1, <1>3, <1>4
<1>6. age' = age + 1 /\ before' = before
  BY <1>5 DEF Aging
<1> QED BY <1>1, <1>4, <1>6

LEMMA WorkingOn ==
  ASSUME Busy, NEW x \in Nat, Working(x), x <= PassTime + 1, Aging, task' = task,
         pass' = pass
  PROVE  Working(x + 1)' /\ TaskKept
<1>1. age' = 1 + pass * PassTime + (x + 1) /\ before' = before
  BY AgeCounts
<1>2. TaskKept
  BY <1>1, SameTask
<1>3. age' = 1 + pass' * PassTime' + (x + 1)
  BY <1>1, <1>2 DEF TaskKept
<1>4. task' \in Descriptors /\ task'.points >= 1 /\ pass' \in 0..NumPasses' - 1
  BY <1>2 DEF TaskKept, Working
<1>5. ModelLatency(task'.points, Len(task'.merges)) <= MAX_AGE
  BY DEF Working
<1> QED BY <1>2, <1>3, <1>4, <1>5 DEF Working

-----------------------------------------------------------------------------
(* An edge of a pass.                                                      *)

(* What the array is after j edges of a pass, whatever the sequencer does. *)
Moved(j) ==
  /\ mdt' \in Memory /\ columns' = columns
  /\ \A i \in 1..PipeLength : IsRow(rows'[i])
  /\ \A i \in 1..PipeLength : RowHolds(rows'[i], j - i, pass * L + MetBehind(i))
  /\ Distances(mdt', (j - PipeLength) * R, (pass + 1) * L, pass * L)
  /\ LastPass => TreeOf(tree', LocalDistances(mdt'),
                        {i \in 0..task.points - 1 : i < (j - PipeLength) * R})

LEMMA ArrayMoves ==
  ASSUME Common, Busy, NEW j \in 0..NumBatches + PipeLength - 1, StreamInv(j),
         st = "STREAM", Array
  PROVE  Moved(j + 1)
<1>1. j \in Nat /\ RowsAdvance /\ TreeAdvance /\ ColumnsLoad /\ DistanceWrite
  BY DEF Array
<1>2. columns' = columns
  BY <1>1, ColumnsKept
<1>3. ASSUME NEW i \in 1..PipeLength
      PROVE  RowHolds(rows'[i], j + 1 - i, pass * L + MetBehind(i)) /\ IsRow(rows'[i])
  BY <1>1, RowsStep DEF Common
<1>4. PICK b \in Int : b = j - PipeLength /\ b + 1 = j + 1 - PipeLength /\ b < NumBatches
  BY Sizes DEF Busy, TaskSizes
<1>5. Written(mdt', b)
  BY <1>1, <1>4, WriteStep
<1>6. Distances(mdt', (b + 1) * R, (pass + 1) * L, pass * L)
  <2>1. Distances(mdt, b * R, (pass + 1) * L, pass * L)
    BY <1>4 DEF StreamInv
  <2>2. PICK k, fewer : k = (pass + 1) * L /\ fewer = pass * L
    OBVIOUS
  <2>3. Distances(mdt', (b + 1) * R, k, fewer)
    BY <1>4, <1>5, <2>1, <2>2, DistancesStep
  <2> QED BY <2>2, <2>3
<1>7. mdt' \in Memory
  <2>1. ASSUME NEW a \in Addresses PROVE mdt'[a] \in 0..Inf
    <3>1. mdt[a] \in 0..Inf
      BY DEF Busy, Memory
    <3>2. LeastOf(a, (pass + 1) * L, mdt'[a]) \/ mdt'[a] = mdt[a]
      BY <1>5 DEF Written
    <3> QED BY <3>1, <3>2 DEF LeastOf
  <2>2. mdt' = [a \in Addresses |-> mdt'[a]]
    BY <1>1 DEF DistanceWrite
  <2> QED BY <2>1, <2>2 DEF Memory
<1>8. LastPass => TreeOf(tree', LocalDistances(mdt'),
                         {i \in 0..task.points - 1 : i < (j + 1 - PipeLength) * R})
  BY <1>1, <1>7, TreeStep
<1>9. Distances(mdt', (j + 1 - PipeLength) * R, (pass + 1) * L, pass * L)
  BY <1>4, <1>6
<1>10. /\ \A i \in 1..PipeLength : IsRow(rows'[i])
       /\ \A i \in 1..PipeLength : RowHolds(rows'[i], j + 1 - i, pass * L + MetBehind(i))
  BY <1>3
<1>11. PICK n \in Nat : n = j + 1 /\ (n - PipeLength) * R = (j + 1 - PipeLength) * R
  BY <1>1, Sizes
<1>12. Distances(mdt', (n - PipeLength) * R, (pass + 1) * L, pass * L)
  BY <1>9, <1>11
<1>13. \A i \in 1..PipeLength : RowHolds(rows'[i], n - i, pass * L + MetBehind(i))
  BY <1>10, <1>11
<1>14. LastPass => TreeOf(tree', LocalDistances(mdt'),
                         {i \in 0..task.points - 1 : i < (n - PipeLength) * R})
  BY <1>8, <1>11
<1>15. Moved(n)
  BY <1>2, <1>7, <1>10, <1>12, <1>13, <1>14 DEF Moved
<1> QED BY <1>11, <1>15

(* Rows come out one by one once the first has gone through the array. *)
LEMMA RowsCounted ==
  ASSUME Busy, NEW j \in 0..NumBatches + PipeLength - 1, StreamInv(j), Stream
  PROVE  /\ capBatch' = (IF j + 1 < PipeLength THEN 0 ELSE j + 1 - PipeLength)
         /\ Drained(capBatch') <=> j + 1 = NumBatches + PipeLength
<1>1. PICK P \in Nat \ {0}, nb \in Nat \ {0} : P = PipeLength /\ nb = NumBatches
  BY Sizes DEF Busy, TaskSizes
<1>2. PICK b \in Int : b = j - P /\ b < nb
  BY <1>1
<1>3. RowHolds(RowOut, b, (pass + 1) * L)
  BY <1>1, <1>2, RowLeaves
<1>4. AnyRowValid <=> j >= P
  <2>1. CASE b < 0
    <3>1. RowOut.lanes = {}
      BY <1>3, <2>1 DEF RowHolds
    <3> QED BY <1>2, <2>1, <3>1 DEF AnyRowValid
  <2>2. CASE b >= 0
    <3>1. b \in Nat /\ b \in 0..NumBatches - 1
      BY <1>1, <1>2, <2>2
    <3>2. RowOut.lanes = LanesOf(b)
      BY <1>3, <3>1 DEF RowHolds
    <3>3. b * R < task.points
      <4>1. PICK n \in Nat : n = task.points /\ 4 * (nb - 1) < n
        BY <1>1 DEF Busy, TaskSizes
      <4>2. b * 4 < n
        BY <1>2, <3>1, <4>1
      <4> QED BY <4>1, <4>2, Sizes
    <3>4. 0 \in LanesOf(b)
      BY <3>1, <3>3, LocalIndexIs DEF Busy
    <3> QED BY <1>2, <2>2, <3>2, <3>4 DEF AnyRowValid
  <2> QED BY <1>2, <2>1, <2>2
<1>5. capBatch' = IF AnyRowValid THEN capBatch + 1 ELSE capBatch
  BY DEF Stream
<1>6. capBatch = IF j < P THEN 0 ELSE j - P
  BY <1>1 DEF StreamInv
<1>7. capBatch' = IF j + 1 < P THEN 0 ELSE j + 1 - P
  BY <1>4, <1>5, <1>6
<1>8. Drained(capBatch') <=> capBatch' >= nb
  BY <1>1 DEF Drained
<1>9. Drained(capBatch') <=> j + 1 = nb + P
  BY <1>1, <1>7, <1>8
<1> QED BY <1>1, <1>7, <1>9

(* What is requested for the next edge. *)
LEMMA RequestsMade ==
  ASSUME Busy, NEW j \in 0..NumBatches + PipeLength - 1, StreamInv(j), Stream
  PROVE  /\ inBatch' = (IF j + 1 < NumBatches THEN j + 2 ELSE NumBatches)
         /\ IF j + 1 < NumBatches
            THEN /\ coAddr' = task.base + (j + 1) * R /\ diAddr' = task.base + (j + 1) * R
                 /\ issue' = [first |-> (j + 1) * R, lanes |-> LanesOf(j + 1)]
            ELSE issue'.lanes = {}
<1>1. PICK nb \in Nat \ {0} : nb = NumBatches
  BY DEF Busy, TaskSizes
<1>2. inBatch = IF j < nb THEN j + 1 ELSE nb
  BY <1>1 DEF StreamInv
<1>3. CASE j + 1 < nb
  <2>1. inBatch = j + 1 /\ inBatch < NumBatches
    BY <1>1, <1>2, <1>3
  <2>2. Request(j + 1) /\ inBatch' = j + 1 + 1
    BY <2>1 DEF Stream
  <2>3. PICK b \in Nat : b = j + 1
    OBVIOUS
  <2>4. b * R < task.points
    <3>1. PICK n \in Nat : n = task.points /\ 4 * (nb - 1) < n
      BY <1>1 DEF Busy, TaskSizes
    <3>2. b * 4 < n
      BY <1>3, <2>3, <3>1
    <3> QED BY <3>1, <3>2, Sizes
  <2>5. (b * R) % LOCAL_INDICES = b * R
    BY <2>4, LocalIndexIs DEF Busy
  <2>6. /\ coAddr' = task.base + b * R /\ diAddr' = task.base + b * R
        /\ issue' = [first |-> b * R, lanes |-> LanesOf(b)]
    BY <2>2, <2>3, <2>5 DEF Request
  <2>7. j + 1 + 1 = j + 2
    OBVIOUS
  <2> QED BY <1>1, <1>3, <2>2, <2>3, <2>6, <2>7
<1>4. CASE ~(j + 1 < nb)
  <2>1. inBatch = nb
    BY <1>1, <1>2, <1>4
  <2>2. NoRequest /\ inBatch' = inBatch
    BY <1>1, <2>1 DEF Stream
  <2>3. issue'.lanes = {}
    BY <2>2 DEF NoRequest, NoIssue
  <2> QED BY <1>1, <1>4, <2>1, <2>2, <2>3
<1> QED BY <1>3, <1>4

-----------------------------------------------------------------------------
(* The end of an edge of a pass: it goes on, or the next begins, or none.  *)

LEMMA StreamGoesOn ==
  ASSUME Busy, NEW j \in 0..NumBatches + PipeLength - 1, StreamInv(j), Stream, TaskKept,
         Moved(j + 1), Working(L + (j + 1))', task' = task, pass' = pass,
         j + 1 # NumBatches + PipeLength
  PROVE  \E n \in 0..NumBatches' + PipeLength' - 1 : StreamInv(n)'
<1>1. PICK n \in Nat : n = j + 1
  OBVIOUS
<1>2. n \in 0..NumBatches' + PipeLength' - 1
  <2>1. n \in 0..NumBatches + PipeLength - 1
    BY <1>1, Sizes DEF Busy, TaskSizes
  <2> QED BY <2>1 DEF TaskKept, PipeLength
<1>3. inBatch' = (IF n < NumBatches' THEN n + 1 ELSE NumBatches')
  <2>1. j + 2 = n + 1
    BY <1>1
  <2>2. inBatch' = (IF j + 1 < NumBatches THEN j + 2 ELSE NumBatches)
    BY RequestsMade
  <2> QED BY <1>1, <2>1, <2>2 DEF TaskKept
<1>4. capBatch' = (IF n < PipeLength THEN 0 ELSE n - PipeLength)
  <2>1. capBatch' = (IF j + 1 < PipeLength THEN 0 ELSE j + 1 - PipeLength)
    BY RowsCounted
  <2>2. PICK P \in Nat : P = PipeLength
    BY Sizes
  <2> QED BY <1>1, <2>1, <2>2
<1>5. IF n < NumBatches'
      THEN /\ coAddr' = task'.base + n * R /\ diAddr' = task'.base + n * R
           /\ issue' = [first |-> n * R, lanes |-> LanesOf(n)']
      ELSE issue'.lanes = {}
  <2>1. IF n < NumBatches
        THEN /\ coAddr' = task.base + n * R /\ diAddr' = task.base + n * R
             /\ issue' = [first |-> n * R, lanes |-> LanesOf(n)]
        ELSE issue'.lanes = {}
    BY <1>1, RequestsMade
  <2> QED BY <2>1 DEF TaskKept
<1>6. Moved(n)
  BY <1>1
<1>7. \A i \in 1..PipeLength : RowHolds(rows[i], n - i, pass * L + MetBehind(i))'
  <2> SUFFICES ASSUME NEW i \in 1..PipeLength
               PROVE  RowHolds(rows[i], n - i, pass * L + MetBehind(i))'
    OBVIOUS
  <2>1. PICK row, b, k : row = rows'[i] /\ b = n - i /\ k = pass * L + MetBehind(i)
    OBVIOUS
  <2>2. RowHolds(row, b, k)
    BY <1>6, <2>1 DEF Moved
  <2>3. RowHolds(row, b, k)'
    BY <2>2 DEF TaskKept
  <2>4. MetBehind(i)' = MetBehind(i)
    BY DEF MetBehind
  <2> QED BY <2>1, <2>3, <2>4
<1>8. Distances(mdt, (n - PipeLength) * R, (pass + 1) * L, pass * L)'
  <2>1. PICK m, d, k, f : /\ m = mdt' /\ d = (n - PipeLength) * R
                          /\ k = (pass + 1) * L /\ f = pass * L
    OBVIOUS
  <2>2. Distances(m, d, k, f)
    BY <1>6, <2>1 DEF Moved
  <2>3. Distances(m, d, k, f)'
    BY <2>2 DEF TaskKept
  <2> QED BY <2>1, <2>3
<1>9. (LastPass => TreeHas((n - PipeLength) * R))'
  <2>1. LastPass' => LastPass
    BY DEF LastPass, TaskKept
  <2>2. LastPass => TreeOf(tree', LocalDistances(mdt'),
                           {i \in 0..task.points - 1 : i < (n - PipeLength) * R})
    BY <1>6 DEF Moved
  <2>3. LocalDistances(mdt)' = LocalDistances(mdt')
    <3>1. PICK m : m = mdt'
      OBVIOUS
    <3>2. LocalDistances(m)' = LocalDistances(m)
      BY DEF TaskKept
    <3> QED BY <3>1, <3>2
  <2> QED BY <2>1, <2>2, <2>3 DEF TreeHas, TreeOf
<1>10. Loaded(L)'
  <2>1. columns' = columns /\ Loaded(L)
    BY <1>6 DEF Moved, StreamInv
  <2> QED BY <2>1 DEF Loaded, TaskKept
<1>11. Working(L + n)'
  BY <1>1
<1>12. capBatch' = (IF n < PipeLength' THEN 0 ELSE n - PipeLength')
  BY <1>4 DEF PipeLength
<1>13. StreamInv(n)'
  BY <1>3, <1>5, <1>7, <1>8, <1>9, <1>10, <1>11, <1>12 DEF StreamInv
<1> QED BY <1>2, <1>13

(* All points of the bucket have met the references of the pass, and the   *)
(* array is empty.                                                         *)
LEMMA PassEnds ==
  ASSUME Busy, NEW j \in 0..NumBatches + PipeLength - 1, StreamInv(j), Stream,
         Moved(j + 1), j + 1 = NumBatches + PipeLength
  PROVE  /\ \A k, fewer : k = (pass + 1) * L =>
                /\ Distances(mdt', task.points, k, fewer)
                /\ Distances(mdt', 0, fewer, k)
         /\ LastPass => TreeOf(tree', LocalDistances(mdt'),
                               {i \in 0..task.points - 1 : i < task.points})
         /\ Quiet'
<1>1. PICK n \in Nat : n = j + 1 /\ n = NumBatches + PipeLength
  OBVIOUS
<1>2. PICK nb \in Nat, P \in Nat, points \in Nat, base \in Nat :
        /\ nb = NumBatches /\ P = PipeLength /\ points = task.points /\ base = task.base
        /\ n - P = nb /\ points <= nb * R
  <2>1. PICK nb \in Nat, P \in Nat, points \in Nat, base \in Nat :
          nb = NumBatches /\ P = PipeLength /\ points = task.points /\ base = task.base
    BY Sizes DEF Busy, TaskSizes
  <2>2. points <= 4 * nb
    BY <2>1 DEF Busy, TaskSizes
  <2>3. points <= nb * R
    BY <2>2, Sizes
  <2>4. n - P = nb
    BY <1>1, <2>1
  <2> QED BY <2>1, <2>3, <2>4
<1>3. Moved(n)
  BY <1>1
<1>4. ASSUME NEW k, NEW fewer, k = (pass + 1) * L
      PROVE  Distances(mdt', points, k, fewer) /\ Distances(mdt', 0, fewer, k)
  <2>1. Distances(mdt', nb * R, k, pass * L)
    BY <1>2, <1>3, <1>4 DEF Moved
  <2>2. ASSUME NEW a \in Addresses, a \in Members
        PROVE  a - base < nb * R /\ a - base < points /\ ~(a - base < 0)
    <3>1. a \in base..base + points - 1
      BY <1>2, <2>2 DEF Members
    <3>2. PICK u \in Nat : u = nb * R
      BY Sizes
    <3> QED BY <1>2, <3>1, <3>2
  <2>3. ASSUME NEW a \in Addresses
        PROVE  IF a \notin Members THEN mdt'[a] = before[a] ELSE LeastOf(a, k, mdt'[a])
    <3>1. IF a \notin Members THEN mdt'[a] = before[a]
          ELSE IF a - base < nb * R THEN LeastOf(a, k, mdt'[a]) ELSE LeastOf(a, pass * L, mdt'[a])
      BY <1>2, <2>1 DEF Distances
    <3> QED BY <2>2, <3>1
  <2>4. Distances(mdt', points, k, fewer)
    BY <1>2, <2>2, <2>3 DEF Distances
  <2>5. Distances(mdt', 0, fewer, k)
    BY <1>2, <2>2, <2>3 DEF Distances
  <2> QED BY <2>4, <2>5
<1>5. LastPass => TreeOf(tree', LocalDistances(mdt'), {i \in 0..points - 1 : i < points})
  <2>1. LastPass => TreeOf(tree', LocalDistances(mdt'), {i \in 0..points - 1 : i < nb * R})
    BY <1>2, <1>3 DEF Moved
  <2>2. {i \in 0..points - 1 : i < points} = {i \in 0..points - 1 : i < nb * R}
    <3>1. PICK u \in Nat : u = nb * R
      BY Sizes
    <3> QED BY <1>2, <3>1
  <2> QED BY <2>1, <2>2
<1>6. Quiet'
  <2>1. issue'.lanes = {}
    <3>1. ~(j + 1 < NumBatches)
      BY <1>1, <1>2, Sizes
    <3> QED BY <3>1, RequestsMade
  <2>2. ASSUME NEW i \in 1..PipeLength PROVE rows'[i].lanes = {}
    <3>1. RowHolds(rows'[i], n - i, pass * L + MetBehind(i))
      BY <1>3 DEF Moved
    <3>2. n - i \notin 0..NumBatches - 1
      BY <1>1, <1>2
    <3> QED BY <3>1, <3>2 DEF RowHolds
  <2> QED BY <2>1, <2>2 DEF Quiet, PipeLength
<1> QED BY <1>2, <1>4, <1>5, <1>6

LEMMA NextPass ==
  ASSUME Common, Busy, NEW j \in 0..NumBatches + PipeLength - 1, StreamInv(j), Stream,
         TaskKept, Moved(j + 1), j + 1 = NumBatches + PipeLength, ~LastPass, task' = task,
         age' = 1 + pass * PassTime + (L + j + 1), pass' = pass + 1, c' = 0
  PROVE  LoadInv'
<1>1. Working(0)'
  <2>1. pass' \in 0..NumPasses' - 1
    <3>1. NumPasses \in Nat /\ pass \in 0..NumPasses - 1 /\ pass # NumPasses - 1
      BY DEF Busy, LastPass, TaskSizes
    <3>2. pass + 1 \in 0..NumPasses - 1
      BY <3>1
    <3> QED BY <3>2 DEF TaskKept
  <2>2. age' = 1 + pass' * PassTime' + 0
    <3>1. PICK u \in Nat, w \in Nat, t \in Nat : u = pass * PassTime /\ w = (pass + 1) * PassTime
                                                  /\ t = PassTime /\ w = u + t
      <4>1. PassTime \in Nat
        BY PassTimeIs DEF Busy
      <4>2. (pass + 1) * PassTime = pass * PassTime + PassTime /\ pass * PassTime \in Nat
        BY PassesFit
      <4>3. PICK u \in Nat, t \in Nat : u = pass * PassTime /\ t = PassTime
        BY <4>1, <4>2
      <4>4. PICK w \in Nat : w = u + t
        OBVIOUS
      <4>5. w = (pass + 1) * PassTime
        BY <4>2, <4>3, <4>4
      <4> QED BY <4>3, <4>4, <4>5
    <3>2. L + j + 1 = t
      <4>1. t = L + NumBatches + PipeLength
        BY <3>1, PassTimeIs DEF Busy
      <4> QED BY <4>1, Sizes DEF Busy, TaskSizes
    <3>3. age' = 1 + w
      BY <3>1, <3>2
    <3>4. pass' * PassTime' = w
      BY <3>1 DEF TaskKept
    <3> QED BY <3>1, <3>3, <3>4
  <2>3. task' \in Descriptors /\ task'.points >= 1
        /\ ModelLatency(task'.points, Len(task'.merges)) <= MAX_AGE
    BY DEF Working, StreamInv
  <2> QED BY <2>1, <2>2, <2>3 DEF Working
<1>2. Distances(mdt, 0, 0, pass * L)'
  <2>1. PICK m, k : m = mdt' /\ k = (pass + 1) * L
    OBVIOUS
  <2>2. Distances(m, 0, 0, k)
    BY <2>1, PassEnds
  <2>3. Distances(m, 0, 0, k)'
    BY <2>2 DEF TaskKept
  <2>4. k = pass' * L
    BY <2>1
  <2> QED BY <2>1, <2>3, <2>4
<1>3. Loaded(0)'
  <2>1. \A i \in 0..0 - 1 : FALSE
    OBVIOUS
  <2> QED BY <2>1 DEF Loaded
<1>4. 0 \in Columns /\ ~(0 > 0)
  BY Sizes DEF Columns
<1>5. Working(c)' /\ Loaded(c)'
  BY <1>1, <1>3
<1> QED BY <1>2, <1>4, <1>5 DEF LoadInv

LEMMA LastPassEnds ==
  ASSUME Common, Busy, NEW j \in 0..NumBatches + PipeLength - 1, StreamInv(j), Stream,
         TaskKept, Moved(j + 1), j + 1 = NumBatches + PipeLength, LastPass, task' = task,
         Working(L + (j + 1))', pass' = pass
  PROVE  CollectInv'
<1>1. Working(PassTime + 0)'
  <2>1. L + (j + 1) = PassTime /\ PassTime + 0 = PassTime
    <3>1. PassTime = L + NumBatches + PipeLength
      BY PassTimeIs DEF Busy
    <3> QED BY <3>1, Sizes DEF Busy, TaskSizes
  <2>2. L + (j + 1) = (PassTime + 0)'
    BY <2>1 DEF TaskKept
  <2>3. PICK x : x = L + (j + 1)
    OBVIOUS
  <2>4. Working(x)' /\ x = (PassTime + 0)'
    BY <2>2, <2>3
  <2> QED BY <2>4
<1>2. LastPass'
  BY DEF LastPass, TaskKept
<1>3. (pass + 1) * L = NumPasses * L
  <2>1. pass + 1 = NumPasses
    BY DEF LastPass, Busy, TaskSizes
  <2> QED BY <2>1
<1>4. Distances(mdt, task.points, NumPasses * L, 0)'
  <2>1. PICK m, k, n : m = mdt' /\ k = NumPasses * L /\ n = task.points
    OBVIOUS
  <2>2. Distances(m, n, k, 0)
    BY <1>3, <2>1, PassEnds
  <2>3. Distances(m, n, k, 0)'
    BY <2>2 DEF TaskKept
  <2>4. k = NumPasses' * L /\ n = task'.points
    BY <2>1 DEF TaskKept
  <2> QED BY <2>1, <2>3, <2>4
<1>5. TreeHas(task.points)'
  <2>1. TreeOf(tree', LocalDistances(mdt'), {i \in 0..task.points - 1 : i < task.points})
    BY PassEnds
  <2>2. LocalDistances(mdt)' = LocalDistances(mdt')
    <3>1. PICK m : m = mdt'
      OBVIOUS
    <3>2. LocalDistances(m)' = LocalDistances(m)
      BY DEF TaskKept
    <3> QED BY <3>1, <3>2
  <2> QED BY <2>1, <2>2 DEF TreeHas, TreeOf
<1> QED BY <1>1, <1>2, <1>4, <1>5 DEF CollectInv, Finished

LEMMA StreamStep ==
  ASSUME EngineInv, Stream
  PROVE  EngineInv'
<1>1. st = "STREAM" /\ Common
  BY DEF Stream, EngineInv
<1>2. PICK j \in 0..NumBatches + PipeLength - 1 : StreamInv(j)
  BY <1>1 DEF EngineInv, Phase
<1>3. Array /\ Aging /\ task' = task /\ fifo' = fifo
  BY DEF Stream
<1>4. Working(L + j)
  BY <1>2 DEF StreamInv
<1>5. Busy
  BY <1>1, <1>4, WorkingBusy
<1>6. Moved(j + 1)
  BY <1>1, <1>2, <1>3, <1>5, ArrayMoves
<1>7. PICK x \in Nat : x = L + j /\ x <= PassTime + 1 /\ x + 1 = L + (j + 1)
  <2>1. PassTime = L + NumBatches + PipeLength
    BY <1>5, PassTimeIs DEF Busy
  <2> QED BY <1>5, <2>1, Sizes DEF Busy, TaskSizes
<1>8. age' = 1 + pass * PassTime + (x + 1) /\ age' \in Nat /\ before' = before
  BY <1>3, <1>4, <1>5, <1>7, AgeCounts
<1>9. TaskKept
  BY <1>3, <1>8, SameTask
<1>10. Common'
  <2>1. mdt' \in Memory /\ before' \in Memory /\ columns' \in [Columns -> Places]
    BY <1>1, <1>6, <1>8 DEF Common, Moved
  <2>2. fifo' \in Seq(Descriptors) /\ \A i \in DOMAIN fifo' : Bounded(fifo'[i])
    BY <1>1, <1>3 DEF Common
  <2>3. \A i \in 1..PipeLength : IsRow(rows'[i])
    BY <1>6 DEF Moved
  <2> QED BY <1>8, <2>1, <2>2, <2>3 DEF Common, PipeLength
<1>11. CASE j + 1 # NumBatches + PipeLength
  <2>1. st' = "STREAM" /\ pass' = pass
    <3>1. ~Drained(capBatch')
      BY <1>2, <1>5, <1>11, RowsCounted
    <3> QED BY <1>1, <3>1 DEF Stream
  <2>2. Working(x + 1)'
    BY <1>3, <1>4, <1>5, <1>7, <2>1, WorkingOn
  <2>3. Working(L + (j + 1))'
    BY <1>7, <2>2
  <2>4. \E n \in 0..NumBatches' + PipeLength' - 1 : StreamInv(n)'
    BY <1>2, <1>3, <1>5, <1>6, <1>9, <1>11, <2>1, <2>3, StreamGoesOn
  <2>5. Phase'
    BY <2>1, <2>4 DEF Phase
  <2> QED BY <1>10, <2>5 DEF EngineInv
<1>12. CASE j + 1 = NumBatches + PipeLength
  <2>1. Drained(capBatch')
    BY <1>2, <1>5, <1>12, RowsCounted
  <2>2. AfterPass
    BY <2>1 DEF Stream
  <2>3. Quiet'
    BY <1>2, <1>5, <1>6, <1>12, PassEnds
  <2>4. CASE ~LastPass
    <3>1. st' = "LDMERGE" /\ pass' = pass + 1 /\ c' = 0
      BY <2>2, <2>4 DEF AfterPass
    <3>2. age' = 1 + pass * PassTime + (L + j + 1)
      <4>1. x + 1 = L + j + 1
        BY <1>7, Sizes
      <4> QED BY <1>8, <4>1
    <3>3. LoadInv'
      BY <1>1, <1>2, <1>3, <1>5, <1>6, <1>9, <1>12, <2>4, <3>1, <3>2, NextPass
    <3>4. Phase'
      BY <2>3, <3>1, <3>3 DEF Phase
    <3> QED BY <1>10, <3>4 DEF EngineInv
  <2>5. CASE LastPass
    <3>1. st' = "COLLECT" /\ pass' = pass
      BY <2>2, <2>5 DEF AfterPass
    <3>2. Working(x + 1)'
      BY <1>3, <1>4, <1>5, <1>7, <3>1, WorkingOn
    <3>3. Working(L + (j + 1))'
      BY <1>7, <3>2
    <3>4. CollectInv'
      BY <1>1, <1>2, <1>3, <1>5, <1>6, <1>9, <1>12, <2>5, <3>1, <3>3, LastPassEnds
    <3>5. Phase'
      BY <2>3, <3>1, <3>4 DEF Phase
    <3> QED BY <1>10, <3>5 DEF EngineInv
  <2> QED BY <2>4, <2>5
<1> QED BY <1>11, <1>12

-----------------------------------------------------------------------------
(* The edges outside a pass.                                               *)

LEMMA CommonKept ==
  ASSUME Common, Quiet, Array, issue' = NoIssue, st \notin {"STREAM", "LDMERGE"},
         before' \in Memory, age' \in Nat, fifo' = fifo
  PROVE  Common' /\ Quiet' /\ mdt' = mdt
<1>1. Quiet' /\ mdt' = mdt /\ \A i \in 1..PipeLength : IsRow(rows'[i])
  BY QuietArray
<1>2. columns' = columns
  BY ColumnsKept DEF Array
<1>3. fifo' \in Seq(Descriptors) /\ \A i \in DOMAIN fifo' : Bounded(fifo'[i])
  BY DEF Common
<1>4. mdt' \in Memory /\ columns' \in [Columns -> Places]
  BY <1>1, <1>2 DEF Common
<1> QED BY <1>1, <1>3, <1>4 DEF Common, PipeLength

(* One more column holds its reference, and the tree is empty before the   *)
(* last pass.                                                              *)
LEMMA ColumnLoaded ==
  ASSUME Common, Busy, LoadInv, Quiet, st = "LDMERGE", Array
  PROVE  /\ \A j \in 0..c : columns'[j] = RefAt(pass * L + j)
         /\ columns' \in [Columns -> Places] /\ mdt' = mdt
         /\ LastPass => tree' = <<>>
         /\ \A i \in 1..PipeLength : IsRow(rows'[i]) /\ rows'[i].lanes = {}
<1>1. c \in Columns /\ c \in Nat /\ Loaded(c)
  BY Sizes DEF LoadInv, Columns
<1>2. /\ columns' \in [Columns -> Places] /\ columns'[c] = RefAt(pass * L + c)
      /\ \A j \in Columns \ {c} : columns'[j] = columns[j]
  BY <1>1, PlacesKept DEF Array
<1>3. ASSUME NEW j \in 0..c PROVE columns'[j] = RefAt(pass * L + j)
  <2>1. CASE j = c
    BY <1>2, <2>1
  <2>2. CASE j # c
    <3>1. j \in 0..c - 1
      BY <1>1, <2>2
    <3>2. j \in Columns
      BY <1>1, <3>1, Sizes DEF Columns
    <3>3. columns[j] = RefAt(pass * L + j)
      BY <1>1, <3>1 DEF Loaded
    <3> QED BY <1>2, <2>2, <3>2, <3>3
  <2> QED BY <2>1, <2>2
<1>4. mdt' = mdt
  BY MemoryKept DEF Common, Array
<1>5. /\ \A i \in 1..PipeLength : IsRow(rows'[i]) /\ rows'[i].lanes = {}
      /\ tree = <<>> \/ TreeClear => tree' = <<>>
  BY QuietStep DEF Common, Array
<1>6. LastPass => tree' = <<>>
  <2>1. LastPass /\ c = 0 => TreeClear
    BY DEF TreeClear
  <2>2. LastPass /\ c # 0 => tree = <<>>
    BY <1>1 DEF LoadInv
  <2> QED BY <1>5, <2>1, <2>2
<1> QED BY <1>2, <1>3, <1>4, <1>5, <1>6

LEMMA LoadColumnStep ==
  ASSUME EngineInv, LoadColumn
  PROVE  EngineInv'
<1>1. /\ st = "LDMERGE" /\ c # L - 1 /\ c' = c + 1 /\ st' = st /\ task' = task
      /\ pass' = pass /\ fifo' = fifo /\ Array /\ NoRequest /\ Aging
  BY DEF LoadColumn
<1>2. Common /\ LoadInv /\ Quiet
  BY <1>1 DEF EngineInv, Phase
<1>3. Working(c) /\ c \in Columns
  BY <1>2 DEF LoadInv
<1>4. Busy
  BY <1>2, <1>3, WorkingBusy
<1>5. PICK x \in Nat : x = c /\ x + 1 \in Columns /\ x <= PassTime + 1 /\ x + 1 = c'
  <2>1. PassTime = L + NumBatches + PipeLength
    BY <1>4, PassTimeIs DEF Busy
  <2> QED BY <1>1, <1>3, <1>4, <2>1, Sizes DEF Columns, Busy, TaskSizes
<1>6. Working(x + 1)' /\ TaskKept /\ age' \in Nat /\ before' = before
  BY <1>1, <1>3, <1>4, <1>5, WorkingOn, AgeCounts
<1>7. /\ \A j \in 0..c : columns'[j] = RefAt(pass * L + j)
      /\ columns' \in [Columns -> Places] /\ mdt' = mdt
      /\ LastPass => tree' = <<>>
      /\ \A i \in 1..PipeLength : IsRow(rows'[i]) /\ rows'[i].lanes = {}
  BY <1>1, <1>2, <1>4, ColumnLoaded
<1>8. Common'
  BY <1>1, <1>2, <1>6, <1>7 DEF Common, PipeLength
<1>9. Quiet'
  <2>1. issue'.lanes = {}
    BY <1>1 DEF NoRequest, NoIssue
  <2> QED BY <1>7, <2>1 DEF Quiet, PipeLength
<1>10. LoadInv'
  <2>1. Working(c)'
    BY <1>5, <1>6
  <2>2. Loaded(c)'
    <3>1. \A j \in 0..c' - 1 : columns'[j] = RefAt(pass' * L + j)
      BY <1>1, <1>5, <1>7
    <3>2. \A k : RefAt(k)' = RefAt(k)
      BY <1>6 DEF TaskKept
    <3>3. \A j \in 0..c' - 1 : columns'[j] = RefAt(pass * L + j)'
      <4> SUFFICES ASSUME NEW j \in 0..c' - 1 PROVE columns'[j] = RefAt(pass * L + j)'
        OBVIOUS
      <4>1. PICK k : k = pass' * L + j
        OBVIOUS
      <4>2. columns'[j] = RefAt(k) /\ RefAt(k)' = RefAt(k)
        BY <3>1, <3>2, <4>1
      <4> QED BY <1>1, <4>1, <4>2
    <3> QED BY <3>3 DEF Loaded
  <2>3. Distances(mdt, 0, 0, pass * L)'
    <3>1. PICK m, k : m = mdt /\ k = pass * L
      OBVIOUS
    <3>2. Distances(m, 0, 0, k)
      BY <1>2, <3>1 DEF LoadInv
    <3>3. Distances(m, 0, 0, k)'
      BY <1>6, <3>2 DEF TaskKept
    <3> QED BY <1>1, <1>7, <3>1, <3>3
  <2>4. LastPass' => tree' = <<>>
    BY <1>1, <1>6, <1>7 DEF LastPass, TaskKept
  <2> QED BY <1>5, <2>1, <2>2, <2>3, <2>4 DEF LoadInv
<1>11. Phase'
  BY <1>1, <1>9, <1>10 DEF Phase
<1> QED BY <1>8, <1>11 DEF EngineInv

LEMMA LoadLastColumnStep ==
  ASSUME EngineInv, LoadLastColumn
  PROVE  EngineInv'
<1>1. /\ st = "LDMERGE" /\ c = L - 1 /\ st' = "STREAM" /\ task' = task /\ inBatch' = 1
      /\ capBatch' = 0 /\ pass' = pass /\ fifo' = fifo /\ Array /\ Request(0) /\ Aging
  BY DEF LoadLastColumn
<1>2. Common /\ LoadInv /\ Quiet
  BY <1>1 DEF EngineInv, Phase
<1>3. Working(c) /\ c \in Columns
  BY <1>2 DEF LoadInv
<1>4. Busy
  BY <1>2, <1>3, WorkingBusy
<1>5. PICK x \in Nat : x = c /\ x <= PassTime + 1 /\ x + 1 = L + 0
  <2>1. PassTime = L + NumBatches + PipeLength
    BY <1>4, PassTimeIs DEF Busy
  <2> QED BY <1>1, <1>3, <1>4, <2>1, Sizes DEF Columns, Busy, TaskSizes
<1>6. Working(x + 1)' /\ TaskKept /\ age' \in Nat /\ before' = before
  BY <1>1, <1>3, <1>4, <1>5, WorkingOn, AgeCounts
<1>7. /\ \A j \in 0..c : columns'[j] = RefAt(pass * L + j)
      /\ columns' \in [Columns -> Places] /\ mdt' = mdt
      /\ LastPass => tree' = <<>>
      /\ \A i \in 1..PipeLength : IsRow(rows'[i]) /\ rows'[i].lanes = {}
  BY <1>1, <1>2, <1>4, ColumnLoaded
<1>8. Common'
  BY <1>1, <1>2, <1>6, <1>7 DEF Common, PipeLength
<1>9. PICK nb \in Nat \ {0}, P \in Nat \ {0}, base \in Nat, points \in Nat \ {0} :
        nb = NumBatches /\ P = PipeLength /\ base = task.base /\ points = task.points
  <2>1. /\ NumBatches \in Nat \ {0} /\ task.base \in Nat /\ task.points \in Nat \ {0}
        /\ PipeLength \in Nat \ {0}
    BY <1>4, Sizes DEF Busy, TaskSizes
  <2> QED BY <2>1
<1>10. Loaded(L)'
  <2>1. \A j \in 0..L - 1 : columns'[j] = RefAt(pass * L + j)
    BY <1>1, <1>7
  <2>2. \A k : RefAt(k)' = RefAt(k)
    BY <1>6 DEF TaskKept
  <2>3. \A j \in 0..L - 1 : columns'[j] = RefAt(pass * L + j)'
    <3> SUFFICES ASSUME NEW j \in 0..L - 1 PROVE columns'[j] = RefAt(pass * L + j)'
      OBVIOUS
    <3>1. PICK k : k = pass * L + j
      OBVIOUS
    <3>2. columns'[j] = RefAt(k) /\ RefAt(k)' = RefAt(k)
      BY <2>1, <2>2, <3>1
    <3> QED BY <1>1, <3>1, <3>2
  <2> QED BY <2>3 DEF Loaded
<1>11. /\ inBatch' = (IF 0 < NumBatches' THEN 0 + 1 ELSE NumBatches')
       /\ capBatch' = (IF 0 < PipeLength' THEN 0 ELSE 0 - PipeLength')
  BY <1>1, <1>6, <1>9 DEF TaskKept, PipeLength
<1>12. IF 0 < NumBatches'
       THEN /\ coAddr' = task'.base + 0 * R /\ diAddr' = task'.base + 0 * R
            /\ issue' = [first |-> 0 * R, lanes |-> LanesOf(0)']
       ELSE issue'.lanes = {}
  <2>1. 0 * R = 0 /\ 0 * R < task.points
    BY <1>9, Sizes
  <2>2. (0 * R) % LOCAL_INDICES = 0 * R
    BY <1>4, <2>1, LocalIndexIs DEF Busy
  <2>3. /\ coAddr' = task.base + 0 * R /\ diAddr' = task.base + 0 * R
        /\ issue' = [first |-> 0 * R, lanes |-> LanesOf(0)]
    BY <1>1, <2>2 DEF Request
  <2>4. LanesOf(0)' = LanesOf(0)
    BY <1>6 DEF TaskKept
  <2> QED BY <1>1, <1>6, <1>9, <2>3, <2>4 DEF TaskKept
<1>13. \A i \in 1..PipeLength : RowHolds(rows[i], 0 - i, pass * L + MetBehind(i))'
  <2> SUFFICES ASSUME NEW i \in 1..PipeLength
               PROVE  RowHolds(rows[i], 0 - i, pass * L + MetBehind(i))'
    OBVIOUS
  <2>1. rows'[i].lanes = {} /\ 0 - i \notin 0..NumBatches' - 1
    BY <1>7, <1>9
  <2> QED BY <2>1 DEF RowHolds
<1>14. Distances(mdt, (0 - PipeLength) * R, (pass + 1) * L, pass * L)'
  <2>1. PICK m, d, k, f : /\ m = mdt /\ d = (0 - PipeLength) * R
                          /\ k = (pass + 1) * L /\ f = pass * L
    OBVIOUS
  <2>2. d \in Int /\ d < 0
    BY <1>9, <2>1, Sizes
  <2>3. ASSUME NEW a \in Addresses, a \in Members PROVE ~(a - task.base < d) /\ ~(a - task.base < 0)
    <3>1. a \in base..base + points - 1
      BY <1>9, <2>3 DEF Members
    <3>2. ~(a - base < d) /\ ~(a - base < 0)
      BY <1>9, <2>2, <3>1
    <3> QED BY <1>9, <3>2
  <2>4. Distances(m, 0, 0, f)
    BY <1>2, <2>1 DEF LoadInv
  <2>5. Distances(m, d, k, f)
    BY <2>3, <2>4 DEF Distances
  <2>6. Distances(m, d, k, f)'
    BY <1>6, <2>5 DEF TaskKept
  <2>7. (0 - PipeLength') * R = d
    BY <2>1 DEF PipeLength
  <2> QED BY <1>1, <1>7, <2>1, <2>6, <2>7
<1>15. (LastPass => TreeHas((0 - PipeLength) * R))'
  <2>1. LastPass' => LastPass
    BY <1>1, <1>6 DEF LastPass, TaskKept
  <2>2. {i \in 0..task'.points - 1 : i < (0 - PipeLength') * R} = {}
    <3>1. (0 - P) * R < 0 /\ (0 - P) * R \in Int
      BY <1>9, Sizes
    <3>2. PipeLength' = P
      BY <1>9 DEF PipeLength
    <3>3. PICK d \in Int : d = (0 - P) * R /\ d < 0
      BY <3>1
    <3>4. {i \in 0..task'.points - 1 : i < d} = {}
      BY <1>1, <1>9, <3>3
    <3> QED BY <3>2, <3>3, <3>4
  <2>3. LastPass' => tree' = <<>>
    BY <1>7, <2>1
  <2> QED BY <2>2, <2>3 DEF TreeHas, TreeOf
<1>16. Working(L + 0)'
  BY <1>5, <1>6
<1>17. StreamInv(0)'
  BY <1>10, <1>11, <1>12, <1>13, <1>14, <1>15, <1>16 DEF StreamInv
<1>18. 0 \in 0..NumBatches' + PipeLength' - 1
  BY <1>6, <1>9 DEF TaskKept, PipeLength
<1>19. Phase'
  BY <1>1, <1>17, <1>18 DEF Phase
<1> QED BY <1>8, <1>19 DEF EngineInv

-----------------------------------------------------------------------------
(* The far point is read from the tree and pushed.                         *)

FarIs(i) ==
  /\ i \in 0..task.points - 1
  /\ tree = <<[idx |-> i, dist |-> mdt[task.base + i]]>>
  /\ \A o \in (0..task.points - 1) \ {i} :
       Better(mdt[task.base + i], i, mdt[task.base + o], o)

LEMMA TreeIs ==
  ASSUME Busy, TreeHas(task.points)
  PROVE  \E i : FarIs(i)
<1>1. PICK points \in Nat \ {0} : points = task.points
  BY DEF Busy, TaskSizes
<1>2. {i \in 0..points - 1 : i < points} = 0..points - 1 /\ 0 \in 0..points - 1
  OBVIOUS
<1>3. PICK D : D = LocalDistances(mdt) /\ TreeOf(tree, D, 0..points - 1)
  BY <1>1, <1>2 DEF TreeHas
<1>4. \A i \in 0..points - 1 : D[i] = mdt[task.base + i]
  BY <1>1, <1>3 DEF LocalDistances
<1>5. PICK i \in 0..points - 1 : /\ tree = <<[idx |-> i, dist |-> D[i]]>>
                                 /\ \A o \in (0..points - 1) \ {i} : Better(D[i], i, D[o], o)
  BY <1>2, <1>3 DEF TreeOf
<1>6. \A o \in (0..points - 1) \ {i} : Better(mdt[task.base + i], i, mdt[task.base + o], o)
  <2> SUFFICES ASSUME NEW o \in (0..points - 1) \ {i}
               PROVE  Better(mdt[task.base + i], i, mdt[task.base + o], o)
    OBVIOUS
  <2>1. D[i] = mdt[task.base + i] /\ D[o] = mdt[task.base + o] /\ Better(D[i], i, D[o], o)
    BY <1>4, <1>5
  <2> QED BY <2>1
<1>7. FarIs(i)
  BY <1>1, <1>4, <1>5, <1>6 DEF FarIs
<1> QED BY <1>7

LEMMA FinishedOn ==
  ASSUME Common, NEW x \in 0..1, Finished(x), Aging, task' = task, pass' = pass, mdt' = mdt
  PROVE  Finished(x + 1)' /\ TaskKept /\ age' \in Nat /\ before' = before
<1>1. Busy
  BY WorkingBusy DEF Finished
<1>2. PICK y \in Nat : y = PassTime + x /\ y <= PassTime + 1 /\ y + 1 = PassTime + (x + 1)
  BY <1>1, PassTimeIs DEF Busy
<1>3. Working(y)
  BY <1>2 DEF Finished
<1>4. Working(y + 1)' /\ TaskKept /\ age' \in Nat /\ before' = before
  BY <1>1, <1>2, <1>3, WorkingOn, AgeCounts
<1>5. Working(PassTime + (x + 1))'
  <2>1. y + 1 = (PassTime + (x + 1))'
    BY <1>2, <1>4 DEF TaskKept
  <2>2. PICK z : z = y + 1
    OBVIOUS
  <2>3. Working(z)' /\ z = (PassTime + (x + 1))'
    BY <1>4, <2>1, <2>2
  <2> QED BY <2>3
<1>6. LastPass'
  BY <1>4 DEF Finished, LastPass, TaskKept
<1>7. Distances(mdt, task.points, NumPasses * L, 0)'
  <2>1. PICK m, n, k : m = mdt /\ n = task.points /\ k = NumPasses * L
    OBVIOUS
  <2>2. Distances(m, n, k, 0)
    BY <2>1 DEF Finished
  <2>3. Distances(m, n, k, 0)'
    BY <1>4, <2>2 DEF TaskKept
  <2>4. k = NumPasses' * L
    BY <1>4, <2>1 DEF TaskKept
  <2> QED BY <2>1, <2>3, <2>4
<1> QED BY <1>4, <1>5, <1>6, <1>7 DEF Finished

(* The tree holds the far point as long as it has to. *)
LEMMA TreeHeld ==
  ASSUME Common, Busy, Quiet, Array, st # "LDMERGE", TreeHas(task.points), task' = task,
         mdt' = mdt
  PROVE  tree' = tree /\ TreeHas(task.points)'
<1>1. PICK i : FarIs(i)
  BY TreeIs
<1>2. PICK x : tree = <<x>>
  BY <1>1 DEF FarIs
<1>3. ~TreeClear
  BY DEF TreeClear
<1>4. tree' = tree
  BY <1>2, <1>3, QuietStep DEF Common, Array
<1> QED BY <1>4 DEF TreeHas, TreeOf, LocalDistances

LEMMA CollectStep ==
  ASSUME EngineInv, Collect
  PROVE  EngineInv'
<1>1. /\ st = "COLLECT" /\ issue' = NoIssue /\ st' = "CAPTURE" /\ Array /\ Aging
      /\ task' = task /\ pass' = pass /\ fifo' = fifo
  BY DEF Collect
<1>2. Common /\ Quiet /\ Finished(0) /\ TreeHas(task.points)
  BY <1>1 DEF EngineInv, Phase, CollectInv
<1>3. Busy
  BY <1>2, WorkingBusy DEF Finished
<1>4. mdt' = mdt
  BY <1>1, <1>2, QuietArray
<1>5. Finished(0 + 1)' /\ TaskKept /\ age' \in Nat /\ before' = before
  <2>1. 0 \in 0..1
    OBVIOUS
  <2> QED BY <1>1, <1>2, <1>4, <2>1, FinishedOn
<1>6. Common' /\ Quiet'
  <2>1. before' \in Memory
    BY <1>2, <1>5 DEF Common
  <2> QED BY <1>1, <1>2, <1>5, <2>1, CommonKept
<1>7. tree' = tree /\ TreeHas(task.points)'
  BY <1>1, <1>2, <1>3, <1>4, TreeHeld
<1>8. coAddr' = task'.base + (tree'[1].idx \div R) * R
  <2>1. PICK i : FarIs(i)
    BY <1>2, <1>3, TreeIs
  <2>2. tree # <<>>
    BY <2>1 DEF FarIs
  <2> QED BY <1>1, <1>7, <2>2 DEF Collect
<1>9. Finished(1)'
  BY <1>5
<1>10. CaptureInv'
  BY <1>7, <1>8, <1>9 DEF CaptureInv
<1>11. Phase'
  BY <1>1, <1>6, <1>10 DEF Phase
<1> QED BY <1>6, <1>11 DEF EngineInv

LEMMA CaptureStep ==
  ASSUME EngineInv, Capture
  PROVE  EngineInv'
<1>1. /\ st = "CAPTURE" /\ issue' = NoIssue /\ Array /\ Aging
      /\ task' = task /\ pass' = pass /\ fifo' = fifo
  BY DEF Capture, NoRequest
<1>2. /\ Common /\ Quiet /\ Finished(1) /\ TreeHas(task.points)
      /\ coAddr = task.base + (tree[1].idx \div R) * R
  BY <1>1 DEF EngineInv, Phase, CaptureInv
<1>3. Busy
  BY <1>2, WorkingBusy DEF Finished
<1>4. mdt' = mdt
  BY <1>1, <1>2, QuietArray
<1>5. Finished(1 + 1)' /\ TaskKept /\ age' \in Nat /\ before' = before
  <2>1. 1 \in 0..1
    OBVIOUS
  <2> QED BY <1>1, <1>2, <1>4, <2>1, FinishedOn
<1>6. Common' /\ Quiet'
  <2>1. before' \in Memory
    BY <1>2, <1>5 DEF Common
  <2> QED BY <1>1, <1>2, <1>5, <2>1, CommonKept
<1>7. PICK i : FarIs(i)
  BY <1>2, <1>3, TreeIs
<1>8. PICK base \in Nat, points \in Nat : /\ base = task.base /\ points = task.points
                                          /\ base + points <= DEPTH
  BY <1>3 DEF Busy, TaskSizes
<1>9. i \in 0..points - 1 /\ tree # <<>> /\ tree[1].idx = i /\ tree[1].dist = mdt[base + i]
  BY <1>7, <1>8 DEF FarIs
<1>10. st' = "PUSH"
       /\ hold' = [bid |-> task.bid, idx |-> base + i, dist |-> mdt[base + i],
                   place |-> Read([a \in Addresses |-> a], coAddr + (i % R), Origin)]
  BY <1>1, <1>8, <1>9 DEF Capture
<1>11. coAddr + (i % R) = base + i /\ base + i \in Addresses
  <2>1. coAddr = base + (i \div R) * R
    BY <1>2, <1>8, <1>9
  <2>2. PICK q \in Nat, r \in Nat : q = i \div 4 /\ r = i % 4 /\ i = 4 * q + r
    BY <1>8, <1>9, DivMod
  <2>3. coAddr + (i % R) = base + q * 4 + r
    BY <2>1, <2>2, Sizes
  <2>4. base + q * 4 + r = base + i
    BY <2>2
  <2>5. base + i \in Addresses
    <3>1. base + i \in Nat /\ base + i < base + points
      BY <1>8, <1>9
    <3> QED BY <1>8, <3>1, Sizes DEF Addresses
  <2> QED BY <2>3, <2>4, <2>5
<1>12. hold'.place = base + i /\ hold'.idx = base + i /\ hold'.bid = task.bid
       /\ hold'.dist = mdt[base + i]
  BY <1>10, <1>11 DEF Read
<1>13. Members' = base..base + points - 1 /\ base + i \in Members'
  BY <1>1, <1>8, <1>9 DEF Members
<1>14. ASSUME NEW a \in Members', a # base + i
       PROVE  Better(mdt[base + i], base + i, mdt[a], a)
  <2>1. PICK o \in (0..points - 1) \ {i} : a = base + o
    <3>1. a - base \in 0..points - 1 /\ a = base + (a - base) /\ a - base # i
      BY <1>13, <1>14
    <3> QED BY <3>1
  <2>2. Better(mdt[base + i], i, mdt[base + o], o)
    BY <1>7, <1>8, <2>1 DEF FarIs
  <2>3. base + i < base + o <=> i < o
    BY <1>8, <1>9, <2>1
  <2> QED BY <2>1, <2>2, <2>3 DEF Better
<1>15. PushInv'
  <2>1. Finished(2)'
    BY <1>5
  <2>2. \A a \in Members' \ {hold'.idx} : Better(hold'.dist, hold'.idx, mdt'[a], a)
    BY <1>4, <1>12, <1>14
  <2>3. hold'.bid = task'.bid /\ hold'.idx \in Members' /\ hold'.place = hold'.idx
        /\ hold'.dist = mdt'[hold'.idx]
    BY <1>1, <1>4, <1>12, <1>13
  <2> QED BY <2>1, <2>2, <2>3 DEF PushInv
<1>16. Phase'
  BY <1>6, <1>10, <1>15 DEF Phase
<1> QED BY <1>6, <1>16 DEF EngineInv

-----------------------------------------------------------------------------
(* The edges between buckets.                                              *)

LEMMA PushStep ==
  ASSUME EngineInv, NEW full, Push(full)
  PROVE  EngineInv'
<1>1. /\ st = "PUSH" /\ st' \in {"PUSH", "IDLE"} /\ Array /\ issue' = NoIssue
      /\ task' = task /\ pass' = pass /\ hold' = hold /\ fifo' = fifo /\ before' = before
      /\ age' = age
  BY DEF Push, NoRequest
<1>2. Common /\ Quiet /\ (age = 1 \/ PushInv)
  BY <1>1 DEF EngineInv, Phase
<1>3. Common' /\ Quiet' /\ mdt' = mdt
  <2>1. before' \in Memory /\ age' \in Nat
    BY <1>1, <1>2 DEF Common
  <2> QED BY <1>1, <1>2, <2>1, CommonKept
<1>4. TaskKept
  BY <1>1, SameTask
<1>5. PushInv => PushInv'
  <2> SUFFICES ASSUME PushInv PROVE PushInv'
    OBVIOUS
  <2>1. Finished(2)'
    <3>1. Working(PassTime + 2)'
      BY <1>1, <1>4 DEF PushInv, Finished, Working, TaskKept
    <3>2. LastPass'
      BY <1>1, <1>4 DEF PushInv, Finished, LastPass, TaskKept
    <3>3. Distances(mdt, task.points, NumPasses * L, 0)'
      <4>1. PICK m, n, k : m = mdt /\ n = task.points /\ k = NumPasses * L
        OBVIOUS
      <4>2. Distances(m, n, k, 0)
        BY <4>1 DEF PushInv, Finished
      <4>3. Distances(m, n, k, 0)'
        BY <1>4, <4>2 DEF TaskKept
      <4>4. k = NumPasses' * L
        BY <1>4, <4>1 DEF TaskKept
      <4> QED BY <1>1, <1>3, <4>1, <4>3, <4>4
    <3> QED BY <3>1, <3>2, <3>3 DEF Finished
  <2>2. Members' = Members
    BY <1>4 DEF TaskKept
  <2> QED BY <1>1, <1>3, <2>1, <2>2 DEF PushInv
<1>6. Phase'
  BY <1>1, <1>2, <1>3, <1>5 DEF Phase
<1> QED BY <1>3, <1>6 DEF EngineInv

(* Taking the head of the queue leaves descriptors. *)
LEMMA HeadTaken ==
  ASSUME Common, fifo # <<>>
  PROVE  /\ Head(fifo) \in Descriptors /\ Bounded(Head(fifo))
         /\ Tail(fifo) \in Seq(Descriptors)
         /\ \A i \in DOMAIN Tail(fifo) : Bounded(Tail(fifo)[i])
<1>1. PICK q \in Seq(Descriptors) : q = fifo /\ q # <<>> /\ \A i \in 1..Len(q) : Bounded(q[i])
  <2>1. fifo \in Seq(Descriptors) /\ \A i \in DOMAIN fifo : Bounded(fifo[i])
    BY DEF Common
  <2>2. DOMAIN fifo = 1..Len(fifo)
    BY <2>1, LenProperties
  <2> QED BY <2>1, <2>2
<1>2. /\ Head(q) = q[1] /\ Len(q) \in Nat \ {0} /\ Tail(q) \in Seq(Descriptors)
      /\ Len(Tail(q)) = Len(q) - 1
      /\ \A i \in 1..Len(Tail(q)) : Tail(q)[i] = q[i + 1]
  BY <1>1, HeadTailProperties, EmptySeq
<1>3. q[1] \in Descriptors /\ Bounded(q[1])
  <2>1. 1 \in 1..Len(q)
    BY <1>2
  <2> QED BY <1>1, <2>1, ElementOfSeq
<1>4. \A i \in 1..Len(Tail(q)) : Bounded(Tail(q)[i])
  <2> SUFFICES ASSUME NEW i \in 1..Len(Tail(q)) PROVE Bounded(Tail(q)[i])
    OBVIOUS
  <2>1. i + 1 \in 1..Len(q)
    BY <1>2
  <2> QED BY <1>1, <1>2, <2>1
<1>5. DOMAIN Tail(q) = 1..Len(Tail(q))
  BY <1>2, LenProperties
<1> QED BY <1>1, <1>2, <1>3, <1>4, <1>5

(* On an edge without rows or columns the rest of the state may change.    *)
LEMMA IdleArray ==
  ASSUME Common, Quiet, Array, issue' = NoIssue, st = "IDLE", before' = mdt, age' \in Nat,
         fifo' \in Seq(Descriptors), \A i \in DOMAIN fifo' : Bounded(fifo'[i])
  PROVE  Common' /\ Quiet' /\ mdt' = mdt
<1>1. Quiet' /\ mdt' = mdt /\ \A i \in 1..PipeLength : IsRow(rows'[i])
  BY QuietArray
<1>2. columns' = columns
  BY ColumnsKept DEF Array
<1>3. mdt' \in Memory /\ before' \in Memory /\ columns' \in [Columns -> Places]
  BY <1>1, <1>2 DEF Common
<1> QED BY <1>1, <1>3 DEF Common, PipeLength

LEMMA AcceptEmptyStep ==
  ASSUME EngineInv, AcceptEmpty
  PROVE  EngineInv'
<1>1. /\ st = "IDLE" /\ fifo # <<>> /\ st' = "PUSH" /\ fifo' = Tail(fifo) /\ before' = mdt
      /\ age' = 1 /\ Array /\ issue' = NoIssue
  BY DEF AcceptEmpty, NoRequest
<1>2. Common /\ Quiet
  BY <1>1 DEF EngineInv, Phase
<1>3. fifo' \in Seq(Descriptors) /\ \A i \in DOMAIN fifo' : Bounded(fifo'[i])
  BY <1>1, <1>2, HeadTaken
<1>4. Common' /\ Quiet'
  <2>1. age' \in Nat
    BY <1>1
  <2> QED BY <1>1, <1>2, <1>3, <2>1, IdleArray
<1>5. Phase'
  BY <1>1, <1>4 DEF Phase
<1> QED BY <1>4, <1>5 DEF EngineInv

LEMMA TaskFactsLater == (task \in Descriptors => TaskSizes)'
<1>1. task \in Descriptors => TaskSizes
  BY TaskFacts
<1> QED BY <1>1, PTL

LEMMA AcceptStep ==
  ASSUME EngineInv, Accept
  PROVE  EngineInv'
<1>1. /\ st = "IDLE" /\ fifo # <<>> /\ Head(fifo).points > 0 /\ task' = Head(fifo)
      /\ st' = "LDMERGE" /\ pass' = 0 /\ c' = 0 /\ fifo' = Tail(fifo) /\ before' = mdt
      /\ age' = 1 /\ Array /\ issue' = NoIssue
  BY DEF Accept, NoRequest
<1>2. Common /\ Quiet
  BY <1>1 DEF EngineInv, Phase
<1>3. /\ fifo' \in Seq(Descriptors) /\ \A i \in DOMAIN fifo' : Bounded(fifo'[i])
      /\ task' \in Descriptors /\ Bounded(task')
  BY <1>1, <1>2, HeadTaken
<1>4. Common' /\ Quiet' /\ mdt' = mdt
  <2>1. age' \in Nat
    BY <1>1
  <2> QED BY <1>1, <1>2, <1>3, <2>1, IdleArray
<1>5. TaskSizes'
  BY <1>3, TaskFactsLater
<1>6. Working(0)'
  <2>1. task'.points >= 1
    BY <1>1, <1>5 DEF TaskSizes
  <2>2. 0 \in 0..NumPasses' - 1
    <3>1. PICK n \in Nat \ {0} : n = NumPasses'
      BY <1>5 DEF TaskSizes
    <3>2. 0 \in 0..n - 1
      OBVIOUS
    <3> QED BY <3>1, <3>2
  <2>3. PICK t \in Nat : t = PassTime'
    <3>1. PICK n \in Nat : n = NumBatches'
      BY <1>5 DEF TaskSizes
    <3>2. PassTime' = L + n + PipeLength
      BY <3>1 DEF PassTime, PipeLength
    <3> QED BY <3>2, Sizes
  <2>4. age' = 1 + pass' * PassTime' + 0
    <3>1. 1 + 0 * t + 0 = 1
      OBVIOUS
    <3> QED BY <1>1, <2>3, <3>1
  <2> QED BY <1>1, <1>3, <2>1, <2>2, <2>4 DEF Working, Bounded
<1>7. Distances(mdt, 0, 0, pass * L)'
  <2>1. pass' * L = 0
    BY <1>1, Sizes
  <2>2. ASSUME NEW a \in Addresses PROVE LeastOf(a, 0, mdt[a])' /\ mdt'[a] = before'[a]
    <3>1. mdt'[a] = before'[a] /\ mdt'[a] \in 0..Inf
      BY <1>1, <1>2, <1>4 DEF Common, Memory
    <3>2. \A i \in 0..0 - 1 : FALSE
      OBVIOUS
    <3> QED BY <3>1, <3>2, Sizes DEF LeastOf
  <2> QED BY <2>1, <2>2 DEF Distances
<1>8. LoadInv'
  <2>1. Loaded(0)'
    <3>1. \A i \in 0..0 - 1 : FALSE
      OBVIOUS
    <3> QED BY <3>1 DEF Loaded
  <2>2. 0 \in Columns /\ ~(0 > 0)
    BY Sizes DEF Columns
  <2>3. Working(c)' /\ Loaded(c)'
    BY <1>1, <1>6, <2>1
  <2> QED BY <1>1, <1>7, <2>2, <2>3 DEF LoadInv
<1>9. Phase'
  BY <1>1, <1>4, <1>8 DEF Phase
<1> QED BY <1>4, <1>9 DEF EngineInv

LEMMA WaitStep ==
  ASSUME EngineInv, Wait
  PROVE  EngineInv'
<1>1. /\ st = "IDLE" /\ Array /\ issue' = NoIssue /\ st' = st /\ fifo' = fifo
      /\ before' = before /\ age' = age
  BY DEF Wait, NoRequest, control
<1>2. Common /\ Quiet
  BY <1>1 DEF EngineInv, Phase
<1>3. Common' /\ Quiet'
  <2>1. before' \in Memory /\ age' \in Nat
    BY <1>1, <1>2 DEF Common
  <2> QED BY <1>1, <1>2, <2>1, CommonKept
<1>4. Phase'
  BY <1>1, <1>3 DEF Phase
<1> QED BY <1>3, <1>4 DEF EngineInv

LEMMA LoadsBounded ==
  ASSUME NEW w \in Workloads \cup Reloads
  PROVE  w \in Seq(Descriptors) /\ \A i \in DOMAIN w : Bounded(w[i])
BY WorkloadsAssumption, LatencyAssumption DEF Bounded

LEMMA NewJobStep ==
  ASSUME EngineInv, NewJob
  PROVE  EngineInv'
<1>1. /\ st = "IDLE" /\ fifo' \in Reloads /\ mdt' = [a \in Addresses |-> Inf]
      /\ st' = st /\ issue' = issue /\ rows' = rows /\ columns' = columns
      /\ before' = before /\ age' = age
  BY DEF NewJob, control, request, array
<1>2. Common /\ Quiet
  BY <1>1 DEF EngineInv, Phase
<1>3. fifo' \in Seq(Descriptors) /\ \A i \in DOMAIN fifo' : Bounded(fifo'[i])
  BY <1>1, LoadsBounded
<1>4. mdt' \in Memory
  BY <1>1, Sizes DEF Memory
<1>5. Common'
  BY <1>1, <1>2, <1>3, <1>4 DEF Common, PipeLength
<1>6. Quiet'
  BY <1>1, <1>2 DEF Quiet, PipeLength
<1>7. Phase'
  BY <1>1, <1>6 DEF Phase
<1> QED BY <1>5, <1>7 DEF EngineInv

LEMMA ResetStep ==
  ASSUME EngineInv, Reset
  PROVE  EngineInv'
<1>1. /\ st' = "IDLE" /\ issue' = NoIssue /\ rows' = [i \in 1..PipeLength |-> Bubble]
      /\ fifo' = <<>> /\ columns' = columns /\ mdt' = mdt /\ before' = before /\ age' = age
  BY DEF Reset
<1>2. Common
  BY DEF EngineInv
<1>3. fifo' \in Seq(Descriptors) /\ \A i \in DOMAIN fifo' : Bounded(fifo'[i])
  <2>1. DOMAIN <<>> = {}
    OBVIOUS
  <2> QED BY <1>1, <2>1, EmptySeq
<1>4. \A i \in 1..PipeLength : IsRow(rows'[i]) /\ rows'[i].lanes = {}
  BY <1>1 DEF Bubble, IsRow
<1>5. Common'
  BY <1>1, <1>2, <1>3, <1>4 DEF Common, PipeLength
<1>6. Quiet'
  BY <1>1, <1>4 DEF Quiet, PipeLength, NoIssue
<1>7. Phase'
  BY <1>1, <1>6 DEF Phase
<1> QED BY <1>5, <1>7 DEF EngineInv

LEMMA EngineInit ==
  ASSUME Init
  PROVE  EngineInv
<1>1. mdt \in Memory /\ before \in Memory
  BY Sizes DEF Init, Memory
<1>2. columns \in [Columns -> Places]
  BY DEF Init, Places
<1>3. fifo \in Seq(Descriptors) /\ \A i \in DOMAIN fifo : Bounded(fifo[i])
  BY LoadsBounded DEF Init
<1>4. \A i \in 1..PipeLength : IsRow(rows[i]) /\ rows[i].lanes = {}
  BY DEF Init, Bubble, IsRow
<1>5. Common
  BY <1>1, <1>2, <1>3, <1>4 DEF Common, Init
<1>6. Quiet
  BY <1>4 DEF Quiet, Init, NoIssue
<1>7. Phase
  BY <1>6 DEF Phase, Init
<1> QED BY <1>5, <1>7 DEF EngineInv

-----------------------------------------------------------------------------
(* The theorems.                                                           *)

LEMMA EngineStutter ==
  ASSUME EngineInv, UNCHANGED vars
  PROVE  EngineInv'
<1>1. /\ st' = st /\ task' = task /\ pass' = pass /\ c' = c /\ inBatch' = inBatch
      /\ capBatch' = capBatch /\ coAddr' = coAddr /\ diAddr' = diAddr /\ issue' = issue
      /\ columns' = columns /\ rows' = rows /\ tree' = tree /\ hold' = hold /\ mdt' = mdt
      /\ fifo' = fifo /\ before' = before /\ age' = age
  BY DEF vars, control, request, array
<1>2. TaskKept
  BY <1>1, SameTask
<1>3. Common'
  BY <1>1 DEF EngineInv, Common, PipeLength
<1>4. Quiet' <=> Quiet
  BY <1>1 DEF Quiet, PipeLength
<1>5. /\ LastPass' <=> LastPass
      /\ \A x : Working(x)' <=> Working(x)
  BY <1>1, <1>2 DEF LastPass, Working, TaskKept
<1>6. /\ \A n : Loaded(n)' <=> Loaded(n)
      /\ \A n : TreeHas(n)' <=> TreeHas(n)
  BY <1>1, <1>2 DEF Loaded, TreeHas, TreeOf, LocalDistances, TaskKept
<1>7. \A n, k, f : Distances(mdt, n, k, f)' <=> Distances(mdt, n, k, f)
  <2> SUFFICES ASSUME NEW n, NEW k, NEW f
               PROVE  Distances(mdt, n, k, f)' <=> Distances(mdt, n, k, f)
    OBVIOUS
  <2>1. PICK m : m = mdt
    OBVIOUS
  <2>2. Distances(m, n, k, f)' <=> Distances(m, n, k, f)
    BY <1>2 DEF TaskKept
  <2> QED BY <1>1, <2>1, <2>2
<1>8. LoadInv => LoadInv'
  BY <1>1, <1>5, <1>6, <1>7 DEF LoadInv
<1>9. \A x \in Nat : Finished(x)' <=> Finished(x)
  BY <1>1, <1>2, <1>5, <1>7 DEF Finished, TaskKept
<1>10. CollectInv => CollectInv'
  BY <1>1, <1>6, <1>9 DEF CollectInv
<1>11. CaptureInv => CaptureInv'
  BY <1>1, <1>6, <1>9 DEF CaptureInv
<1>12. PushInv => PushInv'
  BY <1>1, <1>2, <1>9 DEF PushInv, TaskKept
<1>13. ASSUME NEW j, StreamInv(j) PROVE StreamInv(j)'
  <2>1. \A i \in 1..PipeLength : RowHolds(rows[i], j - i, pass * L + MetBehind(i))'
    <3> SUFFICES ASSUME NEW i \in 1..PipeLength
                 PROVE  RowHolds(rows[i], j - i, pass * L + MetBehind(i))'
      OBVIOUS
    <3>1. PICK row, b, k : row = rows[i] /\ b = j - i /\ k = pass * L + MetBehind(i)
      OBVIOUS
    <3>2. RowHolds(row, b, k)
      BY <1>13, <3>1 DEF StreamInv
    <3>3. RowHolds(row, b, k)' /\ MetBehind(i)' = MetBehind(i)
      BY <1>2, <3>2 DEF TaskKept, MetBehind
    <3> QED BY <1>1, <3>1, <3>3
  <2>2. Distances(mdt, (j - PipeLength) * R, (pass + 1) * L, pass * L)'
    <3>1. PICK d, k, f : d = (j - PipeLength) * R /\ k = (pass + 1) * L /\ f = pass * L
      OBVIOUS
    <3>2. Distances(mdt, d, k, f)'
      BY <1>7, <1>13, <3>1 DEF StreamInv
    <3>3. d = (j - PipeLength') * R
      BY <3>1 DEF PipeLength
    <3> QED BY <1>1, <3>1, <3>2, <3>3
  <2>3. (LastPass => TreeHas((j - PipeLength) * R))'
    <3>1. PICK d : d = (j - PipeLength) * R
      OBVIOUS
    <3>2. (LastPass => TreeHas(d))'
      BY <1>5, <1>6, <1>13, <3>1 DEF StreamInv
    <3>3. d = (j - PipeLength') * R
      BY <3>1 DEF PipeLength
    <3> QED BY <3>2, <3>3
  <2>4. Working(L + j)' /\ Loaded(L)'
    BY <1>5, <1>6, <1>13 DEF StreamInv
  <2>5. LanesOf(j)' = LanesOf(j) /\ NumBatches' = NumBatches /\ PipeLength' = PipeLength
    BY <1>2 DEF TaskKept, PipeLength
  <2>6. /\ inBatch' = (IF j < NumBatches' THEN j + 1 ELSE NumBatches')
        /\ capBatch' = (IF j < PipeLength' THEN 0 ELSE j - PipeLength')
        /\ IF j < NumBatches'
           THEN /\ coAddr' = task'.base + j * R /\ diAddr' = task'.base + j * R
                /\ issue' = [first |-> j * R, lanes |-> LanesOf(j)']
           ELSE issue'.lanes = {}
    BY <1>1, <1>13, <2>5 DEF StreamInv
  <2> QED BY <2>1, <2>2, <2>3, <2>4, <2>6 DEF StreamInv
<1>14. NumBatches' = NumBatches /\ PipeLength' = PipeLength
  BY <1>2 DEF TaskKept, PipeLength
<1>15. Phase'
  BY <1>1, <1>4, <1>8, <1>10, <1>11, <1>12, <1>13, <1>14 DEF EngineInv, Phase
<1> QED BY <1>3, <1>15 DEF EngineInv

(* Point by point and pass by pass the invariant above is kept: what is in *)
(* the array, the memory and the tree at every edge follows from how many  *)
(* edges of the pass have gone by, which is all the sequencer counts.      *)
THEOREM EngineInvariant == Spec => []EngineInv
<1>1. Init => EngineInv
  BY EngineInit
<1>2. EngineInv /\ [Next]_vars => EngineInv'
  <2> SUFFICES ASSUME EngineInv, [Next]_vars PROVE EngineInv'
    OBVIOUS
  <2>1. CASE Wait
    BY <2>1, WaitStep
  <2>2. CASE NewJob
    BY <2>2, NewJobStep
  <2>3. CASE Reset
    BY <2>3, ResetStep
  <2>4. CASE AcceptEmpty
    BY <2>4, AcceptEmptyStep
  <2>5. CASE Accept
    BY <2>5, AcceptStep
  <2>6. CASE LoadColumn
    BY <2>6, LoadColumnStep
  <2>7. CASE LoadLastColumn
    BY <2>7, LoadLastColumnStep
  <2>8. CASE Stream
    BY <2>8, StreamStep
  <2>9. CASE Collect
    BY <2>9, CollectStep
  <2>10. CASE Capture
    BY <2>10, CaptureStep
  <2>11. ASSUME NEW full \in BOOLEAN, Push(full) PROVE EngineInv'
    BY <2>11, PushStep
  <2>12. CASE UNCHANGED vars
    BY <2>12, EngineStutter
  <2> QED BY <2>1, <2>2, <2>3, <2>4, <2>5, <2>6, <2>7, <2>8, <2>9, <2>10, <2>11, <2>12
          DEF Next, Edge
<1> QED BY <1>1, <1>2, PTL DEF Spec

(* While a bucket is answered that took more than an edge. *)
LEMMA AtAnswer ==
  ASSUME EngineInv, st = "PUSH", age # 1
  PROVE  PushInv /\ Busy /\ Common
<1>1. PushInv /\ Common
  BY DEF EngineInv, Phase
<1>2. Busy
  BY <1>1, WorkingBusy DEF PushInv, Finished
<1> QED BY <1>1, <1>2

(* Every distance of the bucket answered is the least of what it was and   *)
(* those to all references, and no other distance has changed, however     *)
(* many points, references and passes there are.                           *)
THEOREM DistancesAreExact == Spec => []DistancesExact
<1>1. EngineInv => DistancesExact
  <2> SUFFICES ASSUME EngineInv, Answering, NEW a \in Addresses
               PROVE  IF a \in Members THEN IsLeast(a, mdt[a]) ELSE mdt[a] = before[a]
    BY DEF DistancesExact
  <2>1. PushInv /\ Busy /\ Common
    <3>1. st = "PUSH" /\ age # 1
      BY DEF Answering
    <3> QED BY <3>1, AtAnswer
  <2>2. Distances(mdt, task.points, NumPasses * L, 0)
    BY <2>1 DEF PushInv, Finished
  <2>3. CASE a \notin Members
    BY <2>2, <2>3 DEF Distances
  <2>4. CASE a \in Members
    <3>1. a - task.base < task.points
      <4>1. PICK base \in Nat, points \in Nat : base = task.base /\ points = task.points
        BY <2>1 DEF Busy, TaskSizes
      <4>2. a \in base..base + points - 1
        BY <2>4, <4>1 DEF Members
      <4>3. a - base < points
        BY <4>2
      <4> QED BY <4>1, <4>3
    <3>2. LeastOf(a, NumPasses * L, mdt[a])
      BY <2>2, <2>4, <3>1 DEF Distances
    <3>3. PICK k \in Nat : k = NumPasses * L /\ Len(task.merges) + 1 <= k
      BY <2>1, Sizes DEF Busy, TaskSizes
    <3>4. before[a] \in 0..Inf
      BY <2>1 DEF Common, Memory
    <3>5. IsLeast(a, mdt[a])
      <4>1. LeastOf(a, k, mdt[a]) /\ TaskSizes
        BY <2>1, <3>2, <3>3 DEF Busy
      <4> QED BY <3>3, <3>4, <4>1, LeastAll
    <3> QED BY <2>4, <3>5
  <2> QED BY <2>3, <2>4
<1> QED BY <1>1, EngineInvariant, PTL

(* What is pushed is the first of the farthest points of the bucket by its *)
(* final distances, with that distance and its own coordinates.            *)
THEOREM ReturnIsExact == Spec => []ReturnExact
<1>1. EngineInv => ReturnExact
  <2> SUFFICES ASSUME EngineInv, Answering
               PROVE  /\ hold.bid = task.bid /\ hold.idx \in Members /\ hold.place = hold.idx
                      /\ hold.dist = mdt[hold.idx]
                      /\ \A a \in Members \ {hold.idx} :
                           Better(hold.dist, hold.idx, mdt[a], a)
    BY DEF ReturnExact
  <2>1. st = "PUSH" /\ age # 1
    BY DEF Answering
  <2> QED BY <2>1, AtAnswer DEF PushInv
<1> QED BY <1>1, EngineInvariant, PTL

(* From the edge that takes a bucket to the one that pushes its answer it  *)
(* is exactly as many edges as the cycle models say.                       *)
THEOREM LatencyIsModelled == Spec => []LatencyAsModelled
<1>1. EngineInv => LatencyAsModelled
  <2> SUFFICES ASSUME EngineInv, st = "PUSH"
               PROVE  age = IF age = 1 THEN ModelLatency(0, 0)
                            ELSE ModelLatency(task.points, Len(task.merges))
    BY DEF LatencyAsModelled
  <2>1. CASE age = 1
    BY <2>1 DEF ModelLatency
  <2>2. CASE age # 1
    <3>1. PushInv /\ Busy
      BY <2>2, AtAnswer
    <3>2. ModelLatency(task.points, Len(task.merges)) = NumPasses * PassTime + 3
      BY <3>1, PassTimeIs DEF Busy
    <3>3. age = 1 + pass * PassTime + (PassTime + 2) /\ LastPass
      BY <3>1 DEF PushInv, Finished, Working
    <3>4. pass + 1 = NumPasses
      BY <3>1, <3>3 DEF LastPass, Busy, TaskSizes
    <3>5. (pass + 1) * PassTime = pass * PassTime + PassTime
      BY <3>1, PassesFit
    <3>6. PICK u \in Nat, t \in Nat : u = pass * PassTime /\ t = PassTime
      <4>1. PassTime \in Nat /\ pass * PassTime \in Nat
        BY <3>1, PassesFit, PassTimeIs DEF Busy
      <4> QED BY <4>1
    <3>7. NumPasses * PassTime = u + t
      BY <3>4, <3>5, <3>6
    <3>8. age = 1 + u + (t + 2)
      BY <3>3, <3>6
    <3>9. age = NumPasses * PassTime + 3
      BY <3>6, <3>7, <3>8
    <3> QED BY <2>2, <3>2, <3>9
  <2> QED BY <2>1, <2>2
<1> QED BY <1>1, EngineInvariant, PTL
=============================================================================
