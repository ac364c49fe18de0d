---------------------------- MODULE PointBatches ----------------------------
(***************************************************************************)
(* The point engine at the grain of a clock edge: point_engine_top.v reads *)
(* a bucket from the FIFO, loads the columns of the array with references, *)
(* streams the bucket's points through it R at a time, as often as the     *)
(* references need, and delivers the far point the max tree has left.      *)
(* Nothing in the array answers the sequencer: it tells by counting rows   *)
(* when a pass has drained, when the tree may be cleared and when it may   *)
(* be read.  (QuickFpsCore has the same engine at the grain of a pass.)    *)
(*                                                                         *)
(* An address stands for the coordinates stored there.                     *)
(***************************************************************************)
EXTENDS Integers, Sequences

CONSTANTS
  L, R,            \* columns (references) and rows (points) of the array
  PE_STAGES,       \* registers of one PE, 5: four and its output
  LOCAL_INDICES,   \* 2^LIDX_W: indices of a point inside its bucket
  DEPTH,           \* words of the coordinate and distance memories
  Workloads,       \* bucket descriptors the bucket engine pushes, in order
  Reloads,         \* the workloads of later jobs (a bound)
  MAX_AGE,         \* where the history variable age stops counting (a bound)
  Origin,          \* the zero vector
  NoRef,           \* the vector of infinities that fills unused columns
  Dist(_,_),       \* squared distance of two places
  Inf,             \* +INF
  MERGE_LOAD, PE_CELL, OVERHEAD, IO_PIPELINE   \* as the cycle models have them

Addresses == 0..DEPTH - 1
Places    == Addresses \cup {Origin, NoRef}
Lanes     == 0..R - 1
Columns   == 0..L - 1

(* The elaboration checks, and an array with at least one column. *)
ASSUME ArrayAssumption ==
  /\ R = 4 /\ L \in 1..16
  /\ PE_STAGES \in Nat \ {0} /\ DEPTH \in Nat \ {0} /\ LOCAL_INDICES \in Nat \ {0}

(* A descriptor, with the merge slots it refers to: a task's base, number  *)
(* of points, references in the merge buffer and sample.  A bucket has no  *)
(* more points than there are local indices, which nothing in the RTL      *)
(* checks: the field for its count is wider (16 bits against LIDX_W = 11). *)
Descriptors ==
  {t \in [bid : Nat, base : Nat, points : 0..LOCAL_INDICES, merges : Seq(Addresses),
           sample : Addresses] : t.base + t.points <= DEPTH}

ASSUME WorkloadsAssumption == Workloads \cup Reloads \subseteq Seq(Descriptors)

ASSUME DistAssumption ==
  /\ Inf \in Nat
  /\ \A p \in Addresses :
       /\ Dist(p, NoRef) = Inf
       /\ \A q \in Addresses \cup {Origin} : Dist(p, q) \in Nat /\ Dist(p, q) < Inf

VARIABLES
  st, task, pass, c, inBatch, capBatch,   \* the sequencer
  coAddr, diAddr, issue,                  \* the registered memory request
  columns, rows, tree,                    \* the array
  hold,                                   \* the far point to push
  mdt, fifo,                              \* the distance memory and the FIFO
  before, age     \* history: mdt when the task was taken, edges since then

control == <<st, task, pass, c, inBatch, capBatch>>
request == <<coAddr, diAddr, issue>>
array   == <<columns, rows, tree>>
vars    == <<control, request, array, hold, mdt, fifo, before, age>>

Bubble  == [first |-> 0, lanes |-> {}, place |-> <<>>, dist |-> <<>>]
NoTask  == [bid |-> 0, base |-> 0, points |-> 0, merges |-> <<>>, sample |-> 0]
NoIssue == [first |-> 0, lanes |-> {}]

PipeLength == L * PE_STAGES

Init ==
  /\ st = "IDLE" /\ task = NoTask
  /\ pass = 0 /\ c = 0 /\ inBatch = 0 /\ capBatch = 0
  /\ coAddr = 0 /\ diAddr = 0 /\ issue = NoIssue
  /\ columns = [j \in Columns |-> Origin]
  /\ rows = [i \in 1..PipeLength |-> Bubble]
  /\ tree = <<>>
  /\ hold = [bid |-> 0, idx |-> 0, dist |-> 0, place |-> Origin]
  /\ mdt = [a \in Addresses |-> Inf]
  /\ fifo \in Workloads
  /\ before = mdt /\ age = 0

-----------------------------------------------------------------------------
(* The array, which moves on every edge. *)

MutantNumPassesOneMore == (Len(task.merges) + 1) \div L + 1

NumPasses  == (Len(task.merges) + 1 + L - 1) \div L
NumBatches == (task.points + R - 1) \div R
LastPass   == pass = NumPasses - 1

(* What the merge loader offers to column c. *)
MergePoint ==
  LET k == pass * L + c
  IN  IF k < Len(task.merges) THEN task.merges[k + 1]
      ELSE IF k = Len(task.merges) THEN task.sample ELSE NoRef

Read(memory, a, outside) == IF a \in Addresses THEN memory[a] ELSE outside

(* The row at the array's input: the words the registered request reads. *)
InputRow ==
  [first |-> issue.first, lanes |-> issue.lanes,
   place |-> [g \in issue.lanes |-> Read([a \in Addresses |-> a], coAddr + g, Origin)],
   dist  |-> [g \in issue.lanes |-> Read(mdt, diAddr + g, 0)]]

Lesser(a, b) == IF a < b THEN a ELSE b

(* A row that enters column j meets the reference the column holds. *)
Against(row, j) ==
  [row EXCEPT !.dist =
     [g \in row.lanes |-> Lesser(row.dist[g], Dist(row.place[g], columns[j]))]]

Entering(i) == IF i = 1 THEN InputRow ELSE rows[i - 1]

FirstOfColumn(i) == (i - 1) % PE_STAGES = 0

RowsAdvance ==
  rows' = [i \in 1..PipeLength |->
             IF FirstOfColumn(i) THEN Against(Entering(i), (i - 1) \div PE_STAGES)
             ELSE Entering(i)]

RowOut      == rows[PipeLength]
AnyRowValid == RowOut.lanes # {}

Better(dist, idx, d, i) == dist > d \/ (dist = d /\ idx < i)

LocalIndex(row, g) == (row.first + g) % LOCAL_INDICES

Candidates ==
  {[idx |-> LocalIndex(RowOut, g), dist |-> RowOut.dist[g]] : g \in RowOut.lanes}
    \cup {tree[i] : i \in DOMAIN tree}

Best(leaves) ==
  CHOOSE f \in leaves : \A g \in leaves : g = f \/ Better(f.dist, f.idx, g.dist, g.idx)

MutantTreeClearNever == FALSE

(* The tree forgets earlier passes while the last one is loaded. *)
TreeClear == st = "LDMERGE" /\ LastPass /\ c = 0

TreeAdvance ==
  tree' = IF TreeClear \/ Candidates = {} THEN <<>> ELSE <<Best(Candidates)>>

ColumnsLoad ==
  columns' = IF st = "LDMERGE" THEN [columns EXCEPT ![c] = MergePoint] ELSE columns

(* A row that leaves the array is written where its first lane belongs. *)
DistanceWrite ==
  mdt' = [a \in Addresses |->
            LET g == a - (task.base + LocalIndex(RowOut, 0))
            IN  IF st = "STREAM" /\ g \in RowOut.lanes THEN RowOut.dist[g] ELSE mdt[a]]

Array == RowsAdvance /\ TreeAdvance /\ ColumnsLoad /\ DistanceWrite

-----------------------------------------------------------------------------
(* The sequencer. *)

(* The lanes of a batch that carry points of the bucket. *)
LanesOf(batch) == {g \in Lanes : batch * R + g < task.points}

Request(batch) ==
  /\ coAddr' = task.base + batch * R
  /\ diAddr' = task.base + batch * R
  /\ issue' = [first |-> (batch * R) % LOCAL_INDICES, lanes |-> LanesOf(batch)]

NoRequest == issue' = NoIssue /\ UNCHANGED <<coAddr, diAddr>>

Aging == age' = (IF age < MAX_AGE THEN age + 1 ELSE age) /\ UNCHANGED before

(* A bucket without points is answered at once, with a far point of        *)
(* nothing.                                                                *)
AcceptEmpty ==
  /\ st = "IDLE" /\ fifo # <<>> /\ Head(fifo).points = 0
  /\ hold' = [bid |-> Head(fifo).bid, idx |-> 0, dist |-> 0, place |-> Origin]
  /\ st' = "PUSH" /\ fifo' = Tail(fifo)
  /\ before' = mdt /\ age' = 1
  /\ Array /\ NoRequest
  /\ UNCHANGED <<task, pass, c, inBatch, capBatch>>

Accept ==
  /\ st = "IDLE" /\ fifo # <<>> /\ Head(fifo).points > 0
  /\ task' = Head(fifo) /\ fifo' = Tail(fifo)
  /\ st' = "LDMERGE" /\ pass' = 0 /\ c' = 0
  /\ before' = mdt /\ age' = 1
  /\ Array /\ NoRequest
  /\ UNCHANGED <<inBatch, capBatch, hold>>

LoadColumn ==
  /\ st = "LDMERGE" /\ c # L - 1
  /\ c' = c + 1
  /\ Array /\ NoRequest /\ Aging
  /\ UNCHANGED <<st, task, pass, inBatch, capBatch, hold, fifo>>

LoadLastColumn ==
  /\ st = "LDMERGE" /\ c = L - 1
  /\ st' = "STREAM" /\ inBatch' = 1 /\ capBatch' = 0
  /\ Array /\ Request(0) /\ Aging
  /\ UNCHANGED <<task, pass, c, hold, fifo>>

MutantDrainedEarly(captured) == captured + 1 >= NumBatches
MutantDrainedLate(captured)  == captured > NumBatches

(* Every row of the pass has left the array. *)
Drained(captured) == captured >= NumBatches

AfterPass ==
  IF LastPass THEN st' = "COLLECT" /\ UNCHANGED <<pass, c>>
  ELSE st' = "LDMERGE" /\ pass' = pass + 1 /\ c' = 0

Stream ==
  /\ st = "STREAM"
  /\ IF inBatch < NumBatches
     THEN Request(inBatch) /\ inBatch' = inBatch + 1
     ELSE NoRequest /\ UNCHANGED inBatch
  /\ capBatch' = IF AnyRowValid THEN capBatch + 1 ELSE capBatch
  /\ IF Drained(capBatch') THEN AfterPass ELSE UNCHANGED <<st, pass, c>>
  /\ Array /\ Aging
  /\ UNCHANGED <<task, hold, fifo>>

(* The word with the far point's coordinates is addressed, then read. *)
Collect ==
  /\ st = "COLLECT"
  /\ LET local == IF tree = <<>> THEN 0 ELSE tree[1].idx
     IN  coAddr' = task.base + (local \div R) * R
  /\ issue' = NoIssue /\ UNCHANGED diAddr
  /\ st' = "CAPTURE"
  /\ Array /\ Aging
  /\ UNCHANGED <<task, pass, c, inBatch, capBatch, hold, fifo>>

Capture ==
  /\ st = "CAPTURE"
  /\ IF tree = <<>> THEN UNCHANGED <<st, hold>>
     ELSE /\ hold' = [bid   |-> task.bid,
                      idx   |-> task.base + tree[1].idx,
                      dist  |-> tree[1].dist,
                      place |-> Read([a \in Addresses |-> a], coAddr + (tree[1].idx % R),
                                     Origin)]
          /\ st' = "PUSH"
  /\ Array /\ NoRequest /\ Aging
  /\ UNCHANGED <<task, pass, c, inBatch, capBatch, fifo>>

Push(full) ==
  /\ st = "PUSH"
  /\ st' = IF full THEN "PUSH" ELSE "IDLE"
  /\ Array /\ NoRequest
  /\ UNCHANGED <<task, pass, c, inBatch, capBatch, hold, fifo, before, age>>

Edge(full) ==
  \/ AcceptEmpty \/ Accept \/ LoadColumn \/ LoadLastColumn \/ Stream
  \/ Collect \/ Capture \/ Push(full)

(* While the FIFO is empty, or until its word is there, only the array     *)
(* moves.                                                                  *)
Wait ==
  /\ st = "IDLE"
  /\ Array /\ NoRequest
  /\ UNCHANGED <<control, hold, fifo, before, age>>

(* A new job: the host loads +INF distances, the bucket engine pushes.     *)
NewJob ==
  /\ st = "IDLE" /\ fifo = <<>>
  /\ fifo' \in Reloads
  /\ mdt' = [a \in Addresses |-> Inf]
  /\ UNCHANGED <<control, request, array, hold, before, age>>

(* Reset, at any time, clears the control, the valid bits, the tree and    *)
(* the FIFO; the references and the distances stay.                        *)
Reset ==
  /\ st' = "IDLE" /\ task' = NoTask
  /\ pass' = 0 /\ c' = 0 /\ inBatch' = 0 /\ capBatch' = 0
  /\ coAddr' = 0 /\ diAddr' = 0 /\ issue' = NoIssue
  /\ rows' = [i \in 1..PipeLength |-> Bubble]
  /\ tree' = <<>>
  /\ hold' = [bid |-> 0, idx |-> 0, dist |-> 0, place |-> Origin]
  /\ fifo' = <<>>
  /\ UNCHANGED <<columns, mdt, before, age>>

Next == Wait \/ NewJob \/ Reset \/ \E full \in BOOLEAN : Edge(full)

(* The clock never stops, and the return FIFO has room again and again.    *)
Spec == Init /\ [][Next]_vars /\ WF_vars(Edge(FALSE))

-----------------------------------------------------------------------------
(* Properties. *)

Answering == st = "PUSH" /\ age > 1

Members == task.base .. task.base + task.points - 1

References == {task.merges[i] : i \in DOMAIN task.merges} \cup {task.sample}

(* m is the least of the distance p had and those to the references. *)
IsLeast(p, m) ==
  LET known == {before[p]} \cup {Dist(p, q) : q \in References}
  IN  m \in known /\ \A d \in known : m <= d

(* When a bucket is answered each of its distances has met every           *)
(* reference, merged ones and the sample, and no other distance of the     *)
(* memory was touched: batches overlap in the array, passes read what      *)
(* passes before them wrote, and the last batch's spare lanes lie in the   *)
(* next bucket.                                                            *)
DistancesExact ==
  Answering =>
    \A a \in Addresses : IF a \in Members THEN IsLeast(a, mdt[a]) ELSE mdt[a] = before[a]

(* The far point that is pushed is that of the final distances, with its   *)
(* own coordinates: the sequencer reads the tree after the last row of the *)
(* last pass has gone through it, and the tree remembers nothing of the    *)
(* passes before (point_engine_top.v, "only final MDT values participate   *)
(* in bucket-far-point selection").                                        *)
ReturnExact ==
  Answering =>
    /\ hold.bid = task.bid /\ hold.idx \in Members /\ hold.place = hold.idx
    /\ hold.dist = mdt[hold.idx]
    /\ \A a \in Members \ {hold.idx} : Better(hold.dist, hold.idx, mdt[a], a)

(* rtl_point_engine_latency of the cycle models. *)
ModelLatency(points, merges) ==
  IF points = 0 THEN 1
  ELSE LET batches == (points + R - 1) \div R
           passes  == (merges + 1 + L - 1) \div L
       IN  passes * (MERGE_LOAD + batches + L * PE_CELL) + OVERHEAD + IO_PIPELINE

(* The cycle models are given the array's own sizes, two cycles for        *)
(* COLLECT and the push, one for the registered memory request; and no     *)
(* bucket of a workload takes so long that age stops counting.             *)
ASSUME LatencyAssumption ==
  /\ MERGE_LOAD = L /\ PE_CELL = PE_STAGES /\ OVERHEAD = 2 /\ IO_PIPELINE = 1
  /\ MAX_AGE \in Nat
  /\ \A w \in Workloads \cup Reloads : \A i \in DOMAIN w :
       ModelLatency(w[i].points, Len(w[i].merges)) <= MAX_AGE

(* Accept to push takes the RTL exactly as many cycles as the cycle models *)
(* charge for it (CYCLE_ACCURATE_SYSTEM.md, "latency = merge_passes *      *)
(* (4 + point_batches + 20) + 2 + 1"), for short last batches and any      *)
(* number of passes too.                                                   *)
LatencyAsModelled ==
  st = "PUSH" => age = IF age = 1 THEN ModelLatency(0, 0)
                       ELSE ModelLatency(task.points, Len(task.merges))

(* Every bucket taken is answered: the counted rows all come out, and the  *)
(* tree is not empty when it is read.                                      *)
TaskAnswered == st # "IDLE" ~> st = "IDLE"
=============================================================================
