--------------------------- MODULE MemoryBackends ---------------------------
(***************************************************************************)
(* The two memories behind the cycle models: BankedDramModel, which        *)
(* answers after the latency of its banks and rows, and DRAMsim3 behind a  *)
(* bridge, which keeps the tags of the transactions of each address and    *)
(* direction in a queue and gives the callbacks of the simulator their     *)
(* tags back in that order.                                                *)
(*                                                                         *)
(* A memory is a value the point engine hands requests to, several in a    *)
(* cycle.  A request is its tag: the stream, the chunk and the line it was *)
(* made for.  The times of a bank and of a pending request are what        *)
(* remains of them.  DRAMsim3 itself is external: it has room for so many  *)
(* reads and so many writes, and each cycle calls back for any of them.    *)
(***************************************************************************)
EXTENDS Integers, Sequences, FiniteSets

CONSTANTS
  TRANSACTION,     \* dram_transaction_bytes, burst_bytes
  CHANNELS, BANKS, ROW_BYTES, QUEUE_DEPTH,
  T_RCD, T_CL, T_RP, T_BURST, WRITE_RECOVERY,
  READ_ROOM,       \* reads DRAMsim3 holds
  WRITE_ROOM,      \* writes DRAMsim3 holds
  PERIOD,          \* length of an accelerator cycle
  TCK              \* length of a DRAM cycle, in the same unit

(* What DramConfig.validate accepts. *)
ASSUME DramAssumption ==
  {TRANSACTION, CHANNELS, BANKS, ROW_BYTES, QUEUE_DEPTH, T_RCD, T_CL, T_RP, T_BURST,
   WRITE_RECOVERY, READ_ROOM, WRITE_ROOM, PERIOD, TCK} \subseteq Nat \ {0}

IsWrite(r) == r.stream = "dist_write"

Countdown(n) == IF n > 0 THEN n - 1 ELSE 0

-----------------------------------------------------------------------------
(* BankedDramModel. *)

Closed == -1

BankOf(line) ==
  (((line \div BANKS) % CHANNELS) * BANKS) + (line % BANKS)

RowOf(line) == (line * TRANSACTION) \div ROW_BYTES

EmptyBanked ==
  [pending |-> {}, banks |-> [b \in 0..CHANNELS * BANKS - 1 |-> [available |-> 0, row |-> Closed]]]

BankedAccepts(m) == Cardinality(m.pending) < QUEUE_DEPTH

(* A request is of one burst: chunks are cut into lines of that size. *)
Latency(bank, r) ==
  (IF bank.row = RowOf(r.line) THEN T_CL
   ELSE T_RCD + T_CL + (IF bank.row = Closed THEN 0 ELSE T_RP))
  + T_BURST + (IF IsWrite(r) THEN WRITE_RECOVERY ELSE 0)

(* The bank takes its requests one after the other. *)
BankedSubmit(m, r) ==
  LET b     == BankOf(r.line)
      ready == m.banks[b].available + Latency(m.banks[b], r)
  IN  [pending |-> m.pending \cup {[tag |-> r, wait |-> ready]},
       banks   |-> [m.banks EXCEPT ![b] = [available |-> ready, row |-> RowOf(r.line)]]]

MutantBankedCompletesLate(m) == {e.tag : e \in {x \in m.pending : x.wait < 1}}

BankedCompletes(m) == {e.tag : e \in {x \in m.pending : x.wait <= 1}}

BankedTick(m) ==
  [pending |-> {[e EXCEPT !.wait = @ - 1] : e \in {x \in m.pending : x.wait > 1}},
   banks   |-> [b \in DOMAIN m.banks |-> [m.banks[b] EXCEPT !.available = Countdown(@)]]]

-----------------------------------------------------------------------------
(* DRAMsim3 and its bridge.  tags has an entry for each address and        *)
(* direction under way; requests are those the Python side waits for.      *)

EmptyBridge == [tags |-> <<>>, requests |-> {}]

Key(r) == <<r.line, IsWrite(r)>>

(* The transactions of one direction inside the simulator. *)
Held(m, isWrite) ==
  Cardinality(UNION {{<<k, i>> : i \in DOMAIN m.tags[k]} :
                       k \in {x \in DOMAIN m.tags : x[2] = isWrite}})

WillAccept(m, r) == Held(m, IsWrite(r)) < (IF IsWrite(r) THEN WRITE_ROOM ELSE READ_ROOM)

BridgeAdd(m, r) ==
  [tags |-> [k \in DOMAIN m.tags \cup {Key(r)} |->
               IF k # Key(r) THEN m.tags[k]
               ELSE IF k \in DOMAIN m.tags THEN Append(m.tags[k], r) ELSE <<r>>],
   requests |-> m.requests \cup {r}]

(* How often the simulator may call back for each address and direction. *)
Callbacks(m) ==
  {n \in [DOMAIN m.tags -> 0..Cardinality(m.requests)] :
     \A k \in DOMAIN m.tags : n[k] <= Len(m.tags[k])}

BridgeCompletes(m, n) ==
  UNION {{m.tags[k][i] : i \in 1..n[k]} : k \in DOMAIN m.tags}

MutantKeysLeft(m, n) == {k \in DOMAIN m.tags : n[k] = 0}

(* An entry goes with its last tag. *)
KeysLeft(m, n) == {k \in DOMAIN m.tags : n[k] < Len(m.tags[k])}

BridgeTick(m, n) ==
  [tags     |-> [k \in KeysLeft(m, n) |-> SubSeq(m.tags[k], n[k] + 1, Len(m.tags[k]))],
   requests |-> m.requests \ BridgeCompletes(m, n)]

(* DRAM cycles that begin in an accelerator cycle, given the time left     *)
(* over from the cycle before.                                             *)
DramTicks(credit)  == (credit + PERIOD) \div TCK
CreditLeft(credit) == (credit + PERIOD) % TCK
=============================================================================
