----------------------------- MODULE EventMemory -----------------------------
(***************************************************************************)
(* The memory of the event simulator, EventMemoryModel: it is told when a  *)
(* request arrives and works out at once when it will have been served.    *)
(* What it keeps of the past is when each DMA lane, bank and data bus will *)
(* be free, so it is right only if requests are made in the order of their *)
(* arrival.                                                                *)
(*                                                                         *)
(* A range is the bytes from address on, of the given size, of which       *)
(* isWrite tells the direction.                                            *)
(***************************************************************************)
EXTENDS Integers, Sequences, SequencesExt

CONSTANTS
  DMA_CHANNELS, DMA_COMMAND, TRANSACTION,
  CHANNELS, BANKS, ROW_BYTES, BURST_BYTES,
  T_RCD, T_CL, T_RP, T_BURST, WRITE_RECOVERY,
  READ_TO_WRITE, WRITE_TO_READ,       \* turnarounds of the data bus
  ReadScale, WriteScale               \* calibrated latency scales, <<numerator, denominator>>

(* What validate_config accepts. *)
ASSUME EventMemoryAssumption ==
  /\ {DMA_CHANNELS, TRANSACTION, CHANNELS, BANKS, ROW_BYTES, BURST_BYTES, T_RCD, T_CL, T_RP,
      T_BURST} \subseteq Nat \ {0}
  /\ {DMA_COMMAND, WRITE_RECOVERY, READ_TO_WRITE, WRITE_TO_READ} \subseteq Nat
  /\ {ReadScale, WriteScale} \subseteq (Nat \ {0}) \X (Nat \ {0})

Closed == -1
NoDirection == "none"
Direction(isWrite) == IF isWrite THEN "write" ELSE "read"

Later(a, b) == IF a < b THEN b ELSE a

IdleMemory ==
  [lane |-> [l \in 0..DMA_CHANNELS - 1 |-> 0],
   bank |-> [b \in 0..CHANNELS * BANKS - 1 |-> [free |-> 0, row |-> Closed]],
   bus  |-> [c \in 0..CHANNELS - 1 |-> [free |-> 0, last |-> NoDirection]]]

(* The latency, scaled and rounded up to a cycle. *)
ScaledLatency(latency, isWrite) ==
  LET scale == IF isWrite THEN WriteScale ELSE ReadScale
  IN  (latency * scale[1] + scale[2] - 1) \div scale[2]

CommandLatency(bank, row) ==
  IF bank.row = row THEN T_CL
  ELSE T_RCD + T_CL + (IF bank.row = Closed THEN 0 ELSE T_RP)

(* When the bus takes data that is ready at the given time. *)
BusStart(bus, ready, isWrite) ==
  Later(ready, bus.free + (IF bus.last \in {NoDirection, Direction(isWrite)} THEN 0
                           ELSE IF isWrite THEN READ_TO_WRITE ELSE WRITE_TO_READ))

(* One transaction: the memory after it and the time it is served. *)
ScheduleTransaction(m, injection, address, isWrite) ==
  LET burst   == address \div BURST_BYTES
      channel == (burst \div BANKS) % CHANNELS
      b       == channel * BANKS + (burst % BANKS)
      row     == address \div ROW_BYTES
      ready   == Later(injection, m.bank[b].free)
                   + ScaledLatency(CommandLatency(m.bank[b], row), isWrite)
      start   == BusStart(m.bus[channel], ready, isWrite)
      served  == start + T_BURST + (IF isWrite THEN WRITE_RECOVERY ELSE 0)
  IN  [memory |-> [m EXCEPT !.bank[b] = [free |-> served, row |-> row],
                            !.bus[channel] = [free |-> start + T_BURST,
                                              last |-> Direction(isWrite)]],
       served |-> served]

(* The lines a range touches. *)
LinesOf(r) ==
  LET first == r.address \div TRANSACTION
      last  == (r.address + r.size - 1) \div TRANSACTION
  IN  [i \in 1..last - first + 1 |->
         [address |-> (first + i - 1) * TRANSACTION, isWrite |-> r.isWrite]]

(* The ranges' transactions take turns, the shorter ones dropping out. *)
Interleaved(ranges) ==
  LET lines  == [s \in DOMAIN ranges |-> LinesOf(ranges[s])]
      rounds == FoldLeft(LAMBDA n, q : Later(n, Len(q)), 0, lines)
      turn(i) == FoldLeft(LAMBDA acc, q : IF i <= Len(q) THEN Append(acc, q[i]) ELSE acc,
                          <<>>, lines)
  IN  FoldLeft(LAMBDA acc, i : acc \o turn(i), <<>>, [i \in 1..rounds |-> i])

(* Transactions are dealt to the DMA lanes in turn, at most one a cycle.   *)
(* The result is the memory after them and the time all are served.        *)
Schedule(m, arrival, ranges) ==
  FoldLeft(LAMBDA a, t :
             LET lane      == a.sequence % DMA_CHANNELS
                 nominal   == arrival + DMA_COMMAND + (a.sequence \div DMA_CHANNELS)
                 injection == Later(nominal, a.memory.lane[lane])
                 next      == ScheduleTransaction([a.memory EXCEPT !.lane[lane] = injection + 1],
                                                  injection, t.address, t.isWrite)
             IN  [memory |-> next.memory, served |-> Later(a.served, next.served),
                  sequence |-> a.sequence + 1],
           [memory |-> m, served |-> arrival, sequence |-> 0],
           Interleaved(ranges))
=============================================================================
