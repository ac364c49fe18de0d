------------------------------ MODULE AxiBurst ------------------------------
(***************************************************************************)
(* axi_burst_reader.v and axi_burst_writer.v: a DMA engine carries out one *)
(* command, a range of bytes, as a sequence of AXI bursts that stay inside *)
(* a page and within a number of beats.  The two engines differ only in    *)
(* the data phase, the writer's ending with a response.  The registers of  *)
(* an engine are the record dma; the output busy, which nothing reads, is  *)
(* left out.  go says whether the other side of the engine's current       *)
(* handshake (address, data on both ends, or response) is willing.         *)
(***************************************************************************)
EXTENDS Integers

CONSTANTS
  PAGE,              \* bytes of a page a burst must stay in, 4096 in AXI
  BUS_BYTES,         \* bytes of a beat
  MAX_BURST_BEATS    \* beats of the longest burst

VARIABLE dma

InitialDma ==
  [state |-> "IDLE", address |-> 0, remaining |-> 0, burstBytes |-> 0,
   burstBeats |-> 0, beatCount |-> 0, valid |-> FALSE, addr |-> 0, len |-> 0,
   done |-> FALSE, completed |-> 0, error |-> FALSE]

Lesser(a, b) == IF a < b THEN a ELSE b

MutantNextBurstBytesCrosses == Lesser(dma.remaining, MAX_BURST_BEATS * BUS_BYTES)

(* The next burst: up to the end of the command, the page or the limit. *)
NextBurstBytes ==
  Lesser(Lesser(dma.remaining, PAGE - (dma.address % PAGE)),
         MAX_BURST_BEATS * BUS_BYTES)

NextBurstBeats == (NextBurstBytes + BUS_BYTES - 1) \div BUS_BYTES

CmdReady == dma.state = "IDLE"

(* A command of no bytes is done at once. *)
Accept(cmd) ==
  /\ CmdReady
  /\ dma' = [dma EXCEPT !.address = cmd.addr, !.remaining = cmd.bytes,
                        !.completed = 0, !.error = FALSE, !.valid = FALSE,
                        !.done = (cmd.bytes = 0),
                        !.state = IF cmd.bytes = 0 THEN "IDLE" ELSE "ADDR"]

MutantRestKeepsDone == CmdReady /\ dma' = [dma EXCEPT !.valid = FALSE]

Rest == CmdReady /\ dma' = [dma EXCEPT !.done = FALSE, !.valid = FALSE]

(* The length register has eight bits. *)
RaiseAddress ==
  /\ dma.state = "ADDR" /\ ~dma.valid
  /\ dma' = [dma EXCEPT !.addr = dma.address, !.len = (NextBurstBeats + 255) % 256,
                        !.burstBytes = NextBurstBytes,
                        !.burstBeats = NextBurstBeats,
                        !.beatCount = 0, !.valid = TRUE]

PassAddress(go) ==
  /\ dma.state = "ADDR" /\ dma.valid
  /\ dma' = IF go THEN [dma EXCEPT !.valid = FALSE, !.state = "DATA"] ELSE dma

LastBurst == dma.remaining <= dma.burstBytes

(* After a burst: the next one, or the end of the command. *)
Advanced(d) ==
  [d EXCEPT !.address = @ + dma.burstBytes, !.completed = @ + dma.burstBytes,
            !.remaining = IF LastBurst THEN 0 ELSE @ - dma.burstBytes,
            !.done = LastBurst,
            !.state = IF LastBurst THEN "IDLE" ELSE "ADDR"]

Counted == [dma EXCEPT !.beatCount = @ + 1]

MutantReadBeatForgets(go, last, ok) ==
  /\ dma.state = "DATA"
  /\ dma' = IF ~go THEN dma
            ELSE LET wrong == ~ok \/ (last /\ dma.beatCount + 1 # dma.burstBeats)
                     d     == [Counted EXCEPT !.error = wrong]
                 IN  IF last THEN Advanced(d) ELSE d

(* A beat read.  The slave says which is the last; a burst of another      *)
(* length than asked for, or an error response, is noted.                  *)
ReadBeat(go, last, ok) ==
  /\ dma.state = "DATA"
  /\ dma' = IF ~go THEN dma
            ELSE LET wrong == ~ok \/ (last /\ dma.beatCount + 1 # dma.burstBeats)
                     d     == [Counted EXCEPT !.error = @ \/ wrong]
                 IN  IF last THEN Advanced(d) ELSE d

OutLast(last) == last /\ LastBurst

(* A beat written.  The engine says which is the last. *)
WriteLast == dma.beatCount + 1 = dma.burstBeats

WriteBeat(go) ==
  /\ dma.state = "DATA"
  /\ dma' = IF ~go THEN dma
            ELSE IF WriteLast THEN [Counted EXCEPT !.state = "RESP"] ELSE Counted

(* The byte lanes of the last beat that belong to the command. *)
BytesBeforeLast == IF dma.burstBeats > 1 THEN (dma.burstBeats - 1) * BUS_BYTES ELSE 0

MutantStrobesAll == 0..BUS_BYTES - 1

Strobes ==
  IF WriteLast THEN {k \in 0..BUS_BYTES - 1 : k < dma.burstBytes - BytesBeforeLast}
  ELSE 0..BUS_BYTES - 1

Response(go, ok) ==
  /\ dma.state = "RESP"
  /\ dma' = IF go THEN Advanced([dma EXCEPT !.error = @ \/ ~ok]) ELSE dma

Command(cmdValid, cmd) == IF cmdValid THEN Accept(cmd) ELSE Rest

ReaderEdge(cmdValid, cmd, go, last, ok) ==
  \/ Command(cmdValid, cmd)
  \/ RaiseAddress
  \/ PassAddress(go)
  \/ ReadBeat(go, last, ok)

WriterEdge(cmdValid, cmd, go, ok) ==
  \/ Command(cmdValid, cmd)
  \/ RaiseAddress
  \/ PassAddress(go)
  \/ WriteBeat(go)
  \/ Response(go, ok)
=============================================================================
