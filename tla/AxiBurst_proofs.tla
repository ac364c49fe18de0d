--------------------------- MODULE AxiBurst_proofs ---------------------------
(***************************************************************************)
(* What a DMA engine does to a command on every edge, for every page,      *)
(* beat and burst size: its bursts stay inside a page and the command, and *)
(* its error flag says whether its slave made a mistake.  The lemmas are   *)
(* for the modules the engine is part of, which say when it is given a     *)
(* command and which.                                                      *)
(***************************************************************************)
EXTENDS AxiBurst, TLAPS

(* The elaboration checks of the engines. *)
BurstSizes ==
  /\ BUS_BYTES \in Nat \ {0}
  /\ PAGE \in Nat /\ PAGE >= BUS_BYTES /\ PAGE % BUS_BYTES = 0
  /\ MAX_BURST_BEATS \in 1..256

Aligned(a) == a % BUS_BYTES = 0

Engine ==
  [state : {"IDLE", "ADDR", "DATA", "RESP"}, address : Nat, remaining : Nat,
   burstBytes : Nat, burstBeats : Nat, beatCount : Nat, valid : BOOLEAN, addr : Nat,
   len : 0..255, done : BOOLEAN, completed : Nat, error : BOOLEAN]

(* A burst has been cut off the command and is not finished. *)
Raised == dma.valid \/ dma.state \in {"DATA", "RESP"}

(* It stays inside its page and within the limit. *)
Fits(addr, beats) ==
  /\ addr \div PAGE = (addr + beats * BUS_BYTES - 1) \div PAGE
  /\ beats <= MAX_BURST_BEATS

(* A burst begins on a beat, and ends on one unless it is the last. *)
EngineInv ==
  /\ dma \in Engine
  /\ dma.valid => dma.state = "ADDR"
  /\ dma.done => dma.state = "IDLE"
  /\ dma.state # "IDLE" => dma.remaining >= 1 /\ Aligned(dma.address)
  /\ Raised => /\ dma.burstBytes >= 1 /\ dma.burstBytes <= dma.remaining
               /\ dma.burstBeats = dma.len + 1 /\ Fits(dma.addr, dma.len + 1)
               /\ dma.burstBytes < dma.remaining => Aligned(dma.burstBytes)
  /\ dma.valid => dma.beatCount = 0

(* The slave let the burst go on past its end. *)
Overrun == dma.state = "DATA" /\ dma.beatCount > dma.len

(* The error flag of a command against whether (wrong) its slave has made  *)
(* a mistake: a burst that goes on too long is noticed when it ends.       *)
FaultInv(wrong) ==
  /\ dma.state # "IDLE" \/ dma.done => /\ dma.error => wrong
                                       /\ wrong => dma.error \/ Overrun
  /\ Overrun => wrong

(* What was moved of a command, in bytes, rounded up to beats. *)
Moved == dma.completed + (CASE dma.state = "DATA" -> dma.beatCount * BUS_BYTES
                            [] dma.state = "RESP" -> dma.burstBeats * BUS_BYTES
                            [] OTHER -> 0)

(* The engine is where it should be in the command cmd, and a burst that   *)
(* is not the last of it is of whole beats.                                *)
Progress(cmd) ==
  dma.state # "IDLE" =>
    /\ dma.address = cmd.addr + dma.completed
    /\ dma.completed + dma.remaining = cmd.bytes
    /\ Raised => /\ dma.addr = dma.address
                 /\ (dma.burstBeats - 1) * BUS_BYTES < dma.burstBytes
                 /\ dma.burstBytes <= dma.burstBeats * BUS_BYTES
                 /\ dma.burstBytes < dma.remaining =>
                      dma.burstBytes = dma.burstBeats * BUS_BYTES

-----------------------------------------------------------------------------
(* Arithmetic of beats and pages.                                          *)

(* Division with remainder. *)
LEMMA DivMod ==
  ASSUME NEW a \in Nat, NEW d \in Nat, d >= 1
  PROVE  /\ a \div d \in Nat /\ a % d \in Nat /\ a % d < d
         /\ a = d * (a \div d) + (a % d)
OBVIOUS

LEMMA DivUnique ==
  ASSUME NEW k \in Nat, NEW d \in Nat, NEW r \in Nat, r < d
  PROVE  (d * k + r) \div d = k /\ (d * k + r) % d = r
<1> DEFINE a == d * k + r
           q == a \div d
<1>1. q \in Nat /\ d * q <= a /\ a < d * q + d
  BY DivMod
<1> HIDE DEF q
<1>2. ASSUME q < k PROVE FALSE
  <2>1. d * (q + 1) <= d * k /\ d * (q + 1) = d * q + d
    BY <1>1, <1>2
  <2> QED BY <1>1, <2>1
<1>3. ASSUME k < q PROVE FALSE
  <2>1. d * (k + 1) <= d * q /\ d * (k + 1) = d * k + d
    BY <1>1, <1>3
  <2> QED BY <1>1, <2>1
<1>4. a \div d = k
  BY <1>1, <1>2, <1>3 DEF q
<1>5. a % d = r
  BY <1>4, DivMod
<1> QED BY <1>4, <1>5

(* An aligned number is a number of beats. *)
LEMMA AlignedIs ==
  ASSUME BurstSizes, NEW a \in Nat
  PROVE  Aligned(a) <=> \E k \in Nat : a = BUS_BYTES * k
<1>1. BUS_BYTES \in Nat /\ BUS_BYTES >= 1
  BY DEF BurstSizes
<1>2. a = BUS_BYTES * (a \div BUS_BYTES) + (a % BUS_BYTES) /\ a \div BUS_BYTES \in Nat
      /\ a % BUS_BYTES \in Nat
  BY <1>1, DivMod
<1>3. ASSUME NEW k \in Nat PROVE (BUS_BYTES * k) % BUS_BYTES = 0
  <2>1. (BUS_BYTES * k + 0) % BUS_BYTES = 0
    BY <1>1, DivUnique
  <2> QED BY <1>1, <2>1
<1>4. ASSUME Aligned(a) PROVE \E k \in Nat : a = BUS_BYTES * k
  <2>1. a = BUS_BYTES * (a \div BUS_BYTES)
    BY <1>1, <1>2, <1>4 DEF Aligned
  <2> QED BY <1>2, <2>1
<1> QED BY <1>3, <1>4 DEF Aligned

LEMMA AlignedSum ==
  ASSUME BurstSizes, NEW a \in Nat, NEW b \in Nat, Aligned(a), Aligned(b)
  PROVE  Aligned(a + b)
<1>1. PICK k \in Nat : a = BUS_BYTES * k
  BY AlignedIs
<1>2. PICK l \in Nat : b = BUS_BYTES * l
  BY AlignedIs
<1>3. BUS_BYTES \in Nat /\ a + b = BUS_BYTES * (k + l)
  BY <1>1, <1>2 DEF BurstSizes
<1> QED BY <1>3, AlignedIs

LEMMA AlignedProduct ==
  ASSUME BurstSizes, NEW n \in Nat, NEW a \in Nat, Aligned(a)
  PROVE  n * a \in Nat /\ Aligned(n * a)
<1>1. PICK k \in Nat : a = BUS_BYTES * k
  BY AlignedIs
<1> DEFINE l == n * k
<1>2. BUS_BYTES \in Nat /\ l \in Nat /\ n * a \in Nat /\ n * a = BUS_BYTES * l
  BY <1>1 DEF BurstSizes
<1> HIDE DEF l
<1> QED BY <1>2, AlignedIs

(* What is left of its page begins on a beat when its address does. *)
LEMMA PageRest ==
  ASSUME BurstSizes, NEW a \in Nat, Aligned(a)
  PROVE  /\ PAGE - (a % PAGE) \in Nat /\ PAGE - (a % PAGE) >= 1
         /\ Aligned(PAGE - (a % PAGE))
<1>1. PAGE \in Nat /\ PAGE >= 1 /\ BUS_BYTES \in Nat
  BY DEF BurstSizes
<1>2. a = PAGE * (a \div PAGE) + (a % PAGE) /\ a \div PAGE \in Nat
      /\ a % PAGE \in Nat /\ a % PAGE < PAGE
  BY <1>1, DivMod
<1>3. PICK k \in Nat : a = BUS_BYTES * k
  BY AlignedIs
<1>4. PICK l \in Nat : PAGE = BUS_BYTES * l
  BY <1>1, AlignedIs DEF BurstSizes, Aligned
<1> DEFINE q == a \div PAGE
           r == PAGE - (a % PAGE)
<1>5. r \in Nat /\ r >= 1 /\ r = (q + 1) * PAGE - a
  BY <1>1, <1>2
<1> HIDE DEF q, r
<1>6. q \in Nat /\ r = BUS_BYTES * ((q + 1) * l - k)
  BY <1>1, <1>2, <1>3, <1>4, <1>5 DEF q
<1>7. (q + 1) * l - k \in Nat
  BY <1>1, <1>5, <1>6
<1>8. Aligned(r)
  BY <1>5, <1>6, <1>7, AlignedIs
<1> QED BY <1>5, <1>8 DEF r

(* A burst of whole beats that is no longer than what is left of the page. *)
LEMMA InPage ==
  ASSUME BurstSizes, NEW a \in Nat, NEW m \in Nat, m >= 1, m <= PAGE - (a % PAGE)
  PROVE  a \div PAGE = (a + m - 1) \div PAGE
<1>1. PAGE \in Nat /\ PAGE >= 1
  BY DEF BurstSizes
<1>2. a = PAGE * (a \div PAGE) + (a % PAGE) /\ a \div PAGE \in Nat
      /\ a % PAGE \in Nat /\ a % PAGE < PAGE
  BY <1>1, DivMod
<1> DEFINE q == a \div PAGE
<1> DEFINE r == (a % PAGE) + m - 1
<1>3. q \in Nat /\ r \in Nat /\ r < PAGE /\ a + m - 1 = PAGE * q + r
  BY <1>1, <1>2
<1> HIDE DEF q, r
<1>4. (PAGE * q + r) \div PAGE = q
  BY <1>1, <1>3, DivUnique
<1> QED BY <1>3, <1>4 DEF q

(* The beats of n bytes. *)
LEMMA BeatsOf ==
  ASSUME BurstSizes, NEW n \in Nat, n >= 1
  PROVE  LET beats == (n + BUS_BYTES - 1) \div BUS_BYTES
         IN  /\ beats \in Nat /\ beats >= 1
             /\ \A k \in Nat : n <= BUS_BYTES * k => beats <= k
             /\ (beats - 1) * BUS_BYTES < n /\ n <= beats * BUS_BYTES
             /\ Aligned(n) => n = beats * BUS_BYTES
<1> DEFINE beats == (n + BUS_BYTES - 1) \div BUS_BYTES
<1>1. BUS_BYTES \in Nat /\ BUS_BYTES >= 1
  BY DEF BurstSizes
<1>2. beats \in Int /\ beats * BUS_BYTES <= n + BUS_BYTES - 1
      /\ n + BUS_BYTES - 1 < (beats + 1) * BUS_BYTES
  BY <1>1
<1> HIDE DEF beats
<1>3. beats >= 1
  BY <1>1, <1>2
<1>4. ASSUME NEW k \in Nat, n <= BUS_BYTES * k, beats >= k + 1
      PROVE  FALSE
  <2>1. (k + 1) * BUS_BYTES <= beats * BUS_BYTES
    BY <1>1, <1>2, <1>4
  <2> QED BY <1>1, <1>2, <1>4, <2>1
<1>5. \A k \in Nat : n <= BUS_BYTES * k => beats <= k
  BY <1>2, <1>4
<1>6. (beats - 1) * BUS_BYTES < n /\ n <= beats * BUS_BYTES
  BY <1>1, <1>2, <1>3
<1>7. ASSUME Aligned(n) PROVE n = beats * BUS_BYTES
  <2>1. PICK k \in Nat : n = BUS_BYTES * k
    BY <1>7, AlignedIs
  <2>2. beats <= k
    BY <1>5, <2>1
  <2>3. BUS_BYTES * beats <= BUS_BYTES * k
    BY <1>1, <1>2, <1>3, <2>2
  <2> QED BY <1>1, <1>2, <1>3, <1>6, <2>1, <2>3
<1> QED BY <1>2, <1>3, <1>5, <1>6, <1>7 DEF beats

(* The next burst of a command. *)
LEMMA NextBurst ==
  ASSUME BurstSizes, dma.address \in Nat, Aligned(dma.address),
         dma.remaining \in Nat, dma.remaining >= 1
  PROVE  /\ NextBurstBytes \in Nat /\ NextBurstBytes >= 1
         /\ NextBurstBytes <= dma.remaining
         /\ NextBurstBytes < dma.remaining => Aligned(NextBurstBytes)
         /\ NextBurstBeats \in 1..256 /\ Fits(dma.address, NextBurstBeats)
         /\ (NextBurstBeats - 1) * BUS_BYTES < NextBurstBytes
         /\ NextBurstBytes <= NextBurstBeats * BUS_BYTES
         /\ Aligned(NextBurstBytes) => NextBurstBytes = NextBurstBeats * BUS_BYTES
<1> DEFINE n == NextBurstBytes
           rest == PAGE - (dma.address % PAGE)
           most == MAX_BURST_BEATS * BUS_BYTES
<1>1. rest \in Nat /\ rest >= 1 /\ Aligned(rest)
  BY PageRest
<1>2. most \in Nat /\ most >= 1 /\ Aligned(most)
  <2>1. MAX_BURST_BEATS \in Nat /\ MAX_BURST_BEATS >= 1 /\ BUS_BYTES \in Nat /\ BUS_BYTES >= 1
    BY DEF BurstSizes
  <2>2. most \in Nat /\ most >= 1
    BY <2>1
  <2> QED BY <2>1, <2>2, AlignedIs
<1> HIDE DEF rest, most
<1>3. n = Lesser(Lesser(dma.remaining, rest), most)
  BY DEF NextBurstBytes, rest, most
<1> HIDE DEF n
<1>4. /\ n \in Nat /\ n >= 1 /\ n <= dma.remaining /\ n <= rest /\ n <= most
      /\ n < dma.remaining => n = rest \/ n = most
  BY <1>1, <1>2, <1>3 DEF Lesser
<1>5. NextBurstBeats = (n + BUS_BYTES - 1) \div BUS_BYTES
  BY DEF NextBurstBeats, n
<1> DEFINE beats == NextBurstBeats
<1>6. /\ beats \in Nat /\ beats >= 1
      /\ \A k \in Nat : n <= BUS_BYTES * k => beats <= k
      /\ (beats - 1) * BUS_BYTES < n /\ n <= beats * BUS_BYTES
      /\ Aligned(n) => n = beats * BUS_BYTES
  BY <1>4, <1>5, BeatsOf
<1> HIDE DEF beats
<1>7. beats <= MAX_BURST_BEATS /\ MAX_BURST_BEATS \in 1..256
  BY <1>4, <1>6 DEF BurstSizes, most
<1>8. beats * BUS_BYTES \in Nat /\ beats * BUS_BYTES >= 1 /\ beats * BUS_BYTES <= rest
  <2>1. PICK k \in Nat : rest = BUS_BYTES * k
    BY <1>1, AlignedIs
  <2>2. beats <= k
    BY <1>4, <1>6, <2>1
  <2> QED BY <1>6, <2>1, <2>2 DEF BurstSizes
<1>9. dma.address \div PAGE = (dma.address + beats * BUS_BYTES - 1) \div PAGE
  BY <1>8, InPage DEF rest
<1> QED BY <1>1, <1>2, <1>4, <1>6, <1>7, <1>9 DEF Fits, n, beats


-----------------------------------------------------------------------------
(* What an edge does to an engine, by the phase it is in.                  *)

(* The registers an edge may write. *)
LEMMA EngineWrites ==
  ASSUME NEW d \in Engine
  PROVE  /\ \A s \in {"IDLE", "ADDR", "DATA", "RESP"} :
              [d EXCEPT !.valid = FALSE, !.state = s] \in Engine
         /\ [d EXCEPT !.done = FALSE, !.valid = FALSE] \in Engine
         /\ \A a, b, n \in Nat, l \in 0..255 :
              [d EXCEPT !.addr = a, !.len = l, !.burstBytes = n, !.burstBeats = b,
                        !.beatCount = 0, !.valid = TRUE] \in Engine
         /\ \A a, n \in Nat, f \in BOOLEAN, s \in {"IDLE", "ADDR"} :
              [d EXCEPT !.address = a, !.remaining = n, !.completed = 0,
                        !.error = FALSE, !.valid = FALSE, !.done = f, !.state = s]
                \in Engine
<1>1. ASSUME NEW s \in {"IDLE", "ADDR", "DATA", "RESP"}
      PROVE  [d EXCEPT !.valid = FALSE, !.state = s] \in Engine
  BY DEF Engine
<1>2. [d EXCEPT !.done = FALSE, !.valid = FALSE] \in Engine
  BY DEF Engine
<1>3. ASSUME NEW a \in Nat, NEW b \in Nat, NEW n \in Nat, NEW l \in 0..255
      PROVE  [d EXCEPT !.addr = a, !.len = l, !.burstBytes = n, !.burstBeats = b,
                       !.beatCount = 0, !.valid = TRUE] \in Engine
  BY DEF Engine
<1>4. ASSUME NEW a \in Nat, NEW n \in Nat, NEW f \in BOOLEAN, NEW s \in {"IDLE", "ADDR"}
      PROVE  [d EXCEPT !.address = a, !.remaining = n, !.completed = 0,
                       !.error = FALSE, !.valid = FALSE, !.done = f, !.state = s]
               \in Engine
  BY DEF Engine
<1> QED BY <1>1, <1>2, <1>3, <1>4

(* A command that the controller may give. *)
GoodCommand(cmd) == cmd \in [addr : Nat, bytes : Nat] /\ Aligned(cmd.addr)

LEMMA CommandKeeps ==
  ASSUME BurstSizes, EngineInv, NEW v, NEW cmd, Command(v, cmd), v => GoodCommand(cmd)
  PROVE  /\ EngineInv' /\ CmdReady /\ dma'.state \in {"IDLE", "ADDR"}
         /\ v => ~dma'.error
         /\ ~v => CmdReady' /\ ~dma'.done
<1>1. CASE v
  <2>1. Accept(cmd) /\ GoodCommand(cmd)
    BY <1>1 DEF Command
  <2>2. /\ dma.state = "IDLE"
        /\ dma' = [dma EXCEPT !.address = cmd.addr, !.remaining = cmd.bytes,
                        !.completed = 0, !.error = FALSE, !.valid = FALSE,
                        !.done = (cmd.bytes = 0),
                        !.state = IF cmd.bytes = 0 THEN "IDLE" ELSE "ADDR"]
    BY <2>1 DEF Accept, CmdReady
  <2>3. dma \in Engine /\ cmd.addr \in Nat /\ cmd.bytes \in Nat /\ Aligned(cmd.addr)
    BY <2>1 DEF EngineInv, GoodCommand
  <2>4. dma' \in Engine
    <3> DEFINE e == [dma EXCEPT !.address = cmd.addr, !.remaining = cmd.bytes,
                       !.completed = 0, !.error = FALSE, !.valid = FALSE,
                       !.done = (cmd.bytes = 0),
                       !.state = IF cmd.bytes = 0 THEN "IDLE" ELSE "ADDR"]
    <3>1. e \in Engine
      BY <2>3, EngineWrites
    <3> QED BY <2>2, <3>1
  <2>5. /\ ~dma'.valid /\ ~dma'.error /\ dma'.state \in {"IDLE", "ADDR"}
        /\ dma'.done => dma'.state = "IDLE"
        /\ dma'.state # "IDLE" => dma'.remaining >= 1 /\ dma'.address = cmd.addr
    <3>1. PICK d \in Engine : d = dma
      BY <2>3
    <3>2. PICK e : e = dma'
      OBVIOUS
    <3>3. /\ ~e.valid /\ ~e.error /\ e.state = (IF cmd.bytes = 0 THEN "IDLE" ELSE "ADDR")
          /\ (e.done <=> cmd.bytes = 0) /\ e.remaining = cmd.bytes /\ e.address = cmd.addr
      BY <2>2, <3>1, <3>2 DEF Engine
    <3> QED BY <2>3, <3>2, <3>3
  <2> QED
    BY <1>1, <2>2, <2>3, <2>4, <2>5 DEF EngineInv, Raised, CmdReady, Aligned
<1>2. CASE ~v
  <2>1. /\ dma.state = "IDLE" /\ dma \in Engine
        /\ dma' = [dma EXCEPT !.done = FALSE, !.valid = FALSE]
    BY <1>2 DEF Command, Rest, CmdReady, EngineInv
  <2>2. [dma EXCEPT !.done = FALSE, !.valid = FALSE] \in Engine
    BY <2>1, EngineWrites
  <2>3. dma' \in Engine
    BY <2>1, <2>2
  <2>4. ~dma'.valid /\ ~dma'.done /\ dma'.state = "IDLE"
    BY <2>1 DEF Engine
  <2> QED
    BY <1>2, <2>1, <2>3, <2>4 DEF EngineInv, Raised, CmdReady
<1> QED BY <1>1, <1>2

LEMMA RaiseKeeps ==
  ASSUME BurstSizes, EngineInv, RaiseAddress
  PROVE  /\ EngineInv' /\ dma.state = "ADDR" /\ dma'.state = "ADDR"
         /\ dma'.error = dma.error
<1> DEFINE n == NextBurstBytes
           beats == NextBurstBeats
<1>1. /\ dma \in Engine /\ dma.state = "ADDR" /\ ~dma.valid /\ ~dma.done
      /\ dma.remaining >= 1 /\ Aligned(dma.address)
  BY DEF RaiseAddress, EngineInv
<1>2. dma.address \in Nat /\ dma.remaining \in Nat
  BY <1>1 DEF Engine
<1>3. /\ n \in Nat /\ n >= 1 /\ n <= dma.remaining
      /\ n < dma.remaining => Aligned(n)
      /\ beats \in 1..256 /\ Fits(dma.address, beats)
  BY <1>1, <1>2, NextBurst
<1>4. dma' = [dma EXCEPT !.addr = dma.address, !.len = (beats + 255) % 256,
                         !.burstBytes = n, !.burstBeats = beats,
                         !.beatCount = 0, !.valid = TRUE]
  BY DEF RaiseAddress
<1> HIDE DEF n, beats
<1>5. (beats + 255) % 256 = beats - 1 /\ (beats + 255) % 256 \in 0..255
  BY <1>3
<1>6. dma' \in Engine
  <2>1. PICK l \in 0..255 : l = (beats + 255) % 256
    BY <1>5
  <2>2. PICK a \in Nat : a = dma.address
    BY <1>2
  <2>3. beats \in Nat
    BY <1>3
  <2>4. [dma EXCEPT !.addr = a, !.len = l, !.burstBytes = n, !.burstBeats = beats,
                    !.beatCount = 0, !.valid = TRUE] \in Engine
    BY <1>1, <1>3, <2>3, EngineWrites
  <2> QED BY <1>4, <2>1, <2>2, <2>4
<1>7. /\ dma'.state = "ADDR" /\ dma'.valid /\ ~dma'.done /\ dma'.remaining = dma.remaining
      /\ dma'.address = dma.address /\ dma'.burstBytes = n /\ dma'.burstBeats = beats
      /\ dma'.len + 1 = beats /\ dma'.addr = dma.address /\ dma'.beatCount = 0
      /\ dma'.error = dma.error
  BY <1>1, <1>3, <1>4, <1>5 DEF Engine
<1> QED BY <1>1, <1>3, <1>6, <1>7 DEF EngineInv, Raised

LEMMA PassKeeps ==
  ASSUME BurstSizes, EngineInv, NEW go, PassAddress(go)
  PROVE  /\ EngineInv' /\ dma.state = "ADDR" /\ dma'.error = dma.error
         /\ dma'.state \in {"ADDR", "DATA"}
         /\ dma'.state = "DATA" => dma'.beatCount = 0
<1>1. /\ dma \in Engine /\ dma.state = "ADDR" /\ dma.valid /\ ~dma.done
      /\ dma.beatCount = 0
  BY DEF PassAddress, EngineInv
<1>2. CASE ~go
  BY <1>1, <1>2 DEF PassAddress, EngineInv, Raised
<1>3. CASE go
  <2>1. dma' = [dma EXCEPT !.valid = FALSE, !.state = "DATA"]
    BY <1>3 DEF PassAddress
  <2>2. dma' \in Engine
    <3>1. [dma EXCEPT !.valid = FALSE, !.state = "DATA"] \in Engine
      BY <1>1, EngineWrites
    <3> QED BY <2>1, <3>1
  <2>3. /\ dma'.state = "DATA" /\ ~dma'.valid /\ ~dma'.done /\ dma'.remaining = dma.remaining
        /\ dma'.address = dma.address /\ dma'.burstBytes = dma.burstBytes
        /\ dma'.burstBeats = dma.burstBeats
        /\ dma'.len = dma.len /\ dma'.addr = dma.addr /\ dma'.beatCount = dma.beatCount
        /\ dma'.error = dma.error
    BY <1>1, <2>1 DEF Engine
  <2> QED BY <1>1, <2>2, <2>3 DEF EngineInv, Raised
<1> QED BY <1>2, <1>3

(* A burst ends, after d has been noted. *)
LEMMA AdvanceKeeps ==
  ASSUME BurstSizes, EngineInv, dma.state \in {"DATA", "RESP"},
         NEW d \in Engine, d.address = dma.address, d.remaining = dma.remaining,
         ~d.valid, dma' = Advanced(d)
  PROVE  EngineInv' /\ dma'.state \in {"IDLE", "ADDR"} /\ dma'.error = d.error
<1>1. /\ dma \in Engine /\ dma.remaining >= 1 /\ Aligned(dma.address)
      /\ dma.burstBytes >= 1 /\ dma.burstBytes <= dma.remaining
      /\ dma.burstBytes < dma.remaining => Aligned(dma.burstBytes)
  BY DEF EngineInv, Raised
<1>2. dma.address \in Nat /\ dma.remaining \in Nat /\ dma.burstBytes \in Nat
  BY <1>1 DEF Engine
<1>3. /\ dma'.address = dma.address + dma.burstBytes
      /\ dma'.remaining = (IF LastBurst THEN 0 ELSE dma.remaining - dma.burstBytes)
      /\ dma'.done = LastBurst
      /\ dma'.state = (IF LastBurst THEN "IDLE" ELSE "ADDR")
      /\ ~dma'.valid /\ dma'.error = d.error
  BY DEF Advanced, Engine
<1>4. LastBurst <=> dma.burstBytes = dma.remaining
  BY <1>1, <1>2 DEF LastBurst
<1>5. dma' \in Engine
  <2>1. d.completed + dma.burstBytes \in Nat /\ dma.address + dma.burstBytes \in Nat
    BY <1>2 DEF Engine
  <2>2. (IF LastBurst THEN 0 ELSE dma.remaining - dma.burstBytes) \in Nat
        /\ LastBurst \in BOOLEAN
    BY <1>1, <1>2 DEF LastBurst
  <2>3. PICK s \in {"IDLE", "ADDR"} : s = IF LastBurst THEN "IDLE" ELSE "ADDR"
    OBVIOUS
  <2>4. PICK one \in Engine : one = [d EXCEPT !.done = LastBurst, !.state = s]
    BY <2>2 DEF Engine
  <2>5. PICK two \in Engine : two = [one EXCEPT !.completed = d.completed + dma.burstBytes,
                                              !.address = dma.address + dma.burstBytes]
    BY <2>1 DEF Engine
  <2>6. dma' = [two EXCEPT !.remaining = IF LastBurst THEN 0
                                         ELSE dma.remaining - dma.burstBytes]
    <3>1. PICK a, c, r, l : /\ a = dma.address + dma.burstBytes
                            /\ c = d.completed + dma.burstBytes
                            /\ r = IF LastBurst THEN 0 ELSE dma.remaining - dma.burstBytes
                            /\ l = LastBurst
      OBVIOUS
    <3>2. dma' = [d EXCEPT !.address = a, !.completed = c, !.remaining = r, !.done = l, !.state = s]
      BY <2>3, <3>1 DEF Advanced
    <3>3. \A e \in Engine :
            [e EXCEPT !.address = a, !.completed = c, !.remaining = r, !.done = l, !.state = s]
            = [[[e EXCEPT !.done = l, !.state = s] EXCEPT !.completed = c, !.address = a]
               EXCEPT !.remaining = r]
      BY DEF Engine
    <3> QED BY <2>4, <2>5, <3>1, <3>2, <3>3
  <2> QED BY <2>2, <2>6 DEF Engine
<1>6. ~LastBurst => Aligned(dma.address + dma.burstBytes) /\ dma.remaining - dma.burstBytes >= 1
  BY <1>1, <1>2, <1>4, AlignedSum
<1> QED
  BY <1>3, <1>5, <1>6 DEF EngineInv, Raised, Aligned


LEMMA CountWrites ==
  ASSUME NEW c \in Engine
  PROVE  /\ \A f \in BOOLEAN : [c EXCEPT !.beatCount = @ + 1, !.error = f] \in Engine
         /\ \A s \in {"DATA", "RESP"} :
              [c EXCEPT !.beatCount = @ + 1, !.state = s] \in Engine
<1>1. PICK n \in Nat : n = c.beatCount + 1
  BY DEF Engine
<1>2. ASSUME NEW f \in BOOLEAN PROVE [c EXCEPT !.beatCount = n, !.error = f] \in Engine
  BY DEF Engine
<1>3. ASSUME NEW s \in {"DATA", "RESP"}
      PROVE  [c EXCEPT !.beatCount = n, !.state = s] \in Engine
  BY DEF Engine
<1>4. ASSUME NEW f \in BOOLEAN
      PROVE  [c EXCEPT !.beatCount = @ + 1, !.error = f] = [c EXCEPT !.beatCount = n, !.error = f]
  BY <1>1
<1>5. ASSUME NEW s \in {"DATA", "RESP"}
      PROVE  [c EXCEPT !.beatCount = @ + 1, !.state = s] = [c EXCEPT !.beatCount = n, !.state = s]
  BY <1>1
<1> QED BY <1>2, <1>3, <1>4, <1>5

(* The error flag after a beat read. *)
Notes(last, ok) == dma.error \/ ~ok \/ (last /\ dma.beatCount # dma.len)

LEMMA ReadKeeps ==
  ASSUME BurstSizes, EngineInv, NEW go, NEW last, NEW ok, ReadBeat(go, last, ok)
  PROVE  /\ EngineInv' /\ dma.state = "DATA"
         /\ ~go => dma' = dma
         /\ go => (dma'.error <=> Notes(last, ok))
         /\ go /\ last => dma'.state \in {"IDLE", "ADDR"}
         /\ go /\ ~last => /\ dma'.state = "DATA" /\ dma'.len = dma.len
                           /\ dma'.beatCount = dma.beatCount + 1
<1> DEFINE wrong == ~ok \/ (last /\ dma.beatCount + 1 # dma.burstBeats)
           d == [Counted EXCEPT !.error = @ \/ wrong]
<1>1. dma \in Engine /\ dma.state = "DATA" /\ dma.burstBeats = dma.len + 1 /\ ~dma.valid
      /\ dma.len \in 0..255 /\ dma.beatCount \in Nat
  BY DEF ReadBeat, EngineInv, Raised, Engine
<1>2. dma.error \/ wrong <=> Notes(last, ok)
  BY <1>1 DEF Notes
<1>3. PICK c \in Engine : c = dma
  BY <1>1
<1>4. PICK f \in BOOLEAN : f = (dma.error \/ wrong)
  OBVIOUS
<1>5. d = [c EXCEPT !.beatCount = @ + 1, !.error = f]
  BY <1>3, <1>4 DEF Counted, Engine
<1> HIDE DEF d
<1>6. d \in Engine
  BY <1>3, <1>5, CountWrites
<1>7. /\ d.error = f /\ d.beatCount = c.beatCount + 1
      /\ d.state = c.state /\ d.address = c.address /\ d.remaining = c.remaining
      /\ d.valid = c.valid /\ d.done = c.done /\ d.burstBytes = c.burstBytes
      /\ d.burstBeats = c.burstBeats /\ d.addr = c.addr /\ d.len = c.len
  BY <1>3, <1>5 DEF Engine
<1>8. dma' = IF ~go THEN dma ELSE IF last THEN Advanced(d) ELSE d
  BY DEF ReadBeat, d
<1> HIDE DEF wrong
<1>9. CASE ~go
  BY <1>1, <1>8, <1>9 DEF EngineInv, Raised
<1>10. CASE go /\ last
  <2>1. dma' = Advanced(d)
    BY <1>8, <1>10
  <2> QED BY <1>1, <1>2, <1>3, <1>4, <1>6, <1>7, <1>10, <2>1, AdvanceKeeps
<1>11. CASE go /\ ~last
  <2>1. dma' = d
    BY <1>8, <1>11
  <2>2. EngineInv'
    BY <1>1, <1>3, <1>6, <1>7, <2>1 DEF EngineInv, Raised
  <2> QED BY <1>1, <1>2, <1>3, <1>4, <1>6, <1>7, <1>11, <2>1, <2>2
<1> QED BY <1>9, <1>10, <1>11

LEMMA WriteKeeps ==
  ASSUME BurstSizes, EngineInv, NEW go, WriteBeat(go)
  PROVE  /\ EngineInv' /\ dma.state = "DATA" /\ dma'.state \in {"DATA", "RESP"}
         /\ dma'.error = dma.error /\ dma'.len = dma.len
         /\ dma.beatCount <= dma.len /\ dma'.state = "DATA" => dma'.beatCount <= dma.len
<1>1. dma \in Engine /\ dma.state = "DATA" /\ dma.burstBeats = dma.len + 1 /\ ~dma.valid
      /\ dma.len \in 0..255 /\ dma.beatCount \in Nat
  BY DEF WriteBeat, EngineInv, Raised, Engine
<1>2. PICK c \in Engine : c = dma
  BY <1>1
<1>3. CASE ~go
  BY <1>1, <1>3 DEF WriteBeat, EngineInv, Raised
<1>4. CASE go
  <2>1. PICK st \in {"DATA", "RESP"} :
          /\ dma' = [c EXCEPT !.beatCount = @ + 1, !.state = st]
          /\ st = "DATA" => dma.beatCount # dma.len
    <3>1. CASE WriteLast
      BY <1>2, <1>4, <3>1 DEF WriteBeat, Counted, Engine
    <3>2. CASE ~WriteLast
      <4>1. dma' = [c EXCEPT !.beatCount = @ + 1, !.state = "DATA"]
        BY <1>1, <1>2, <1>4, <3>2 DEF WriteBeat, Counted, Engine
      <4> QED BY <1>1, <3>2, <4>1 DEF WriteLast
    <3> QED BY <3>1, <3>2
  <2> DEFINE d == [c EXCEPT !.beatCount = @ + 1, !.state = st]
  <2>2. d \in Engine
    BY <1>2, CountWrites
  <2>3. /\ d.error = c.error /\ d.beatCount = c.beatCount + 1
        /\ d.state = st /\ d.address = c.address /\ d.remaining = c.remaining
        /\ d.valid = c.valid /\ d.done = c.done /\ d.burstBytes = c.burstBytes
        /\ d.burstBeats = c.burstBeats /\ d.addr = c.addr /\ d.len = c.len
    BY <1>2 DEF Engine
  <2>4. dma' = d
    BY <2>1
  <2> HIDE DEF d
  <2>5. EngineInv'
    BY <1>1, <1>2, <2>2, <2>3, <2>4 DEF EngineInv, Raised
  <2> QED BY <1>1, <1>2, <2>1, <2>3, <2>4, <2>5
<1> QED BY <1>3, <1>4

LEMMA ResponseKeeps ==
  ASSUME BurstSizes, EngineInv, NEW go, NEW ok, Response(go, ok)
  PROVE  /\ EngineInv' /\ dma.state = "RESP" /\ dma'.state # "DATA"
         /\ ~go => dma' = dma
         /\ go => (dma'.error <=> dma.error \/ ~ok)
<1>1. dma \in Engine /\ dma.state = "RESP" /\ ~dma.valid
  BY DEF Response, EngineInv
<1>2. CASE ~go
  BY <1>1, <1>2 DEF Response, EngineInv, Raised
<1>3. CASE go
  <2>1. PICK c \in Engine : c = dma
    BY <1>1
  <2>2. PICK f \in BOOLEAN : f = (dma.error \/ ~ok)
    OBVIOUS
  <2> DEFINE d == [c EXCEPT !.error = f]
  <2>3. /\ d \in Engine /\ d.error = f /\ d.address = c.address
        /\ d.remaining = c.remaining /\ d.valid = c.valid
    BY DEF Engine
  <2>4. dma' = Advanced(d)
    BY <1>3, <2>1, <2>2 DEF Response, Engine
  <2> HIDE DEF d
  <2> QED BY <1>1, <1>3, <2>1, <2>2, <2>3, <2>4, AdvanceKeeps
<1> QED BY <1>2, <1>3


-----------------------------------------------------------------------------
(* What an edge does to the two engines.                                   *)

(* The reader has no response phase. *)
ReaderInv == EngineInv /\ dma.state # "RESP"

(* The writer stops at the last beat it was asked for. *)
WriterInv == EngineInv /\ (dma.state = "DATA" => dma.beatCount <= dma.len)

LEMMA InitialEngine ==
  ASSUME dma = InitialDma
  PROVE  ReaderInv /\ WriterInv /\ FaultInv(FALSE) /\ CmdReady /\ ~dma.done
BY DEF InitialDma, ReaderInv, WriterInv, EngineInv, Engine, Raised, FaultInv, Overrun,
       CmdReady

LEMMA ReaderKeeps ==
  ASSUME BurstSizes, ReaderInv, NEW v, NEW cmd, NEW go, NEW last, NEW ok,
         ReaderEdge(v, cmd, go, last, ok), v => GoodCommand(cmd)
  PROVE  ReaderInv' /\ (CmdReady /\ ~v => CmdReady' /\ ~dma'.done)
<1>1. CASE Command(v, cmd)
  BY <1>1, CommandKeeps DEF ReaderInv
<1>2. CASE RaiseAddress
  BY <1>2, RaiseKeeps DEF ReaderInv, CmdReady
<1>3. CASE PassAddress(go)
  BY <1>3, PassKeeps DEF ReaderInv, CmdReady
<1>4. CASE ReadBeat(go, last, ok)
  <2>1. EngineInv' /\ dma.state = "DATA" /\ dma'.state # "RESP"
    BY <1>4, ReadKeeps DEF ReaderInv
  <2> QED BY <2>1 DEF ReaderInv, CmdReady
<1> QED BY <1>1, <1>2, <1>3, <1>4 DEF ReaderEdge

LEMMA WriterKeeps ==
  ASSUME BurstSizes, WriterInv, NEW v, NEW cmd, NEW go, NEW ok,
         WriterEdge(v, cmd, go, ok), v => GoodCommand(cmd)
  PROVE  WriterInv' /\ (CmdReady /\ ~v => CmdReady' /\ ~dma'.done)
<1>1. CASE Command(v, cmd)
  BY <1>1, CommandKeeps DEF WriterInv
<1>2. CASE RaiseAddress
  BY <1>2, RaiseKeeps DEF WriterInv, CmdReady
<1>3. CASE PassAddress(go)
  <2>1. /\ EngineInv' /\ dma.state = "ADDR"
        /\ dma'.state = "DATA" => dma'.beatCount = 0
    BY <1>3, PassKeeps DEF WriterInv
  <2>2. dma'.len \in 0..255
    BY <2>1 DEF EngineInv, Engine
  <2> QED BY <2>1, <2>2 DEF WriterInv, CmdReady
<1>4. CASE WriteBeat(go)
  <2>1. /\ EngineInv' /\ dma.state = "DATA" /\ dma'.len = dma.len
        /\ dma.beatCount <= dma.len /\ dma'.state = "DATA" => dma'.beatCount <= dma.len
    BY <1>4, WriteKeeps DEF WriterInv
  <2> QED BY <2>1 DEF WriterInv, CmdReady
<1>5. CASE Response(go, ok)
  <2>1. EngineInv' /\ dma.state = "RESP" /\ dma'.state # "DATA"
    BY <1>5, ResponseKeeps DEF WriterInv
  <2> QED BY <2>1 DEF WriterInv, CmdReady
<1> QED BY <1>1, <1>2, <1>3, <1>4, <1>5 DEF WriterEdge

(* An edge of a reader on which its slave makes the mistake m or none: a   *)
(* wrong end of a burst ("last"), early or late, or an error response      *)
(* ("error").  The current command has met a mistake before it (w), and    *)
(* has after it (w2).                                                      *)
ReadsWith(v, cmd, go, last, m, w, w2) ==
  /\ {v, go, last, w, w2} \subseteq BOOLEAN
  /\ ReaderEdge(v, cmd, go, last, m # "error")
  /\ v => GoodCommand(cmd)
  /\ last <=> IF m = "last" THEN dma.beatCount < dma.len ELSE dma.beatCount >= dma.len
  /\ m \in {"none", "last", "error"}
  /\ m # "none" => dma.state = "DATA" /\ go
  /\ w2 <=> (w /\ ~(CmdReady /\ v)) \/ m # "none"

(* A reader's flag follows the mistakes of its slave. *)
LEMMA ReaderFaults ==
  ASSUME BurstSizes, ReaderInv, NEW v, NEW cmd, NEW go, NEW last, NEW m, NEW w, NEW w2,
         ReadsWith(v, cmd, go, last, m, w, w2), FaultInv(w)
  PROVE  FaultInv(w2)'
<1> SUFFICES ASSUME
         v \in BOOLEAN, go \in BOOLEAN, last \in BOOLEAN, w \in BOOLEAN, w2 \in BOOLEAN,
         ReaderEdge(v, cmd, go, last, m # "error"), v => GoodCommand(cmd), FaultInv(w),
         last <=> IF m = "last" THEN dma.beatCount < dma.len ELSE dma.beatCount >= dma.len,
         m \in {"none", "last", "error"}, m # "none" => dma.state = "DATA" /\ go,
         w2 <=> (w /\ ~(CmdReady /\ v)) \/ m # "none"
    PROVE  FaultInv(w2)'
  BY DEF ReadsWith
<1>1. CASE Command(v, cmd)
  <2>1. /\ CmdReady /\ dma'.state # "DATA"
        /\ v => ~dma'.error
        /\ ~v => CmdReady' /\ ~dma'.done
    BY <1>1, CommandKeeps DEF ReaderInv
  <2> QED BY <2>1 DEF FaultInv, Overrun, CmdReady
<1>2. CASE RaiseAddress
  <2>1. dma.state = "ADDR" /\ dma'.state = "ADDR" /\ dma'.error = dma.error
    BY <1>2, RaiseKeeps DEF ReaderInv
  <2> QED BY <2>1 DEF FaultInv, Overrun, CmdReady
<1>3. CASE PassAddress(go)
  <2>1. /\ EngineInv' /\ dma.state = "ADDR" /\ dma'.error = dma.error
        /\ dma'.state \in {"ADDR", "DATA"}
        /\ dma'.state = "DATA" => dma'.beatCount = 0
    BY <1>3, PassKeeps DEF ReaderInv
  <2>2. dma'.len \in 0..255
    BY <2>1 DEF EngineInv, Engine
  <2>3. ~Overrun'
    BY <2>1, <2>2 DEF Overrun
  <2> QED BY <2>1, <2>3 DEF FaultInv, Overrun, CmdReady
<1>4. CASE ReadBeat(go, last, m # "error")
  <2>1. /\ dma.state = "DATA"
        /\ ~go => dma' = dma
        /\ go => (dma'.error <=> Notes(last, m # "error"))
        /\ go /\ last => dma'.state \in {"IDLE", "ADDR"}
        /\ go /\ ~last => /\ dma'.state = "DATA" /\ dma'.len = dma.len
                          /\ dma'.beatCount = dma.beatCount + 1
    BY <1>4, ReadKeeps DEF ReaderInv
  <2>2. dma.len \in 0..255 /\ dma.beatCount \in Nat
    BY DEF ReaderInv, EngineInv, Engine
  <2>3. CASE ~go
    BY <2>1, <2>3 DEF FaultInv, Overrun, CmdReady
  <2>4. CASE go /\ last
    <3>1. Notes(last, m # "error") <=> w2
      BY <2>1, <2>2, <2>4 DEF FaultInv, Overrun, CmdReady, Notes
    <3> QED BY <2>1, <2>4, <3>1 DEF FaultInv, Overrun
  <2>5. CASE go /\ ~last
    <3>0. Notes(last, m # "error") <=> dma.error \/ m = "error"
      BY <2>5 DEF Notes
    <3>1. /\ Notes(last, m # "error") => w2
          /\ w2 => Notes(last, m # "error") \/ dma.beatCount + 1 > dma.len
          /\ dma.beatCount + 1 > dma.len => w2
      <4>1. PICK b \in Nat, l \in 0..255 : b = dma.beatCount /\ l = dma.len
        BY <2>2
      <4>2. /\ dma.error => w
            /\ w => dma.error \/ b > l
            /\ b > l => w
        BY <2>1, <4>1 DEF FaultInv, Overrun
      <4>3. w2 <=> w \/ m # "none"
        BY <2>1 DEF CmdReady
      <4>4. m = "error" \/ (m = "last" /\ b >= l) \/ (m = "none" /\ b < l)
        BY <2>2, <2>5, <4>1
      <4> QED BY <3>0, <4>1, <4>2, <4>3, <4>4
    <3> QED BY <2>1, <2>5, <3>1 DEF FaultInv, Overrun
  <2> QED BY <2>3, <2>4, <2>5
<1> QED BY <1>1, <1>2, <1>3, <1>4 DEF ReaderEdge

(* A writer's flag follows the error responses of its slave. *)
LEMMA WriterFaults ==
  ASSUME BurstSizes, WriterInv, NEW v \in BOOLEAN, NEW cmd, NEW go \in BOOLEAN,
         NEW m, NEW w \in BOOLEAN, NEW w2 \in BOOLEAN,
         WriterEdge(v, cmd, go, m # "error"), v => GoodCommand(cmd), FaultInv(w),
         m \in {"none", "error"}, m # "none" => dma.state = "RESP" /\ go,
         w2 <=> (w /\ ~(CmdReady /\ v)) \/ m # "none"
  PROVE  FaultInv(w2)'
<1>1. ~Overrun /\ ~Overrun'
  <2>1. WriterInv'
    BY WriterKeeps
  <2>2. dma \in Engine /\ dma' \in Engine
    BY <2>1 DEF WriterInv, EngineInv
  <2>3. dma.beatCount \in Nat /\ dma'.beatCount \in Nat /\ dma.len \in 0..255 /\ dma'.len \in 0..255
    BY <2>2 DEF Engine
  <2> QED BY <2>1, <2>3 DEF WriterInv, Overrun
<1>2. CASE Command(v, cmd)
  <2>1. /\ CmdReady /\ dma'.state # "DATA"
        /\ v => ~dma'.error
        /\ ~v => CmdReady' /\ ~dma'.done
    BY <1>2, CommandKeeps DEF WriterInv
  <2> QED BY <1>1, <2>1 DEF FaultInv, CmdReady
<1>3. CASE RaiseAddress
  <2>1. dma.state = "ADDR" /\ dma'.state = "ADDR" /\ dma'.error = dma.error
    BY <1>3, RaiseKeeps DEF WriterInv
  <2> QED BY <1>1, <2>1 DEF FaultInv, CmdReady
<1>4. CASE PassAddress(go)
  <2>1. dma.state = "ADDR" /\ dma'.error = dma.error
    BY <1>4, PassKeeps DEF WriterInv
  <2> QED BY <1>1, <2>1 DEF FaultInv, CmdReady
<1>5. CASE WriteBeat(go)
  <2>1. dma.state = "DATA" /\ dma'.error = dma.error
    BY <1>5, WriteKeeps DEF WriterInv
  <2> QED BY <1>1, <2>1 DEF FaultInv, CmdReady
<1>6. CASE Response(go, m # "error")
  <2>1. /\ dma.state = "RESP"
        /\ ~go => dma' = dma
        /\ go => (dma'.error <=> dma.error \/ ~(m # "error"))
    BY <1>6, ResponseKeeps DEF WriterInv
  <2> QED BY <1>1, <2>1 DEF FaultInv, CmdReady
<1> QED BY <1>2, <1>3, <1>4, <1>5, <1>6 DEF WriterEdge

(* What an engine puts on its address channel. *)
LEMMA AddressFits ==
  ASSUME EngineInv, dma.valid
  PROVE  /\ dma.addr \div PAGE = (dma.addr + (dma.len + 1) * BUS_BYTES - 1) \div PAGE
         /\ dma.len + 1 <= MAX_BURST_BEATS
         /\ dma.burstBytes <= dma.remaining
BY DEF EngineInv, Raised, Fits


-----------------------------------------------------------------------------
(* How far an edge brings an engine in its command.                        *)

(* The state of an engine does not hang on operators. *)
LEMMA MovedIs ==
  ASSUME dma \in Engine
  PROVE  /\ dma.state = "DATA" => Moved = dma.completed + dma.beatCount * BUS_BYTES
         /\ dma.state = "RESP" => Moved = dma.completed + dma.burstBeats * BUS_BYTES
         /\ dma.state = "ADDR" => Moved = dma.completed
         /\ dma.state = "IDLE" => Moved = dma.completed
BY DEF Moved, Engine

LEMMA StartMoves ==
  ASSUME BurstSizes, EngineInv, NEW cmd, GoodCommand(cmd), cmd.bytes >= 1, Accept(cmd)
  PROVE  Progress(cmd)' /\ dma'.state = "ADDR" /\ ~dma'.done /\ dma'.completed = 0
<1>1. PICK d \in Engine : d = dma
  BY DEF EngineInv
<1>2. PICK e : e = dma'
  OBVIOUS
<1>3. e = [d EXCEPT !.address = cmd.addr, !.remaining = cmd.bytes, !.completed = 0,
                    !.error = FALSE, !.valid = FALSE, !.done = FALSE, !.state = "ADDR"]
  <2>1. cmd.bytes # 0
    BY DEF GoodCommand
  <2>2. (cmd.bytes = 0) = FALSE
    BY <2>1
  <2> QED BY <1>1, <1>2, <2>1, <2>2 DEF Accept
<1>4. /\ e.address = cmd.addr /\ e.remaining = cmd.bytes /\ e.completed = 0 /\ ~e.valid
      /\ e.state = "ADDR" /\ ~e.done
  BY <1>1, <1>3 DEF Engine
<1> QED BY <1>2, <1>4 DEF Progress, Raised, GoodCommand

LEMMA RaiseMoves ==
  ASSUME BurstSizes, EngineInv, NEW cmd \in [addr : Nat, bytes : Nat], Progress(cmd),
         RaiseAddress
  PROVE  /\ Progress(cmd)' /\ dma.state = "ADDR" /\ dma'.state = "ADDR" /\ ~dma'.done
         /\ dma'.completed = dma.completed
<1> DEFINE n == NextBurstBytes
           beats == NextBurstBeats
<1>1. /\ dma \in Engine /\ dma.state = "ADDR" /\ ~dma.valid /\ ~dma.done
      /\ dma.remaining >= 1 /\ Aligned(dma.address)
  BY DEF RaiseAddress, EngineInv
<1>2. dma.address \in Nat /\ dma.remaining \in Nat
  BY <1>1 DEF Engine
<1>3. /\ n < dma.remaining => Aligned(n)
      /\ (beats - 1) * BUS_BYTES < n
      /\ n <= beats * BUS_BYTES
      /\ Aligned(n) => n = beats * BUS_BYTES
  BY <1>1, <1>2, NextBurst
<1>4. dma' = [dma EXCEPT !.addr = dma.address, !.len = (beats + 255) % 256,
                         !.burstBytes = n, !.burstBeats = beats,
                         !.beatCount = 0, !.valid = TRUE]
  BY DEF RaiseAddress
<1> HIDE DEF n, beats
<1>5. /\ dma'.state = "ADDR" /\ ~dma'.done /\ dma'.remaining = dma.remaining
      /\ dma'.address = dma.address /\ dma'.burstBytes = n /\ dma'.burstBeats = beats
      /\ dma'.addr = dma.address /\ dma'.completed = dma.completed
  BY <1>1, <1>4 DEF Engine
<1> QED BY <1>1, <1>3, <1>5 DEF Progress

LEMMA PassMoves ==
  ASSUME BurstSizes, EngineInv, NEW cmd, Progress(cmd), NEW go, PassAddress(go)
  PROVE  /\ Progress(cmd)' /\ dma.state = "ADDR" /\ dma'.state \in {"ADDR", "DATA"}
         /\ ~dma'.done /\ dma'.completed = dma.completed
         /\ dma'.state = "DATA" => dma'.beatCount = 0
<1>1. /\ dma \in Engine /\ dma.state = "ADDR" /\ dma.valid /\ ~dma.done
      /\ dma.beatCount = 0
  BY DEF PassAddress, EngineInv
<1>2. CASE ~go
  BY <1>1, <1>2 DEF PassAddress, Progress, Raised
<1>3. CASE go
  <2>1. dma' = [dma EXCEPT !.valid = FALSE, !.state = "DATA"]
    BY <1>3 DEF PassAddress
  <2>2. /\ dma'.state = "DATA" /\ ~dma'.done /\ dma'.remaining = dma.remaining
        /\ dma'.address = dma.address /\ dma'.burstBytes = dma.burstBytes
        /\ dma'.burstBeats = dma.burstBeats /\ dma'.addr = dma.addr
        /\ dma'.beatCount = dma.beatCount /\ dma'.completed = dma.completed
    BY <1>1, <2>1 DEF Engine
  <2> QED BY <1>1, <2>2 DEF Progress, Raised
<1> QED BY <1>2, <1>3

(* A burst ends: the command with it, or the next burst follows. *)
LEMMA AdvanceMoves ==
  ASSUME BurstSizes, EngineInv, NEW cmd \in [addr : Nat, bytes : Nat], Progress(cmd),
         dma.state \in {"DATA", "RESP"},
         NEW d \in Engine, d.address = dma.address, d.remaining = dma.remaining,
         d.completed = dma.completed, ~d.valid, dma' = Advanced(d)
  PROVE  /\ Progress(cmd)'
         /\ LastBurst => dma'.state = "IDLE" /\ dma'.done
         /\ ~LastBurst => /\ dma'.state = "ADDR" /\ ~dma'.done
                          /\ dma'.completed = dma.completed + dma.burstBeats * BUS_BYTES
<1>1. /\ dma \in Engine /\ dma.burstBytes <= dma.remaining
      /\ dma.address = cmd.addr + dma.completed
      /\ dma.completed + dma.remaining = cmd.bytes
      /\ dma.burstBytes < dma.remaining => dma.burstBytes = dma.burstBeats * BUS_BYTES
  BY DEF EngineInv, Raised, Progress
<1>2. dma.address \in Nat /\ dma.remaining \in Nat /\ dma.burstBytes \in Nat /\ dma.completed \in Nat
      /\ cmd.addr \in Nat /\ cmd.bytes \in Nat
  BY <1>1 DEF Engine
<1>3. /\ dma'.address = dma.address + dma.burstBytes
      /\ dma'.completed = dma.completed + dma.burstBytes
      /\ dma'.remaining = (IF LastBurst THEN 0 ELSE dma.remaining - dma.burstBytes)
      /\ dma'.done = LastBurst
      /\ dma'.state = (IF LastBurst THEN "IDLE" ELSE "ADDR")
      /\ ~dma'.valid
  BY DEF Advanced, Engine
<1>4. ~LastBurst => dma.burstBytes < dma.remaining
  BY <1>1, <1>2 DEF LastBurst
<1>5. ~LastBurst =>
        /\ dma'.address = cmd.addr + dma'.completed
        /\ dma'.completed + dma'.remaining = cmd.bytes
  BY <1>1, <1>2, <1>3
<1> QED BY <1>1, <1>3, <1>4, <1>5 DEF Progress, Raised


(* An edge of the reader whose slave makes no mistake; cmd is its command. *)
LEMMA ReaderMoves ==
  ASSUME BurstSizes, ReaderInv, ~Overrun, NEW v, NEW c, NEW go, NEW last \in BOOLEAN, NEW ok,
         NEW cmd, GoodCommand(cmd), cmd.bytes >= 1, Progress(cmd), v => c = cmd,
         ReaderEdge(v, c, go, last, ok),
         last <=> dma.beatCount >= dma.len
  PROVE  /\ Progress(cmd)' /\ ~Overrun'
         /\ CmdReady /\ ~v => CmdReady' /\ ~dma'.done
         /\ CmdReady /\ v => ~CmdReady' /\ ~dma'.done /\ Moved' = 0
         /\ ~CmdReady /\ ~(dma.state = "DATA" /\ go) =>
              ~CmdReady' /\ ~dma'.done /\ Moved' = Moved
         /\ dma.state = "DATA" =>
              /\ Moved \in Nat /\ Moved < cmd.bytes
              /\ dma.addr + dma.beatCount * BUS_BYTES = cmd.addr + Moved
              /\ OutLast(last) <=> Moved + BUS_BYTES >= cmd.bytes
         /\ dma.state = "DATA" /\ go /\ Moved + BUS_BYTES < cmd.bytes =>
              ~CmdReady' /\ ~dma'.done /\ Moved' = Moved + BUS_BYTES
         /\ dma.state = "DATA" /\ go /\ Moved + BUS_BYTES >= cmd.bytes =>
              CmdReady' /\ dma'.done
<1>1. EngineInv' /\ dma \in Engine /\ dma' \in Engine /\ EngineInv
  BY ReaderKeeps DEF ReaderInv, EngineInv
<1>2. cmd \in [addr : Nat, bytes : Nat] /\ BUS_BYTES \in Nat /\ BUS_BYTES >= 1
  BY DEF GoodCommand, BurstSizes
<1>3. /\ dma'.state = "DATA" => Moved' = dma'.completed + dma'.beatCount * BUS_BYTES
      /\ dma'.state = "ADDR" => Moved' = dma'.completed
  BY <1>1 DEF Moved, Engine
<1>4. CASE Command(v, c)
  <2>1. CASE v
    <3>1. Accept(cmd)
      BY <1>4, <2>1 DEF Command
    <3> QED BY <1>1, <1>3, <2>1, <3>1, StartMoves DEF Accept, CmdReady, Overrun
  <2>2. CASE ~v
    <3>1. CmdReady /\ CmdReady' /\ ~dma'.done
      BY <1>1, <1>4, <2>2, CommandKeeps
    <3> QED BY <2>2, <3>1 DEF CmdReady, Progress, Overrun
  <2> QED BY <2>1, <2>2
<1>5. CASE RaiseAddress
  BY <1>1, <1>2, <1>3, <1>5, RaiseMoves, MovedIs DEF CmdReady, Overrun
<1>6. CASE PassAddress(go)
  <2>1. dma'.len \in 0..255 /\ dma.completed \in Nat
    BY <1>1 DEF Engine
  <2>2. /\ Progress(cmd)' /\ dma.state = "ADDR" /\ dma'.state \in {"ADDR", "DATA"}
        /\ ~dma'.done /\ dma'.completed = dma.completed
        /\ dma'.state = "DATA" => dma'.beatCount = 0
    BY <1>1, <1>6, PassMoves
  <2>3. Moved' = Moved
    BY <1>1, <1>2, <1>3, <2>1, <2>2, MovedIs
  <2> QED BY <2>1, <2>2, <2>3 DEF CmdReady, Overrun
<1>7. CASE ReadBeat(go, last, ok)
  <2>1. dma.state = "DATA" /\ dma.beatCount <= dma.len /\ dma.burstBeats = dma.len + 1
        /\ dma.beatCount \in Nat /\ dma.len \in 0..255 /\ dma.burstBeats \in Nat
        /\ dma.completed \in Nat /\ dma.remaining \in Nat /\ dma.burstBytes \in Nat
        /\ ~dma.valid /\ ~dma.done
    <3>1. dma.state = "DATA"
      BY <1>7 DEF ReadBeat
    <3>2. dma \in Engine /\ dma.burstBeats = dma.len + 1 /\ ~dma.valid /\ ~dma.done
      BY <1>1, <3>1 DEF EngineInv, Raised
    <3> QED BY <1>1, <3>1, <3>2 DEF Engine, Overrun
  <2>2. /\ dma.addr = dma.address /\ dma.address = cmd.addr + dma.completed
        /\ dma.completed + dma.remaining = cmd.bytes
        /\ dma.burstBytes >= 1 /\ dma.burstBytes <= dma.remaining
        /\ (dma.burstBeats - 1) * BUS_BYTES < dma.burstBytes
        /\ dma.burstBytes <= dma.burstBeats * BUS_BYTES
        /\ dma.burstBytes < dma.remaining => dma.burstBytes = dma.burstBeats * BUS_BYTES
    BY <1>1, <2>1 DEF Progress, Raised, EngineInv
  <2> DEFINE m == dma.beatCount * BUS_BYTES
             l == dma.len * BUS_BYTES
  <2>3. /\ m \in Nat /\ l \in Nat /\ m <= l
        /\ ~last => m + BUS_BYTES <= l
        /\ last => dma.beatCount = dma.len /\ m = l
        /\ (dma.burstBeats - 1) * BUS_BYTES = l
        /\ dma.burstBeats * BUS_BYTES = l + BUS_BYTES
    BY <1>2, <2>1
  <2>4. Moved = dma.completed + m
    BY <1>1, <2>1, MovedIs
  <2>5. /\ dma.addr + m = cmd.addr + Moved
        /\ Moved \in Nat /\ Moved < cmd.bytes
    <3> HIDE DEF m, l
    <3> QED BY <1>2, <2>1, <2>2, <2>3, <2>4
  <2>6. OutLast(last) <=> Moved + BUS_BYTES >= cmd.bytes
    <3> HIDE DEF m, l
    <3>1. LastBurst <=> dma.burstBytes = dma.remaining
      BY <2>1, <2>2 DEF LastBurst
    <3> QED BY <1>2, <2>1, <2>2, <2>3, <2>4, <3>1 DEF OutLast
  <2>7. CASE ~go
    <3>1. dma' = dma
      BY <1>7, <2>7 DEF ReadBeat
    <3>2. Progress(cmd)' /\ ~Overrun' /\ Moved' = Moved
      BY <3>1 DEF Progress, Raised, Overrun, Moved
    <3> QED BY <2>1, <2>5, <2>6, <2>7, <3>1, <3>2 DEF CmdReady
  <2>8. CASE go
    <3> DEFINE wrong == ~ok \/ (last /\ dma.beatCount + 1 # dma.burstBeats)
    <3>1. PICK f \in BOOLEAN : f = (dma.error \/ wrong)
      OBVIOUS
    <3>2. PICK b \in Engine : b = dma
      BY <1>1
    <3> DEFINE d == [b EXCEPT !.beatCount = @ + 1, !.error = f]
    <3>3. dma' = IF last THEN Advanced(d) ELSE d
      BY <1>7, <2>8, <3>1, <3>2 DEF ReadBeat, Counted, Engine
    <3>4. d \in Engine
      BY <3>2, CountWrites
    <3>5. /\ d.beatCount = b.beatCount + 1
          /\ d.state = b.state /\ d.address = b.address /\ d.remaining = b.remaining
          /\ d.valid = b.valid /\ d.done = b.done /\ d.burstBytes = b.burstBytes
          /\ d.burstBeats = b.burstBeats /\ d.addr = b.addr /\ d.len = b.len
          /\ d.completed = b.completed
      BY <3>2 DEF Engine
    <3> HIDE DEF d, wrong, m, l
    <3>6. CASE last
      <4>1. /\ Progress(cmd)'
            /\ LastBurst => dma'.state = "IDLE" /\ dma'.done
            /\ ~LastBurst => /\ dma'.state = "ADDR" /\ ~dma'.done
                             /\ dma'.completed = dma.completed + dma.burstBeats * BUS_BYTES
        BY <1>1, <1>2, <2>1, <3>2, <3>3, <3>4, <3>5, <3>6, AdvanceMoves
      <4>2. dma.burstBeats * BUS_BYTES = m + BUS_BYTES
        BY <2>3, <3>6
      <4>3. ~LastBurst => Moved' = Moved + BUS_BYTES
        BY <1>2, <1>3, <2>1, <2>3, <2>4, <4>1, <4>2
      <4>4. LastBurst <=> Moved + BUS_BYTES >= cmd.bytes
        BY <2>6, <3>6 DEF OutLast
      <4>5. ~(Moved + BUS_BYTES < cmd.bytes) <=> Moved + BUS_BYTES >= cmd.bytes
        BY <1>2, <2>5
      <4> HIDE DEF Moved
      <4>6. dma'.state # "DATA"
        BY <4>1
      <4> QED BY <2>1, <2>5, <2>6, <2>8, <4>1, <4>3, <4>4, <4>5, <4>6 DEF CmdReady, Overrun, m
    <3>7. CASE ~last
      <4>1. dma' = d
        BY <3>3, <3>7
      <4>2. /\ dma'.state = "DATA" /\ dma'.beatCount = dma.beatCount + 1 /\ ~dma'.done
            /\ dma'.completed = dma.completed /\ dma'.len = dma.len
        BY <2>1, <3>2, <3>5, <4>1
      <4>3. Progress(cmd)'
        BY <2>1, <3>2, <3>5, <4>1 DEF Progress, Raised
      <4>4. Moved' = Moved + BUS_BYTES
        BY <1>2, <1>3, <2>1, <2>3, <2>4, <4>2 DEF m
      <4> QED BY <2>1, <2>5, <2>6, <2>8, <3>7, <4>2, <4>3, <4>4 DEF OutLast, CmdReady, Overrun, m
    <3> QED BY <3>6, <3>7
  <2> QED BY <2>7, <2>8
<1> QED BY <1>4, <1>5, <1>6, <1>7 DEF ReaderEdge


(* An edge of the writer. *)
LEMMA WriterMoves ==
  ASSUME BurstSizes, WriterInv, NEW v, NEW c, NEW go, NEW ok,
         NEW cmd, GoodCommand(cmd), cmd.bytes >= 1, Progress(cmd), v => c = cmd,
         WriterEdge(v, c, go, ok)
  PROVE  /\ Progress(cmd)'
         /\ CmdReady /\ ~v => CmdReady' /\ ~dma'.done
         /\ CmdReady /\ v => ~CmdReady' /\ ~dma'.done /\ Moved' = 0
         /\ ~CmdReady /\ ~(dma.state = "DATA" /\ go) =>
              IF CmdReady' THEN dma'.done /\ Moved >= cmd.bytes
                           ELSE ~dma'.done /\ Moved' = Moved
         /\ dma.state = "DATA" =>
              /\ Moved \in Nat /\ Moved < cmd.bytes
              /\ dma.addr + dma.beatCount * BUS_BYTES = cmd.addr + Moved
              /\ \A k \in Int : k \in Strobes <=> k \in 0..BUS_BYTES - 1 /\ Moved + k < cmd.bytes
         /\ dma.state = "DATA" /\ go =>
              ~CmdReady' /\ ~dma'.done /\ Moved' = Moved + BUS_BYTES
<1>1. EngineInv' /\ dma \in Engine /\ dma' \in Engine /\ EngineInv
  BY WriterKeeps DEF WriterInv, EngineInv
<1>2. cmd \in [addr : Nat, bytes : Nat] /\ BUS_BYTES \in Nat /\ BUS_BYTES >= 1
  BY DEF GoodCommand, BurstSizes
<1>3. /\ dma'.state = "DATA" => Moved' = dma'.completed + dma'.beatCount * BUS_BYTES
      /\ dma'.state = "RESP" => Moved' = dma'.completed + dma'.burstBeats * BUS_BYTES
      /\ dma'.state = "ADDR" => Moved' = dma'.completed
  BY <1>1 DEF Moved, Engine
<1>4. CASE Command(v, c)
  <2>1. CASE v
    <3>1. Accept(cmd)
      BY <1>4, <2>1 DEF Command
    <3> QED BY <1>1, <1>3, <2>1, <3>1, StartMoves DEF Accept, CmdReady
  <2>2. CASE ~v
    <3>1. CmdReady /\ CmdReady' /\ ~dma'.done
      BY <1>1, <1>4, <2>2, CommandKeeps
    <3> QED BY <2>2, <3>1 DEF CmdReady, Progress
  <2> QED BY <2>1, <2>2
<1>5. CASE RaiseAddress
  BY <1>1, <1>2, <1>3, <1>5, RaiseMoves, MovedIs DEF CmdReady
<1>6. CASE PassAddress(go)
  <2>1. dma.completed \in Nat
    BY <1>1 DEF Engine
  <2>2. /\ Progress(cmd)' /\ dma.state = "ADDR" /\ dma'.state \in {"ADDR", "DATA"}
        /\ ~dma'.done /\ dma'.completed = dma.completed
        /\ dma'.state = "DATA" => dma'.beatCount = 0
    BY <1>1, <1>6, PassMoves
  <2>3. Moved' = Moved
    BY <1>1, <1>2, <1>3, <2>1, <2>2, MovedIs
  <2> QED BY <2>2, <2>3 DEF CmdReady
<1>7. ASSUME dma.state \in {"DATA", "RESP"}
      PROVE  /\ dma.burstBeats = dma.len + 1 /\ dma.len \in 0..255 /\ dma.beatCount \in Nat
             /\ dma.burstBeats \in Nat /\ dma.completed \in Nat /\ dma.remaining \in Nat
             /\ dma.burstBytes \in Nat /\ ~dma.valid /\ ~dma.done
             /\ dma.addr = dma.address /\ dma.address = cmd.addr + dma.completed
             /\ dma.completed + dma.remaining = cmd.bytes
             /\ dma.burstBytes >= 1 /\ dma.burstBytes <= dma.remaining
             /\ (dma.burstBeats - 1) * BUS_BYTES < dma.burstBytes
             /\ dma.burstBytes <= dma.burstBeats * BUS_BYTES
             /\ dma.burstBytes < dma.remaining => dma.burstBytes = dma.burstBeats * BUS_BYTES
             /\ LastBurst <=> dma.burstBytes = dma.remaining
             /\ dma.len * BUS_BYTES \in Nat
             /\ (dma.burstBeats - 1) * BUS_BYTES = dma.len * BUS_BYTES
             /\ dma.burstBeats * BUS_BYTES = dma.len * BUS_BYTES + BUS_BYTES
  <2>1. /\ dma.burstBeats = dma.len + 1 /\ dma.len \in 0..255 /\ dma.beatCount \in Nat
        /\ dma.burstBeats \in Nat /\ dma.completed \in Nat /\ dma.remaining \in Nat
        /\ dma.burstBytes \in Nat /\ ~dma.valid /\ ~dma.done
        /\ dma.burstBytes >= 1 /\ dma.burstBytes <= dma.remaining
    BY <1>1, <1>7 DEF EngineInv, Engine, Raised
  <2>2. /\ dma.len * BUS_BYTES \in Nat
        /\ (dma.burstBeats - 1) * BUS_BYTES = dma.len * BUS_BYTES
        /\ dma.burstBeats * BUS_BYTES = dma.len * BUS_BYTES + BUS_BYTES
    BY <1>2, <2>1
  <2>3. LastBurst <=> dma.burstBytes = dma.remaining
    BY <2>1 DEF LastBurst
  <2> QED BY <1>7, <2>1, <2>2, <2>3 DEF Progress, Raised
<1>8. CASE WriteBeat(go)
  <2> DEFINE m == dma.beatCount * BUS_BYTES
             l == dma.len * BUS_BYTES
  <2>1. dma.state = "DATA" /\ dma.beatCount <= dma.len /\ dma.beatCount \in Nat /\ dma.len \in 0..255
    BY <1>1, <1>8 DEF WriteBeat, WriterInv, Engine
  <2>2. /\ m \in Nat /\ l \in Nat /\ m <= l
        /\ ~WriteLast => m + BUS_BYTES <= l
        /\ WriteLast => dma.beatCount = dma.len /\ m = l
    <3>1. WriteLast <=> dma.beatCount = dma.len
      BY <1>7, <2>1 DEF WriteLast
    <3>2. m \in Nat /\ l \in Nat /\ m <= l
      BY <1>2, <2>1
    <3>3. dma.beatCount < dma.len => m + BUS_BYTES <= l
      BY <1>2, <2>1
    <3> QED BY <2>1, <3>1, <3>2, <3>3
  <2>3. Moved = dma.completed + m
    BY <1>1, <2>1, MovedIs
  <2>4. /\ dma.addr + m = cmd.addr + Moved
        /\ Moved \in Nat /\ Moved < cmd.bytes
    <3> HIDE DEF m
    <3> QED BY <1>2, <1>7, <2>1, <2>2, <2>3 DEF l
  <2>5. ASSUME NEW k \in Int
        PROVE  k \in Strobes <=> k \in 0..BUS_BYTES - 1 /\ Moved + k < cmd.bytes
    <3>1. BytesBeforeLast = l
      BY <1>2, <1>7, <2>1 DEF BytesBeforeLast
    <3> HIDE DEF m, l
    <3>2. CASE WriteLast
      <4>1. k \in Strobes <=> k \in 0..BUS_BYTES - 1 /\ k < dma.burstBytes - l
        BY <3>1, <3>2 DEF Strobes
      <4>2. /\ l < dma.burstBytes /\ dma.burstBytes <= l + BUS_BYTES
            /\ dma.burstBytes = dma.remaining \/ dma.burstBytes = l + BUS_BYTES
        BY <1>7, <2>1 DEF l
      <4>3. /\ dma.completed + dma.remaining = cmd.bytes /\ dma.burstBytes <= dma.remaining
            /\ dma.completed \in Nat /\ dma.remaining \in Nat /\ dma.burstBytes \in Nat
        BY <1>7, <2>1
      <4>4. k \in 0..BUS_BYTES - 1 => (k < dma.burstBytes - l <=> Moved + k < cmd.bytes)
        BY <1>2, <2>2, <2>3, <3>2, <4>2, <4>3
      <4> QED BY <4>1, <4>4
    <3>3. CASE ~WriteLast
      <4>1. k \in Strobes <=> k \in 0..BUS_BYTES - 1
        BY <3>3 DEF Strobes
      <4>2. l < dma.burstBytes
        BY <1>7, <2>1 DEF l
      <4> QED BY <1>2, <1>7, <2>1, <2>2, <2>3, <3>3, <4>1, <4>2
    <3> QED BY <3>2, <3>3
  <2>6. CASE ~go
    <3>1. dma' = dma
      BY <1>8, <2>6 DEF WriteBeat
    <3>2. Progress(cmd)' /\ Moved' = Moved
      BY <3>1 DEF Progress, Raised, Moved
    <3> QED BY <1>7, <2>1, <2>4, <2>5, <2>6, <3>1, <3>2 DEF CmdReady
  <2>7. CASE go
    <3>1. PICK b \in Engine : b = dma
      BY <1>1
    <3>2. PICK st \in {"DATA", "RESP"} : st = IF WriteLast THEN "RESP" ELSE "DATA"
      OBVIOUS
    <3> DEFINE d == [b EXCEPT !.beatCount = @ + 1, !.state = st]
    <3>3. dma' = d
      <4>1. CASE WriteLast
        BY <1>8, <2>7, <3>1, <3>2, <4>1 DEF WriteBeat, Counted, Engine
      <4>2. CASE ~WriteLast
        BY <1>8, <2>1, <2>7, <3>1, <3>2, <4>2 DEF WriteBeat, Counted, Engine
      <4> QED BY <4>1, <4>2
    <3>4. /\ d.beatCount = b.beatCount + 1
          /\ d.state = st /\ d.address = b.address /\ d.remaining = b.remaining
          /\ d.valid = b.valid /\ d.done = b.done /\ d.burstBytes = b.burstBytes
          /\ d.burstBeats = b.burstBeats /\ d.addr = b.addr /\ d.len = b.len
          /\ d.completed = b.completed
      BY <3>1 DEF Engine
    <3> HIDE DEF d, m
    <3>5. /\ dma'.state = st /\ dma'.beatCount = dma.beatCount + 1 /\ ~dma'.done
          /\ dma'.completed = dma.completed /\ dma'.burstBeats = dma.burstBeats
      BY <1>7, <2>1, <3>1, <3>3, <3>4
    <3>6. Progress(cmd)'
      BY <1>7, <2>1, <3>1, <3>2, <3>3, <3>4 DEF Progress, Raised
    <3>7. Moved' = Moved + BUS_BYTES
      <4>1. CASE WriteLast
        <5>1. Moved' = dma.completed + dma.burstBeats * BUS_BYTES
          BY <1>3, <3>2, <3>5, <4>1
        <5> QED BY <1>2, <1>7, <2>1, <2>2, <2>3, <4>1, <5>1
      <4>2. CASE ~WriteLast
        <5>1. Moved' = dma.completed + (dma.beatCount + 1) * BUS_BYTES
          BY <1>3, <3>2, <3>5, <4>2
        <5> QED BY <1>2, <1>7, <2>1, <2>3, <5>1 DEF m
      <4> QED BY <4>1, <4>2
    <3> QED BY <2>1, <2>4, <2>5, <2>7, <3>2, <3>5, <3>6, <3>7 DEF CmdReady, m
  <2> QED BY <2>6, <2>7
<1>9. CASE Response(go, ok)
  <2>1. dma.state = "RESP"
    BY <1>9 DEF Response
  <2>2. Moved = dma.completed + dma.len * BUS_BYTES + BUS_BYTES
    BY <1>1, <1>2, <1>7, <2>1, MovedIs
  <2>3. CASE ~go
    <3>1. dma' = dma
      BY <1>9, <2>3 DEF Response
    <3>2. Progress(cmd)' /\ Moved' = Moved
      BY <3>1 DEF Progress, Raised, Moved
    <3> QED BY <1>7, <2>1, <3>1, <3>2 DEF CmdReady
  <2>4. CASE go
    <3>1. PICK b \in Engine : b = dma
      BY <1>1
    <3>2. PICK f \in BOOLEAN : f = (dma.error \/ ~ok)
      OBVIOUS
    <3> DEFINE d == [b EXCEPT !.error = f]
    <3>3. dma' = Advanced(d)
      BY <1>9, <2>4, <3>1, <3>2 DEF Response, Engine
    <3>4. /\ d \in Engine /\ d.address = b.address /\ d.remaining = b.remaining
          /\ d.valid = b.valid /\ d.completed = b.completed
      BY <3>1 DEF Engine
    <3> HIDE DEF d
    <3>5. /\ Progress(cmd)'
          /\ LastBurst => dma'.state = "IDLE" /\ dma'.done
          /\ ~LastBurst => /\ dma'.state = "ADDR" /\ ~dma'.done
                           /\ dma'.completed = dma.completed + dma.burstBeats * BUS_BYTES
      BY <1>1, <1>2, <1>7, <2>1, <3>1, <3>3, <3>4, AdvanceMoves
    <3>6. LastBurst => Moved >= cmd.bytes
      BY <1>2, <1>7, <2>1, <2>2
    <3>7. ~LastBurst => Moved' = Moved
      BY <1>1, <1>3, <2>1, <3>5, MovedIs
    <3> QED BY <2>1, <3>5, <3>6, <3>7 DEF CmdReady
  <2> QED BY <2>3, <2>4
<1> QED BY <1>4, <1>5, <1>6, <1>7, <1>8, <1>9 DEF WriterEdge
=============================================================================
