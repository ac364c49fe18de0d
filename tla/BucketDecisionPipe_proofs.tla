---------------------- MODULE BucketDecisionPipe_proofs ----------------------
(***************************************************************************)
(* Theorems about BucketDecisionPipe, for every set of entries and every   *)
(* FIFO depth the module accepts.  First the FIFO by itself, driven by     *)
(* anything: it is a queue of its depth.  Then the pipe around it.         *)
(***************************************************************************)
EXTENDS BucketDecisionPipe, SequenceTheorems, TLAPS

(* What SyncFifo assumes of its depth, and all that is used of it.         *)
LEMMA FifoDepth == FIFO_DEPTH \in Nat \ {0}
BY FifoAssumption

-----------------------------------------------------------------------------
(* The FIFO.                                                               *)
FifoInv == Fifo!TypeOK /\ Fifo!Count <= FIFO_DEPTH

(* The flags, which compare address bits and top bits, read the distance   *)
(* of the pointers.                                                        *)
LEMMA FifoDistance ==
  ASSUME Fifo!TypeOK
  PROVE  /\ Fifo!Count \in Nat
         /\ Fifo!IsEmpty <=> Fifo!Count = 0
         /\ Fifo!IsFull <=> Fifo!Count = FIFO_DEPTH
BY FifoDepth
   DEF Fifo!TypeOK, Fifo!Pointers, Fifo!Count, Fifo!IsEmpty, Fifo!IsFull, Fifo!Low,
       Fifo!High

(* Where the words are: the places counted from the read pointer are       *)
(* addresses, the place after the last word is the one the write pointer   *)
(* names, and while there is room no word is there.                        *)
LEMMA FifoPlaces ==
  ASSUME FifoInv
  PROVE  /\ \A i \in 0 .. FIFO_DEPTH : Fifo!Place(i) \in Fifo!Addresses
         /\ Fifo!Place(Fifo!Count) = Fifo!Low(wptr)
         /\ Fifo!Count < FIFO_DEPTH =>
              \A i \in 0 .. Fifo!Count - 1 : Fifo!Place(i) # Fifo!Low(wptr)
BY FifoDepth
   DEF FifoInv, Fifo!TypeOK, Fifo!Pointers, Fifo!Addresses, Fifo!Count, Fifo!Place,
       Fifo!Low

(* So the contents are a sequence of words. *)
LEMMA FifoWords ==
  FifoInv =>
    /\ Fifo!Contents \in Seq(Decisions)
    /\ Len(Fifo!Contents) = Fifo!Count
    /\ \A i \in 1 .. Fifo!Count : Fifo!Contents[i] = mem[Fifo!Place(i - 1)]
<1> SUFFICES
      ASSUME FifoInv
      PROVE  /\ Fifo!Contents \in Seq(Decisions)
             /\ Len(Fifo!Contents) = Fifo!Count
             /\ \A i \in 1 .. Fifo!Count : Fifo!Contents[i] = mem[Fifo!Place(i - 1)]
  OBVIOUS
<1>1. Fifo!Count \in Nat /\ Fifo!Count <= FIFO_DEPTH
  BY FifoDistance DEF FifoInv
<1>2. \A i \in 1 .. Fifo!Count : mem[Fifo!Place(i - 1)] \in Decisions
  BY <1>1, FifoPlaces, FifoDepth DEF FifoInv, Fifo!TypeOK
<1> QED BY <1>1, <1>2 DEF Fifo!Contents

(* What a clock edge does to the pointers. *)
LEMMA FifoPointers ==
  ASSUME FifoInv, NEW wen \in BOOLEAN, NEW d \in Decisions, NEW ren \in BOOLEAN,
         Fifo!Edge(wen, d, ren)
  PROVE  /\ FifoInv'
         /\ Fifo!Count' = Fifo!Count + (IF wen /\ ~Fifo!IsFull THEN 1 ELSE 0)
                                     - (IF ren /\ ~Fifo!IsEmpty THEN 1 ELSE 0)
<1>1. /\ wptr \in Fifo!Pointers /\ rptr \in Fifo!Pointers
      /\ Fifo!Count <= FIFO_DEPTH
  BY DEF FifoInv, Fifo!TypeOK
<1>2. wptr' \in Fifo!Pointers /\ rptr' \in Fifo!Pointers
  BY <1>1, FifoDepth DEF Fifo!Edge, Fifo!Incr, Fifo!Pointers
<1>3. mem' \in [Fifo!Addresses -> Decisions]
  BY DEF Fifo!Edge, FifoInv, Fifo!TypeOK
<1>4. Fifo!Count' = Fifo!Count + (IF wen /\ ~Fifo!IsFull THEN 1 ELSE 0)
                          - (IF ren /\ ~Fifo!IsEmpty THEN 1 ELSE 0)
  <2>1. CASE wen /\ ~Fifo!IsFull /\ ren /\ ~Fifo!IsEmpty
    BY <1>1, <2>1, FifoDistance, FifoDepth
       DEF FifoInv, Fifo!Edge, Fifo!Incr, Fifo!Pointers, Fifo!Count
  <2>2. CASE wen /\ ~Fifo!IsFull /\ ~(ren /\ ~Fifo!IsEmpty)
    BY <1>1, <2>2, FifoDistance, FifoDepth
       DEF FifoInv, Fifo!Edge, Fifo!Incr, Fifo!Pointers, Fifo!Count
  <2>3. CASE ~(wen /\ ~Fifo!IsFull) /\ ren /\ ~Fifo!IsEmpty
    BY <1>1, <2>3, FifoDistance, FifoDepth
       DEF FifoInv, Fifo!Edge, Fifo!Incr, Fifo!Pointers, Fifo!Count
  <2>4. CASE ~(wen /\ ~Fifo!IsFull) /\ ~(ren /\ ~Fifo!IsEmpty)
    BY <1>1, <2>4, FifoDepth DEF Fifo!Edge, Fifo!Pointers, Fifo!Count
  <2> QED BY <2>1, <2>2, <2>3, <2>4
<1>5. Fifo!Count' <= FIFO_DEPTH
  BY <1>1, <1>4, FifoDistance, FifoDepth DEF FifoInv
<1> QED BY <1>2, <1>3, <1>4, <1>5 DEF FifoInv, Fifo!TypeOK

(* What a clock edge does to the words, by whether it writes and reads. *)
LEMMA FifoQueue ==
  ASSUME FifoInv, NEW wen \in BOOLEAN, NEW d \in Decisions, NEW ren \in BOOLEAN,
         Fifo!Edge(wen, d, ren)
  PROVE  LET doWrite == wen /\ ~Fifo!IsFull
             doRead  == ren /\ ~Fifo!IsEmpty
         IN  /\ doWrite => Len(Fifo!Contents) < FIFO_DEPTH
             /\ doRead => Fifo!Contents # <<>>
             /\ Fifo!Contents' =
                  IF doWrite
                  THEN IF doRead THEN Append(Tail(Fifo!Contents), d)
                       ELSE Append(Fifo!Contents, d)
                  ELSE IF doRead THEN Tail(Fifo!Contents) ELSE Fifo!Contents
<1> DEFINE doWrite == wen /\ ~Fifo!IsFull
           doRead  == ren /\ ~Fifo!IsEmpty
           taken   == IF doRead THEN 1 ELSE 0
           rest    == IF doRead THEN Tail(Fifo!Contents) ELSE Fifo!Contents
<1>1. /\ FifoInv'
      /\ Fifo!Count' = Fifo!Count + (IF doWrite THEN 1 ELSE 0) - taken
      /\ Fifo!Count \in Nat /\ Fifo!Count <= FIFO_DEPTH
      /\ taken \in {0, 1} /\ taken <= Fifo!Count
      /\ doWrite => Fifo!Count < FIFO_DEPTH
      /\ doRead => Fifo!Count > 0
      /\ FIFO_DEPTH \in Nat \ {0}
  BY FifoPointers, FifoDistance, FifoDepth DEF FifoInv
<1>2. /\ Fifo!Contents \in Seq(Decisions) /\ Len(Fifo!Contents) = Fifo!Count
      /\ \A i \in 1 .. Fifo!Count : Fifo!Contents[i] = mem[Fifo!Place(i - 1)]
  BY FifoWords
<1>3. (/\ Fifo!Contents \in Seq(Decisions)
       /\ Len(Fifo!Contents) = Fifo!Count
       /\ \A i \in 1 .. Fifo!Count : Fifo!Contents[i] = mem[Fifo!Place(i - 1)])'
  BY <1>1, FifoWords, PTL
<1>4. /\ rest \in Seq(Decisions)
      /\ Len(rest) = Fifo!Count - taken
      /\ \A i \in 1 .. Fifo!Count - taken : rest[i] = Fifo!Contents[i + taken]
      /\ doRead => Fifo!Contents # <<>>
  <2>1. CASE doRead
    <3>1. Fifo!Contents # <<>>
      BY <1>1, <1>2, <2>1
    <3> QED BY <1>1, <1>2, <2>1, <3>1, HeadTailProperties
  <2>2. CASE ~doRead
    BY <1>1, <1>2, <2>2
  <2> QED BY <2>1, <2>2
(* The read pointer moves with the words, so each word stays in its place. *)
<1>5. \A i \in 0 .. FIFO_DEPTH - 1 :
        i + taken <= FIFO_DEPTH => Fifo!Place(i)' = Fifo!Place(i + taken)
  BY <1>1, FifoDepth
     DEF Fifo!Edge, Fifo!Incr, Fifo!Place, Fifo!Low, FifoInv, Fifo!TypeOK,
         Fifo!Pointers
<1>6. \A i \in 1 .. Fifo!Count - taken : Fifo!Contents'[i] = rest[i]
  <2> SUFFICES ASSUME NEW i \in 1 .. Fifo!Count - taken
               PROVE  Fifo!Contents'[i] = rest[i]
    OBVIOUS
  <2>1. Fifo!Contents'[i] = mem'[Fifo!Place(i - 1 + taken)]
    BY <1>1, <1>3, <1>5
  <2>2. mem'[Fifo!Place(i - 1 + taken)] = mem[Fifo!Place(i - 1 + taken)]
    <3>1. i - 1 + taken \in 0 .. Fifo!Count - 1 /\ i - 1 + taken \in 0 .. FIFO_DEPTH
      BY <1>1
    <3>2. doWrite => Fifo!Place(i - 1 + taken) # Fifo!Low(wptr)
      BY <1>1, <3>1, FifoPlaces
    <3>3. Fifo!Place(i - 1 + taken) \in Fifo!Addresses
      BY <3>1, FifoPlaces
    <3> QED BY <3>2, <3>3 DEF Fifo!Edge, FifoInv, Fifo!TypeOK
  <2>3. mem[Fifo!Place(i - 1 + taken)] = Fifo!Contents[i + taken]
    BY <1>1, <1>2
  <2> QED BY <2>1, <2>2, <2>3, <1>4
<1>7. CASE doWrite
  <2>1. Fifo!Contents'[Fifo!Count - taken + 1] = d
    <3>1. Fifo!Contents'[Fifo!Count - taken + 1] = mem'[Fifo!Place(Fifo!Count)]
      BY <1>1, <1>3, <1>5, <1>7
    <3>2. /\ Fifo!Place(Fifo!Count) = Fifo!Low(wptr)
          /\ Fifo!Place(Fifo!Count) \in Fifo!Addresses
      BY <1>1, FifoPlaces
    <3> QED BY <1>7, <3>1, <3>2 DEF Fifo!Edge, FifoInv, Fifo!TypeOK
  <2>2. /\ Append(rest, d) \in Seq(Decisions)
        /\ Len(Append(rest, d)) = Fifo!Count'
        /\ \A i \in 1 .. Fifo!Count - taken : Append(rest, d)[i] = rest[i]
        /\ Append(rest, d)[Fifo!Count - taken + 1] = d
    BY <1>1, <1>4, <1>7, AppendProperties
  <2>3. \A i \in 1 .. Fifo!Count' : Fifo!Contents'[i] = Append(rest, d)[i]
    BY <1>1, <1>6, <1>7, <2>1, <2>2
  <2>4. Fifo!Contents' = Append(rest, d)
    BY <1>3, <2>2, <2>3, SeqEqual
  <2> QED BY <1>1, <1>2, <1>4, <1>7, <2>4
<1>8. CASE ~doWrite
  <2>1. Fifo!Contents' = rest
    BY <1>1, <1>3, <1>4, <1>6, <1>8, SeqEqual
  <2> QED BY <1>4, <1>8, <2>1
<1> QED BY <1>7, <1>8

(* A reset empties the queue. *)
LEMMA FifoReset ==
  ASSUME FifoInv, Fifo!Reset
  PROVE  FifoInv' /\ Fifo!Contents' = <<>>
<1>1. Fifo!Count' = 0 /\ FifoInv'
  BY FifoDepth DEF FifoInv, Fifo!TypeOK, Fifo!Reset, Fifo!Pointers, Fifo!Count
<1> QED BY <1>1 DEF Fifo!Contents

(* Initially the queue is empty.                                           *)
LEMMA FifoInit ==
  ASSUME Fifo!Init
  PROVE  FifoInv /\ Fifo!Contents = <<>>
<1>1. Fifo!Count = 0 /\ FifoInv
  BY FifoDepth DEF Fifo!Init, FifoInv, Fifo!TypeOK, Fifo!Pointers, Fifo!Count
<1> QED BY <1>1 DEF Fifo!Contents

(* The queue is a function of the registers.                               *)
LEMMA FifoStutter ==
  ASSUME FifoInv, UNCHANGED Fifo!vars
  PROVE  FifoInv' /\ Fifo!Contents' = Fifo!Contents
BY DEF FifoInv, Fifo!TypeOK, Fifo!vars, Fifo!Count, Fifo!Place, Fifo!Contents

(* Every edge and every reset keeps the pointers in step.                  *)
LEMMA FifoInvHolds == Fifo!Spec => []FifoInv
<1>1. Fifo!Init => FifoInv
  BY FifoInit
<1>2. FifoInv /\ [Fifo!Next]_(Fifo!vars) => FifoInv'
  BY FifoPointers, FifoReset, FifoStutter DEF Fifo!Next
<1> QED BY <1>1, <1>2, PTL DEF Fifo!Spec

(* The pointers never pass each other and the full flag is exact, however  *)
(* often they wrap and whatever the words.                                 *)
THEOREM NeverOverwritten == Fifo!Spec => []Fifo!FullExactly
<1>1. FifoInv => Fifo!FullExactly
  BY FifoDistance DEF FifoInv, Fifo!FullExactly
<1> QED BY <1>1, FifoInvHolds, PTL

(* By itself sync_fifo.v is a queue of its depth of words: whatever its    *)
(* user does, even writing to it full and reading it empty.  This is       *)
(* SyncFifo's ImplementsQueue.                                             *)
THEOREM FifoIsQueue == Fifo!Spec => Fifo!ImplementsQueue
<1>1. Fifo!Init => Fifo!BQ!Init
  BY FifoInit DEF Fifo!BQ!Init
<1>2. FifoInv /\ [Fifo!Next]_(Fifo!vars) => [Fifo!BQ!Next]_(Fifo!Contents)
  <2> SUFFICES ASSUME FifoInv, [Fifo!Next]_(Fifo!vars)
               PROVE  [Fifo!BQ!Next]_(Fifo!Contents)
    OBVIOUS
  <2>1. CASE Fifo!Reset
    BY <2>1, FifoReset DEF Fifo!BQ!Next, Fifo!BQ!Clear
  <2>2. ASSUME NEW wen \in BOOLEAN, NEW ren \in BOOLEAN, NEW d \in Decisions,
               Fifo!Edge(wen, d, ren)
        PROVE  [Fifo!BQ!Next]_(Fifo!Contents)
    BY <2>2, FifoQueue
       DEF Fifo!BQ!Next, Fifo!BQ!Put, Fifo!BQ!Take, Fifo!BQ!PutAndTake
  <2>3. CASE UNCHANGED Fifo!vars
    BY <2>3, FifoStutter
  <2> QED BY <2>1, <2>2, <2>3 DEF Fifo!Next
<1> QED BY <1>1, <1>2, FifoInvHolds, PTL
        DEF Fifo!Spec, Fifo!ImplementsQueue, Fifo!BQ!Spec

-----------------------------------------------------------------------------
(* The pipe.                                                               *)
PipeInv == TypeOK /\ CreditExact

(* What the invariant says of the FIFO. *)
LEMMA FifoFlags ==
  ASSUME PipeInv
  PROVE  /\ FifoInv
         /\ InPipe \in Nat
         /\ Fifo!Count \in 0 .. FIFO_DEPTH - InPipe
         /\ Fifo!IsEmpty <=> Fifo!Count = 0
         /\ Fifo!IsFull <=> Fifo!Count = FIFO_DEPTH
<1>1. Fifo!TypeOK
  BY DEF PipeInv, TypeOK
<1>2. /\ Fifo!Count \in Nat
      /\ Fifo!IsEmpty <=> Fifo!Count = 0
      /\ Fifo!IsFull <=> Fifo!Count = FIFO_DEPTH
  BY <1>1, FifoDistance, FifoDepth
<1>3. InPipe \in Nat
  BY DEF InPipe, Valid
<1>4. Fifo!Count <= FIFO_DEPTH - InPipe
  BY <1>2, <1>3, FifoDepth DEF PipeInv, CreditExact
<1> QED BY <1>1, <1>2, <1>3, <1>4, FifoDepth DEF FifoInv

(* Initially no credit is held and nothing is inside.                      *)
LEMMA InitHolds ==
  ASSUME Init
  PROVE  PipeInv /\ InFlight = <<>>
<1>1. Fifo!Init
  BY DEF Init
<1>3. Fifo!TypeOK /\ Fifo!Contents = <<>>
  BY <1>1, FifoInit DEF FifoInv
<1>4. Fifo!Count = 0
  BY FifoDepth DEF Init, Fifo!Init, Fifo!Count
<1>5. \A i \in Stages : stage[i] = Bubble
  BY DEF Init
<1>6. InPipe = 0 /\ Inside(1) = <<>> /\ Inside(2) = <<>> /\ Inside(3) = <<>>
      /\ Inside(4) = <<>>
  BY <1>5 DEF InPipe, Valid, Inside, Stages
<1>7. TypeOK
  BY <1>3, FifoDepth DEF Init, TypeOK
<1>8. CreditExact
  BY <1>4, <1>6, FifoDepth DEF Init, CreditExact
<1>9. InFlight = <<>>
  BY <1>3, <1>6, ConcatEmptySeq DEF InFlight
<1> QED BY <1>7, <1>8, <1>9 DEF PipeInv

(* A reset returns every credit with the entries it forgets.               *)
LEMMA ResetHolds ==
  ASSUME PipeInv, Reset
  PROVE  PipeInv' /\ InFlight' = <<>>
<1>1. Fifo!Reset
  BY DEF Reset
<1>3. Fifo!TypeOK' /\ Fifo!Contents' = <<>>
  BY <1>1, FifoFlags, FifoReset DEF FifoInv
<1>4. Fifo!Count' = 0
  BY FifoDepth DEF Reset, Fifo!Reset, Fifo!Count
<1>5. \A i \in Stages : stage'[i] = Bubble
  BY DEF Reset
<1>6. InPipe' = 0 /\ Inside(1)' = <<>> /\ Inside(2)' = <<>> /\ Inside(3)' = <<>>
      /\ Inside(4)' = <<>>
  BY <1>5 DEF InPipe, Valid, Inside, Stages
<1>7. TypeOK'
  BY <1>3, FifoDepth DEF Reset, TypeOK
<1>8. CreditExact'
  BY <1>4, <1>6, FifoDepth DEF Reset, CreditExact
<1>9. InFlight' = <<>>
  BY <1>3, <1>6, ConcatEmptySeq DEF InFlight
<1> QED BY <1>7, <1>8, <1>9 DEF PipeInv

(* The invariant and the decisions inside are functions of the registers.  *)
LEMMA StutterHolds ==
  ASSUME PipeInv, UNCHANGED vars
  PROVE  PipeInv' /\ InFlight' = InFlight
BY DEF PipeInv, TypeOK, CreditExact, vars, InPipe, Valid, Inside, InFlight,
       Fifo!TypeOK, Fifo!Count, Fifo!Contents, Fifo!Place

-----------------------------------------------------------------------------
(* One clock edge.  The FIFO takes what leaves the pipe, because the       *)
(* credits have kept a place for it.                                       *)
LEMMA FifoEdge ==
  ASSUME PipeInv, NEW offered \in Items \cup {Bubble}, NEW outReady \in BOOLEAN,
         Edge(offered, outReady)
  PROVE  LET deliver == OutValid /\ outReady
             rest == IF deliver THEN Tail(Fifo!Contents) ELSE Fifo!Contents
         IN  /\ Fifo!TypeOK'
             /\ Fifo!Count' = Fifo!Count + Valid(4) - (IF deliver THEN 1 ELSE 0)
             /\ deliver => Fifo!Contents # <<>>
             /\ Fifo!Contents' = IF stage[4] = Bubble THEN rest
                                 ELSE Append(rest, Decision(stage[4]))
<1> DEFINE wen == stage[4] # Bubble
           deliver == OutValid /\ outReady
           rest == IF deliver THEN Tail(Fifo!Contents) ELSE Fifo!Contents
<1>1. PICK word \in Decisions : wen => word = Decision(stage[4])
  <2>1. CASE wen
    <3>1. stage[4] \in Items
      BY <2>1 DEF PipeInv, TypeOK, Stages
    <3> QED BY <3>1 DEF Decisions
  <2>2. CASE ~wen
    <3>1. mem \in [0 .. FIFO_DEPTH - 1 -> Decisions]
      BY DEF PipeInv, TypeOK, Fifo!TypeOK, Fifo!Addresses
    <3>2. mem[0] \in Decisions
      BY <3>1, FifoDepth
    <3> QED BY <2>2, <3>2
  <2> QED BY <2>1, <2>2
<1>2. Fifo!Edge(wen, Decision(stage[4]), deliver)
  BY DEF Edge
<1>3. Fifo!Edge(wen, word, deliver)
  BY <1>1, <1>2 DEF Fifo!Edge
<1>5. /\ FifoInv'
      /\ Fifo!Count' = Fifo!Count + (IF wen /\ ~Fifo!IsFull THEN 1 ELSE 0)
                            - (IF deliver /\ ~Fifo!IsEmpty THEN 1 ELSE 0)
  BY <1>3, FifoFlags, FifoPointers, FifoDepth
<1>6. /\ deliver /\ ~Fifo!IsEmpty => Fifo!Contents # <<>>
      /\ Fifo!Contents' = IF wen /\ ~Fifo!IsFull
                       THEN IF deliver /\ ~Fifo!IsEmpty
                            THEN Append(Tail(Fifo!Contents), word)
                            ELSE Append(Fifo!Contents, word)
                       ELSE IF deliver /\ ~Fifo!IsEmpty THEN Tail(Fifo!Contents)
                            ELSE Fifo!Contents
  BY <1>3, FifoFlags, FifoQueue, FifoDepth
<1>7. wen => ~Fifo!IsFull
  <2>1. wen => InPipe >= 1
    BY DEF InPipe, Valid
  <2> QED BY <2>1, FifoFlags, FifoDepth
<1>8. deliver => ~Fifo!IsEmpty
  BY DEF OutValid
<1>9. Fifo!TypeOK'
  BY <1>5 DEF FifoInv
<1>10. Fifo!Count' = Fifo!Count + Valid(4) - (IF deliver THEN 1 ELSE 0)
  BY <1>5, <1>7, <1>8 DEF Valid
<1>11. deliver => Fifo!Contents # <<>>
  BY <1>6, <1>8
<1>12. Fifo!Contents' = IF stage[4] = Bubble THEN rest
                        ELSE Append(rest, Decision(stage[4]))
  BY <1>1, <1>6, <1>7, <1>8
<1> QED BY <1>9, <1>10, <1>11, <1>12

(* An edge moves the stages up by one and keeps one credit for each entry. *)
LEMMA EdgeHolds ==
  ASSUME PipeInv, NEW offered \in Items \cup {Bubble}, NEW outReady \in BOOLEAN,
         Edge(offered, outReady)
  PROVE  PipeInv'
<1> DEFINE accept  == offered # Bubble /\ InReady
           deliver == OutValid /\ outReady
<1>1. /\ Fifo!TypeOK'
      /\ Fifo!Count' = Fifo!Count + Valid(4) - (IF deliver THEN 1 ELSE 0)
  BY FifoEdge
<1>2. stage' \in [Stages -> Items \cup {Bubble}]
  BY DEF Edge, PipeInv, TypeOK, Stages
<1>3. /\ Valid(1)' = IF accept THEN 1 ELSE 0
      /\ Valid(2)' = Valid(1) /\ Valid(3)' = Valid(2) /\ Valid(4)' = Valid(3)
  BY DEF Edge, Valid, Stages
<1>4. InPipe' = InPipe - Valid(4) + (IF accept THEN 1 ELSE 0)
  <2>1. \A i \in Stages : Valid(i) \in {0, 1}
    BY DEF Valid
  <2> QED BY <1>3, <2>1 DEF InPipe, Stages
<1>5. reserved' = reserved + (IF accept THEN 1 ELSE 0) - (IF deliver THEN 1 ELSE 0)
  <2>1. reserved \in Nat
    BY FifoDepth DEF PipeInv, TypeOK
  <2> QED BY <2>1 DEF Edge, Credits
<1>6. /\ reserved = InPipe + Fifo!Count /\ reserved <= FIFO_DEPTH
      /\ InPipe \in Nat /\ Fifo!Count \in Nat
  BY FifoFlags, FifoDepth DEF PipeInv, CreditExact
<1>7. deliver => Fifo!Count > 0
  BY <1>6, FifoFlags DEF OutValid
<1>8. accept => reserved < FIFO_DEPTH
  BY DEF InReady
<1>9. Valid(4) \in {0, 1}
  BY DEF Valid
<1>10. reserved' = InPipe' + Fifo!Count'
  BY <1>1, <1>4, <1>5, <1>6, <1>9
<1>11. reserved' \in 0 .. FIFO_DEPTH
  BY <1>5, <1>6, <1>7, <1>8, FifoDepth
<1> QED BY <1>1, <1>2, <1>10, <1>11 DEF PipeInv, TypeOK, CreditExact

(* The head of a non-empty sequence is the head of its concatenations. *)
LEMMA TailConcat ==
  ASSUME NEW S, NEW s \in Seq(S), NEW t \in Seq(S), s # <<>>
  PROVE  s \o t # <<>> /\ Tail(s \o t) = Tail(s) \o t
<1>1. /\ Len(s) \in Nat \ {0} /\ Len(t) \in Nat
  BY EmptySeq, LenProperties
<1>2. /\ s \o t \in Seq(S) /\ Len(s \o t) = Len(s) + Len(t)
      /\ \A i \in 1 .. Len(s) + Len(t) :
           (s \o t)[i] = IF i <= Len(s) THEN s[i] ELSE t[i - Len(s)]
  BY ConcatProperties
<1>3. s \o t # <<>>
  BY <1>1, <1>2, EmptySeq
<1>4. /\ Tail(s) \in Seq(S) /\ Len(Tail(s)) = Len(s) - 1
      /\ \A i \in 1 .. Len(Tail(s)) : Tail(s)[i] = s[i + 1]
  BY HeadTailProperties
<1>5. /\ Tail(s \o t) \in Seq(S) /\ Len(Tail(s \o t)) = Len(s) + Len(t) - 1
      /\ \A i \in 1 .. Len(Tail(s \o t)) : Tail(s \o t)[i] = (s \o t)[i + 1]
  BY <1>2, <1>3, HeadTailProperties
<1>6. /\ Tail(s) \o t \in Seq(S)
      /\ Len(Tail(s) \o t) = Len(Tail(s)) + Len(t)
      /\ \A i \in 1 .. Len(Tail(s)) + Len(t) :
           (Tail(s) \o t)[i] =
             IF i <= Len(Tail(s)) THEN Tail(s)[i] ELSE t[i - Len(Tail(s))]
  BY <1>4, ConcatProperties
<1>7. \A i \in 1 .. Len(s) + Len(t) - 1 : Tail(s \o t)[i] = (Tail(s) \o t)[i]
  BY <1>1, <1>2, <1>4, <1>5, <1>6
<1>8. Tail(s \o t) = Tail(s) \o t
  BY <1>1, <1>4, <1>5, <1>6, <1>7, SeqEqual
<1> QED BY <1>3, <1>8

(* The two facts about concatenation used below, without its elements.     *)
LEMMA ConcatLength ==
  ASSUME NEW S, NEW s \in Seq(S), NEW t \in Seq(S)
  PROVE  s \o t \in Seq(S) /\ Len(s \o t) = Len(s) + Len(t)
BY ConcatProperties

(* The decisions inside are a sequence, as long as the credits held. *)
LEMMA InsideWords ==
  ASSUME PipeInv
  PROVE  /\ Fifo!Contents \in Seq(Decisions)
         /\ \A i \in Stages : Inside(i) \in Seq(Decisions)
         /\ InFlight \in Seq(Decisions)
         /\ Len(InFlight) = reserved
<1>1. Fifo!Contents \in Seq(Decisions) /\ Len(Fifo!Contents) = Fifo!Count
  BY FifoFlags, FifoWords, FifoDepth
<1>2. \A i \in Stages : Inside(i) \in Seq(Decisions) /\ Len(Inside(i)) = Valid(i)
  <2> SUFFICES ASSUME NEW i \in Stages
               PROVE  Inside(i) \in Seq(Decisions) /\ Len(Inside(i)) = Valid(i)
    OBVIOUS
  <2>1. CASE stage[i] = Bubble
    BY <2>1 DEF Inside, Valid
  <2>2. CASE stage[i] # Bubble
    <3>1. Decision(stage[i]) \in Decisions
      BY <2>2 DEF PipeInv, TypeOK, Decisions
    <3>2. /\ <<Decision(stage[i])>> \in Seq(Decisions)
          /\ Len(<<Decision(stage[i])>>) = 1
      <4> DEFINE w == Decision(stage[i])
      <4> HIDE DEF w
      <4> QED BY <3>1
    <3> QED BY <2>2, <3>2 DEF Inside, Valid
  <2> QED BY <2>1, <2>2
<1>i. /\ Inside(1) \in Seq(Decisions) /\ Len(Inside(1)) = Valid(1)
      /\ Inside(2) \in Seq(Decisions) /\ Len(Inside(2)) = Valid(2)
      /\ Inside(3) \in Seq(Decisions) /\ Len(Inside(3)) = Valid(3)
      /\ Inside(4) \in Seq(Decisions) /\ Len(Inside(4)) = Valid(4)
  BY <1>2 DEF Stages
<1> DEFINE c4 == Fifo!Contents \o Inside(4)
           c3 == c4 \o Inside(3)
           c2 == c3 \o Inside(2)
<1>3. c4 \in Seq(Decisions) /\ Len(c4) = Len(Fifo!Contents) + Len(Inside(4))
  BY <1>1, <1>i, ConcatLength, Zenon
<1>4. c3 \in Seq(Decisions) /\ Len(c3) = Len(c4) + Len(Inside(3))
  BY <1>3, <1>i, ConcatLength, Zenon
<1>5. c2 \in Seq(Decisions) /\ Len(c2) = Len(c3) + Len(Inside(2))
  BY <1>4, <1>i, ConcatLength, Zenon
<1>6. InFlight \in Seq(Decisions) /\ Len(InFlight) = Len(c2) + Len(Inside(1))
  BY <1>5, <1>i, ConcatLength, Zenon DEF InFlight
<1>7. Len(InFlight) = reserved
  <2>1. Len(InFlight) = Fifo!Count + Valid(4) + Valid(3) + Valid(2) + Valid(1)
    BY <1>1, <1>i, <1>3, <1>4, <1>5, <1>6, Zenon
  <2>2. Fifo!Count \in Nat
    BY FifoFlags, FifoDepth
  <2> QED BY <2>1, <2>2 DEF PipeInv, CreditExact, InPipe, Valid
<1> QED BY <1>1, <1>2, <1>6, <1>7

(* An edge takes the oldest decision if it delivers one and adds the       *)
(* decision of the entry it accepts.                                       *)
LEMMA EdgeQueue ==
  ASSUME PipeInv, NEW offered \in Items \cup {Bubble}, NEW outReady \in BOOLEAN,
         Edge(offered, outReady)
  PROVE  LET accept  == offered # Bubble /\ InReady
             deliver == OutValid /\ outReady
             rest    == IF deliver THEN Tail(InFlight) ELSE InFlight
         IN  /\ deliver => InFlight # <<>>
             /\ rest \in Seq(Decisions)
             /\ InFlight' = IF accept THEN Append(rest, Decision(offered)) ELSE rest
<1> DEFINE accept  == offered # Bubble /\ InReady
           deliver == OutValid /\ outReady
           Rest(q) == IF deliver THEN Tail(q) ELSE q
           new == IF accept THEN <<Decision(offered)>> ELSE <<>>
           c == Fifo!Contents
           c4 == c \o Inside(4)
           c3 == c4 \o Inside(3)
           c2 == c3 \o Inside(2)
<1>1. /\ c \in Seq(Decisions)
      /\ \A i \in Stages : Inside(i) \in Seq(Decisions)
      /\ InFlight \in Seq(Decisions)
  BY InsideWords
<1>2. /\ deliver => c # <<>>
      /\ c' = IF stage[4] = Bubble THEN Rest(c)
              ELSE Append(Rest(c), Decision(stage[4]))
  BY FifoEdge
<1>3. Rest(c) \in Seq(Decisions)
  BY <1>1, <1>2, HeadTailProperties
<1>4. c' = Rest(c) \o Inside(4)
  <2>1. CASE stage[4] = Bubble
    BY <1>2, <1>3, <2>1, ConcatEmptySeq DEF Inside
  <2>2. CASE stage[4] # Bubble
    <3>1. Decision(stage[4]) \in Decisions
      BY <2>2 DEF PipeInv, TypeOK, Stages, Decisions
    <3> QED BY <1>2, <1>3, <2>2, <3>1, AppendIsConcat DEF Inside
  <2> QED BY <2>1, <2>2
<1>5. Inside(1)' = new
  BY DEF Edge, Inside, Stages
<1>6. Inside(2)' = Inside(1) /\ Inside(3)' = Inside(2) /\ Inside(4)' = Inside(3)
  BY DEF Edge, Inside, Stages
<1>7. InFlight' = ((((Rest(c) \o Inside(4)) \o Inside(3)) \o Inside(2)) \o Inside(1)) \o new
  BY <1>4, <1>5, <1>6 DEF InFlight
(* Taking the head of the FIFO takes the head of the whole. *)
<1>i. /\ Inside(1) \in Seq(Decisions) /\ Inside(2) \in Seq(Decisions)
      /\ Inside(3) \in Seq(Decisions) /\ Inside(4) \in Seq(Decisions)
  BY <1>1 DEF Stages
<1>8. /\ c4 \in Seq(Decisions) /\ c3 \in Seq(Decisions) /\ c2 \in Seq(Decisions)
  BY <1>1, <1>i, ConcatLength
<1>9. /\ deliver => InFlight # <<>>
      /\ (((Rest(c) \o Inside(4)) \o Inside(3)) \o Inside(2)) \o Inside(1) = Rest(InFlight)
  <2>1. CASE ~deliver
    BY <2>1 DEF InFlight
  <2>2. CASE deliver
    <3>1. c4 # <<>> /\ Tail(c4) = Tail(c) \o Inside(4)
      BY <1>1, <1>i, <1>2, <2>2, TailConcat
    <3>2. c3 # <<>> /\ Tail(c3) = Tail(c4) \o Inside(3)
      <4> HIDE DEF c4
      <4> QED BY <1>i, <1>8, <3>1, TailConcat
    <3>3. c2 # <<>> /\ Tail(c2) = Tail(c3) \o Inside(2)
      <4> HIDE DEF c3
      <4> QED BY <1>i, <1>8, <3>2, TailConcat
    <3>4. InFlight # <<>> /\ Tail(InFlight) = Tail(c2) \o Inside(1)
      <4>1. InFlight = c2 \o Inside(1)
        BY DEF InFlight
      <4> HIDE DEF c2
      <4> QED BY <1>i, <1>8, <3>3, <4>1, TailConcat
    <3> QED BY <2>2, <3>1, <3>2, <3>3, <3>4
  <2> QED BY <2>1, <2>2
<1>10. Rest(InFlight) \in Seq(Decisions)
  BY <1>1, <1>9, HeadTailProperties
<1>11. InFlight' = Rest(InFlight) \o new
  BY <1>7, <1>9
<1>12. accept => Decision(offered) \in Decisions
  BY DEF Decisions
<1>13. InFlight' = IF accept THEN Append(Rest(InFlight), Decision(offered))
                   ELSE Rest(InFlight)
  BY <1>10, <1>11, <1>12, AppendIsConcat, ConcatEmptySeq
<1> QED BY <1>9, <1>10, <1>13

-----------------------------------------------------------------------------
(* Every step keeps the types and the credits.                             *)
LEMMA PipeInvHolds == Spec => []PipeInv
<1>1. Init => PipeInv
  BY InitHolds
<1>2. PipeInv /\ [Next]_vars => PipeInv'
  BY EdgeHolds, ResetHolds, StutterHolds DEF Next, EdgeWhen
<1> QED BY <1>1, <1>2, PTL DEF Spec

(* The credits held are exactly the entries inside the pipe and its FIFO,  *)
(* and never more than FIFO_DEPTH: for every depth the module accepts.     *)
THEOREM CreditsExact == Spec => []CreditExact
<1>1. PipeInv => CreditExact
  BY DEF PipeInv
<1> QED BY <1>1, PipeInvHolds, PTL

(* No decision ever leaves the pipe to find the FIFO full. *)
THEOREM DecisionsKept == Spec => []NeverDropped
<1>1. PipeInv => NeverDropped
  <2> SUFFICES ASSUME PipeInv, stage[4] # Bubble
               PROVE  ~Fifo!IsFull
    BY DEF NeverDropped
  <2>1. InPipe >= 1
    BY DEF InPipe, Valid
  <2> QED BY <2>1, FifoFlags, FifoDepth
<1> QED BY <1>1, PipeInvHolds, PTL

(* The pipe and its FIFO are one queue of FIFO_DEPTH places: every         *)
(* accepted entry gives its own decision, once and in order.               *)
THEOREM PipeIsQueue == Spec => ImplementsQueue
<1>1. Init => BQ!Init
  BY InitHolds DEF BQ!Init
<1>2. PipeInv /\ [Next]_vars => [BQ!Next]_InFlight
  <2> SUFFICES ASSUME PipeInv, [Next]_vars
               PROVE  [BQ!Next]_InFlight
    OBVIOUS
  <2>1. CASE Reset
    BY <2>1, ResetHolds DEF BQ!Next, BQ!Clear
  <2>2. ASSUME NEW offered \in Items \cup {Bubble}, NEW outReady \in BOOLEAN,
               Edge(offered, outReady)
        PROVE  [BQ!Next]_InFlight
    <3> DEFINE accept  == offered # Bubble /\ InReady
               deliver == OutValid /\ outReady
    <3>1. /\ deliver => InFlight # <<>>
          /\ InFlight' = IF accept
                         THEN Append(IF deliver THEN Tail(InFlight) ELSE InFlight,
                                     Decision(offered))
                         ELSE IF deliver THEN Tail(InFlight) ELSE InFlight
      BY <2>2, EdgeQueue
    <3>2. accept => Decision(offered) \in Decisions /\ Len(InFlight) < FIFO_DEPTH
      BY InsideWords DEF Decisions, InReady
    <3>3. CASE accept /\ deliver
      BY <3>1, <3>2, <3>3 DEF BQ!Next, BQ!PutAndTake
    <3>4. CASE accept /\ ~deliver
      BY <3>1, <3>2, <3>4 DEF BQ!Next, BQ!Put
    <3>5. CASE ~accept /\ deliver
      BY <3>1, <3>5 DEF BQ!Next, BQ!Take
    <3>6. CASE ~accept /\ ~deliver
      BY <3>1, <3>6
    <3> QED BY <3>3, <3>4, <3>5, <3>6
  <2>3. CASE UNCHANGED vars
    BY <2>3, StutterHolds
  <2> QED BY <2>1, <2>2, <2>3 DEF Next, EdgeWhen
<1> QED BY <1>1, <1>2, PipeInvHolds, PTL DEF Spec, ImplementsQueue, BQ!Spec

(* Before a consumer that is always willing, a FIFO of more than five      *)
(* places lets the pipe take an entry on every edge.                       *)
THEOREM FullRateHolds ==
  ASSUME FIFO_DEPTH > 5
  PROVE  StreamSpec => []FullRate
<1> DEFINE StreamInv == PipeInv /\ Fifo!Count <= 1
<1>1. Init => StreamInv
  <2>1. Init => Fifo!Count = 0
    BY FifoDepth DEF Init, Fifo!Init, Fifo!Count
  <2> QED BY <2>1, InitHolds
<1>2. StreamInv /\ [StreamNext]_vars => StreamInv'
  <2> SUFFICES ASSUME StreamInv, [StreamNext]_vars
               PROVE  StreamInv'
    OBVIOUS
  <2>1. CASE Reset
    <3>1. Fifo!Count' = 0
      BY <2>1, FifoDepth DEF Reset, Fifo!Reset, Fifo!Count
    <3> QED BY <2>1, <3>1, ResetHolds
  <2>2. ASSUME NEW offered \in Items \cup {Bubble}, Edge(offered, TRUE)
        PROVE  StreamInv'
    <3>1. Fifo!Count' = Fifo!Count + Valid(4) - (IF OutValid THEN 1 ELSE 0)
      BY <2>2, FifoEdge
    <3>2. Fifo!Count \in Nat /\ (OutValid <=> Fifo!Count # 0)
      BY FifoFlags, FifoDepth DEF OutValid
    <3>3. Fifo!Count' <= 1
      BY <3>1, <3>2 DEF Valid
    <3> QED BY <2>2, <3>3, EdgeHolds
  <2>3. CASE UNCHANGED vars
    <3>1. Fifo!Count' = Fifo!Count
      BY <2>3 DEF vars, Fifo!Count
    <3> QED BY <2>3, <3>1, StutterHolds
  <2> QED BY <2>1, <2>2, <2>3 DEF StreamNext, EdgeWhen
<1>3. StreamInv => FullRate
  <2> SUFFICES ASSUME StreamInv
               PROVE  FullRate
    OBVIOUS
  <2>1. InPipe \in 0 .. 4
    BY DEF InPipe, Valid
  <2>2. Fifo!Count \in Nat
    BY FifoFlags, FifoDepth
  <2> QED BY <2>1, <2>2, FifoDepth DEF PipeInv, CreditExact, InReady, FullRate
<1> QED BY <1>1, <1>2, <1>3, PTL DEF StreamSpec
=============================================================================
