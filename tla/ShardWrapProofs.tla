--------------------------- MODULE ShardWrapProofs ---------------------------
(***************************************************************************)
(* Proofs about Len and about counters that wrap around, for any number of *)
(* writers and values and at least two slots.                              *)
(*                                                                         *)
(* Len never counts too many: both counters only grow, so the readPos that *)
(* it loads late can only make its difference smaller.                     *)
(*                                                                         *)
(* Counters that wrap around change nothing: under the assumption on the   *)
(* scheduler (MaxLag), every step the code takes with counters of a fixed  *)
(* width is a step of Shard.  Of two numbers that the code compares,       *)
(* neither is ahead of the other by Modulus, so equal remainders mean      *)
(* equal numbers.  For the sequence number of a slot this follows from     *)
(* SeqOK: it belongs to a position of the current lap.                     *)
(***************************************************************************)
EXTENDS ShardWrap, ShardProofs

-------------------------------------------------------------------------------
(* Len on counters without a width *)

\* What the observer knows between its two loads.
ObserverOK ==
    /\ lpc \in {"idle", "loadRead"}
    /\ lpc = "loadRead" =>
          /\ lwrite \in Nat /\ lwrite <= writePos
          /\ lstart \in Nat /\ lwrite - readPos <= lstart

LenInv == Inv /\ ObserverOK

-------------------------------------------------------------------------------
\* The positions are counted by the histories.
LEMMA Counted ==
  ASSUME Inv
  PROVE  /\ writePos \in Nat /\ readPos \in Nat /\ readPos <= writePos
         /\ Outstanding = writePos - readPos
BY Window DEF Inv, CountersOK, Outstanding

\* A counter only moves up, by one.
LEMMA CountersGrow ==
  ASSUME Inv, [Next]_vars
  PROVE  writePos <= writePos' /\ readPos <= readPos'
<1> USE Counted, Window
<1>1. ASSUME NEW w \in Writers, WriterStep(w) PROVE writePos <= writePos' /\ readPos <= readPos'
  BY <1>1 DEF WriterStep, LoadWritePos, FindFree, Reject, Claim, LoseClaim, StoreValue,
     Publish, shared
<1>2. ASSUME NEW w \in Writers, NEW v \in Values, StartWrite(w, v)
      PROVE  writePos <= writePos' /\ readPos <= readPos'
  BY <1>2 DEF StartWrite, shared
<1>3. CASE ReaderStep
  BY <1>3 DEF ReaderStep, StartRead, ReadEmpty, FindReady, ReadValue, ClearValue,
     ReleaseSlot, AdvanceReadPos, shared
<1>4. CASE UNCHANGED vars
  BY <1>4 DEF vars
<1> QED
  BY <1>1, <1>2, <1>3, <1>4 DEF Next

LEMMA InitLenInv == LenInit => LenInv
  BY InitInv DEF LenInit, LenInv, ObserverOK

LEMMA NextLenInv ==
  ASSUME Size >= 2, LenInv, [LenNext]_<<vars, lenVars>>
  PROVE  LenInv'
<1> USE DEF LenInv
<1>1. CASE Next /\ UNCHANGED lenVars
  <2>1. Inv'
    BY <1>1, NextInv
  <2>2. writePos <= writePos' /\ readPos <= readPos'
    BY <1>1, CountersGrow
  <2>3. ObserverOK'
    BY <1>1, <2>1, <2>2, Counted DEF ObserverOK, lenVars, Inv, TypeOK
  <2> QED
    BY <2>1, <2>3
<1>2. CASE LenLoadWritePos
  <2>1. Inv'
    BY <1>2, NextInv DEF LenLoadWritePos
  <2>2. writePos' = writePos /\ readPos' = readPos
    BY <1>2 DEF LenLoadWritePos, vars
  <2>3. ObserverOK'
    BY <1>2, <2>2, Counted DEF ObserverOK, LenLoadWritePos
  <2> QED
    BY <2>1, <2>3
<1>3. CASE LenLoadReadPos
  <2>1. Inv'
    BY <1>3, NextInv DEF LenLoadReadPos
  <2> QED
    BY <1>3, <2>1 DEF ObserverOK, LenLoadReadPos
<1>4. CASE UNCHANGED <<vars, lenVars>>
  <2>1. Inv'
    BY <1>4, NextInv
  <2> QED
    BY <1>4, <2>1 DEF ObserverOK, lenVars, vars
<1> QED
  BY <1>1, <1>2, <1>3, <1>4 DEF LenNext

THEOREM LenInvariance == ASSUME Size >= 2 PROVE LenSpec => []LenInv
<1>1. LenInv /\ [LenNext]_<<vars, lenVars>> => LenInv'
  BY NextLenInv
<1> QED
  BY <1>1, InitLenInv, PTL DEF LenSpec

\* Len (ring.go:220-228) takes no snapshot of the two counters, and yet what it
\* answers is at most what the shard held when it began and at most what it holds
\* when it ends.
THEOREM NeverOvercounts == ASSUME Size >= 2 PROVE LenSpec => LenNeverOvercounts
<1>1. ASSUME LenInv, LenInv', [LenNext]_<<vars, lenVars>>, lpc = "loadRead", lpc' = "idle"
      PROVE  lresult' <= lstart /\ lresult' <= Outstanding
  <2>1. lresult' = Length(lwrite, readPos)
    BY <1>1 DEF LenNext, LenLoadWritePos, LenLoadReadPos, lenVars
  <2> QED
    BY <1>1, <2>1, Counted DEF LenInv, ObserverOK, Length
<1> QED
  BY <1>1, LenInvariance, PTL DEF LenSpec, LenNeverOvercounts

-------------------------------------------------------------------------------
(* Counters that wrap around *)

\* A writer that is about to use its copy of writePos has not been left behind.
LagOK ==
    \A w \in Writers : wpc[w] \in {"check", "claim"} => writePos - wpos[w] <= MaxLag

WrapInv == LenInv /\ LagOK

-------------------------------------------------------------------------------
LEMMA ModulusFacts ==
  ASSUME Size >= 2
  PROVE  Modulus \in Nat \ {0} /\ MaxLag \in Nat /\ Size < Modulus /\ MaxLag + Size <= Modulus
BY WidthAssumption, SizeAssumption

\* Numbers less than Modulus apart are told apart.
LEMMA LowApart ==
  ASSUME Size >= 2, NEW p \in Nat, NEW q \in Nat, p < q + Modulus, q < p + Modulus,
         Low(p) = Low(q)
  PROVE  p = q
<1>1. CASE p < q
  BY <1>1, ModApart, ModulusFacts DEF Low
<1>2. CASE q < p
  BY <1>2, ModApart, ModulusFacts DEF Low
<1> QED
  BY <1>1, <1>2

\* The sequence number of any slot is that of a position of the current lap.
LEMMA SeqInLap ==
  ASSUME Inv, NEW p \in Nat
  PROVE  \E q \in Released .. Released + Size - 1 :
             seq[Slot(p)] = IF q < writePos /\ ~Claimed(q) THEN q + 1 ELSE q
<1>1. Released \in Nat /\ Size \in Nat \ {0}
  BY Window, SizeAssumption
<1>2. PICK q \in Released .. Released + Size - 1 : q % Size = p % Size
  BY <1>1, ModWindow
<1> QED
  BY <1>2 DEF Slot, Inv, SeqOK

\* The test of the slot in write (ring.go:111).
LEMMA SlotFreeExact ==
  ASSUME Size >= 2, WrapInv, NEW w \in Writers, wpc[w] = "check"
  PROVE  SlotFreeLow(w) <=> SlotFree(w)
<1>1. /\ wpos[w] \in Nat /\ wpos[w] <= writePos /\ writePos - wpos[w] <= MaxLag
      /\ Released \in Nat /\ writePos \in Nat
      /\ Released <= writePos /\ writePos <= Released + Size
  BY Window DEF WrapInv, LenInv, Inv, LagOK, WritersOK, CountersOK
<1>2. PICK q \in Released .. Released + Size - 1 :
          seq[Slot(wpos[w])] = IF q < writePos /\ ~Claimed(q) THEN q + 1 ELSE q
  BY <1>1, SeqInLap DEF WrapInv, LenInv
<1>3. /\ seq[Slot(wpos[w])] \in Nat
      /\ seq[Slot(wpos[w])] < wpos[w] + Modulus
      /\ wpos[w] < seq[Slot(wpos[w])] + Modulus
  BY <1>1, <1>2, ModulusFacts, SizeAssumption
<1> QED
  BY <1>1, <1>3, LowApart DEF SlotFreeLow, SlotFree

\* The comparison inside the compare-and-swap (ring.go:118).
LEMMA ClaimExact ==
  ASSUME Size >= 2, WrapInv, NEW w \in Writers, wpc[w] = "claim"
  PROVE  Low(writePos) = Low(wpos[w]) <=> writePos = wpos[w]
<1>1. /\ wpos[w] \in Nat /\ wpos[w] <= writePos /\ writePos - wpos[w] <= MaxLag
      /\ writePos \in Nat
  BY Window DEF WrapInv, LenInv, Inv, LagOK, WritersOK
<1>2. writePos < wpos[w] + Modulus /\ wpos[w] < writePos + Modulus
  BY <1>1, ModulusFacts, SizeAssumption
<1> QED
  BY <1>1, <1>2, LowApart

\* The test of the head in tryRead (ring.go:157).
LEMMA HeadReadyExact ==
  ASSUME Size >= 2, WrapInv, rpc = "check"
  PROVE  HeadReadyLow <=> HeadReady
<1>1. readPos \in Nat /\ Released = readPos /\ readPos + 1 \in Nat
  BY Window DEF WrapInv, LenInv
<1>2. seq[Slot(readPos)] \in {readPos, readPos + 1}
  BY <1>1, SizeAssumption DEF WrapInv, LenInv, Inv, SeqOK
<1>3. seq[Slot(readPos)] \in Nat /\ seq[Slot(readPos)] < readPos + 1 + Modulus
      /\ readPos + 1 < seq[Slot(readPos)] + Modulus
  BY <1>1, <1>2, ModulusFacts, SizeAssumption
<1> QED
  BY <1>1, <1>3, LowApart DEF HeadReadyLow, HeadReady

-------------------------------------------------------------------------------
LEMMA WriterStepWide ==
  ASSUME Size >= 2, WrapInv, NEW w \in Writers, WriterStepLow(w)
  PROVE  WriterStep(w)
<1>1. CASE FindFreeLow(w)
  BY <1>1, SlotFreeExact DEF FindFreeLow, FindFree, WriterStep
<1>2. CASE RejectLow(w)
  BY <1>2, SlotFreeExact DEF RejectLow, Reject, WriterStep
<1>3. CASE ClaimLow(w)
  BY <1>3, ClaimExact DEF ClaimLow, Claim, WriterStep
<1>4. CASE LoseClaimLow(w)
  BY <1>4, ClaimExact DEF LoseClaimLow, LoseClaim, WriterStep
<1> QED
  BY <1>1, <1>2, <1>3, <1>4 DEF WriterStepLow, WriterStep

LEMMA ReaderStepWide ==
  ASSUME Size >= 2, WrapInv, ReaderStepLow
  PROVE  ReaderStep
<1>1. CASE ReadEmptyLow
  BY <1>1, HeadReadyExact DEF ReadEmptyLow, ReadEmpty, ReaderStep
<1>2. CASE FindReadyLow
  BY <1>2, HeadReadyExact DEF FindReadyLow, FindReady, ReaderStep
<1> QED
  BY <1>1, <1>2 DEF ReaderStepLow, ReaderStep

LEMMA StepWide ==
  ASSUME Size >= 2, WrapInv, [NextLow]_<<vars, lenVars>>
  PROVE  [Next]_vars
<1>1. ASSUME NEW w \in Writers, WriterStepLow(w) PROVE Next
  BY <1>1, WriterStepWide DEF Next
<1>2. ASSUME NEW w \in Writers, NEW v \in Values, StartWrite(w, v) PROVE Next
  BY <1>2 DEF Next
<1>3. ASSUME ReaderStepLow PROVE Next
  BY <1>3, ReaderStepWide DEF Next
<1> QED
  BY <1>1, <1>2, <1>3 DEF NextLow, LenLoadWritePos, LenLoadReadPosLow

-------------------------------------------------------------------------------
(* The invariant *)

LEMMA InitWrapInv == LenInit => WrapInv
<1> SUFFICES ASSUME LenInit PROVE WrapInv
  OBVIOUS
<1>1. \A w \in Writers : wpc[w] = "idle"
  BY DEF LenInit, Init
<1> QED
  BY <1>1, InitLenInv DEF WrapInv, LagOK

LEMMA LagStep ==
  ASSUME Size >= 2, WrapInv, [NextLow]_<<vars, lenVars>>
  PROVE  LagOK'
<1> USE DEF WrapInv, LenInv
<1>1. TypeOK /\ writePos \in Nat
  BY DEF Inv, TypeOK
<1>2. ASSUME NEW w \in Writers, ClaimLow(w) PROVE LagOK'
  <2>1. ASSUME NEW x \in Writers, wpc'[x] \in {"check", "claim"}
        PROVE  writePos' - wpos'[x] <= MaxLag
    <3>1. wpc[x] \in {"check", "claim"} /\ wpos'[x] = wpos[x]
      BY <1>1, <1>2, <2>1 DEF ClaimLow, Goto, TypeOK
    <3> QED
      BY <1>2, <3>1 DEF ClaimLow, NobodyFarBehind
  <2> QED
    BY <2>1 DEF LagOK
<1>3. ASSUME NEW w \in Writers, LoadWritePos(w) PROVE LagOK'
  <2>1. ASSUME NEW x \in Writers, wpc'[x] \in {"check", "claim"}
        PROVE  writePos' - wpos'[x] <= MaxLag
    <3>1. CASE x = w
      BY <1>1, <1>3, <3>1, ModulusFacts DEF LoadWritePos, TypeOK, shared
    <3>2. CASE x # w
      BY <1>1, <1>3, <2>1, <3>2 DEF LoadWritePos, TypeOK, shared, LagOK
    <3> QED
      BY <3>1, <3>2
  <2> QED
    BY <2>1 DEF LagOK
<1>4. ASSUME NEW w \in Writers,
             FindFreeLow(w) \/ RejectLow(w) \/ LoseClaimLow(w) \/ StoreValue(w) \/ Publish(w)
      PROVE  LagOK'
  <2>1. ASSUME NEW x \in Writers, wpc'[x] \in {"check", "claim"}
        PROVE  writePos' - wpos'[x] <= MaxLag
    <3>1. wpc[x] \in {"check", "claim"} /\ wpos'[x] = wpos[x] /\ writePos' = writePos
      BY <1>1, <1>4, <2>1 DEF FindFreeLow, RejectLow, LoseClaimLow, StoreValue, Publish,
         Goto, Return, TypeOK, shared
    <3> QED
      BY <3>1 DEF LagOK
  <2> QED
    BY <2>1 DEF LagOK
<1>5. ASSUME NEW w \in Writers, NEW v \in Values, StartWrite(w, v) PROVE LagOK'
  <2>1. ASSUME NEW x \in Writers, wpc'[x] \in {"check", "claim"}
        PROVE  writePos' - wpos'[x] <= MaxLag
    <3>1. wpc[x] \in {"check", "claim"} /\ wpos'[x] = wpos[x] /\ writePos' = writePos
      BY <1>1, <1>5, <2>1 DEF StartWrite, TypeOK, shared
    <3> QED
      BY <3>1 DEF LagOK
  <2> QED
    BY <2>1 DEF LagOK
<1>6. CASE ReaderStepLow
  <2>1. UNCHANGED <<writePos, wpc, wpos>>
    BY <1>6 DEF ReaderStepLow, StartRead, ReadEmptyLow, FindReadyLow, ReadValue, ClearValue,
       ReleaseSlot, AdvanceReadPos, shared, writerVars
  <2> QED
    BY <2>1 DEF LagOK
<1>7. CASE UNCHANGED vars
  BY <1>7 DEF LagOK, vars
<1> QED
  BY <1>2, <1>3, <1>4, <1>5, <1>6, <1>7
  DEF NextLow, WriterStepLow, LenLoadWritePos, LenLoadReadPosLow

LEMMA NextWrapInv ==
  ASSUME Size >= 2, WrapInv, [NextLow]_<<vars, lenVars>>
  PROVE  WrapInv'
<1>1. [Next]_vars
  BY StepWide
<1>2. Inv'
  BY <1>1, NextInv DEF WrapInv, LenInv
<1>3. LagOK'
  BY LagStep
<1>4. writePos <= writePos' /\ readPos <= readPos'
  BY <1>1, CountersGrow DEF WrapInv, LenInv
<1>5. /\ writePos \in Nat /\ readPos \in Nat /\ writePos' \in Nat /\ readPos' \in Nat
      /\ Outstanding = writePos - readPos /\ readPos <= writePos
  BY <1>2, Counted DEF WrapInv, LenInv, Inv, TypeOK
<1>6. ObserverOK'
  <2>1. CASE UNCHANGED lenVars
    BY <2>1, <1>4, <1>5 DEF WrapInv, LenInv, ObserverOK, lenVars
  <2>2. CASE LenLoadWritePos
    BY <2>2, <1>5 DEF ObserverOK, LenLoadWritePos, vars
  <2>3. CASE LenLoadReadPosLow
    BY <2>3 DEF ObserverOK, LenLoadReadPosLow
  <2> QED
    BY <2>1, <2>2, <2>3 DEF NextLow
<1> QED
  BY <1>2, <1>3, <1>6 DEF WrapInv, LenInv

THEOREM WrapInvariance == ASSUME Size >= 2 PROVE SpecLow => []WrapInv
<1>1. WrapInv /\ [NextLow]_<<vars, lenVars>> => WrapInv'
  BY NextWrapInv
<1> QED
  BY <1>1, InitWrapInv, PTL DEF SpecLow

\* With counters of a fixed width the shard does only what Shard allows, however
\* often they have wrapped around, as long as no goroutine sleeps through nearly
\* a whole round of the counter between its load and its compare-and-swap
\* (ring.go:101-175).  All theorems about Shard then hold of it.
THEOREM WrapIsHarmless == ASSUME Size >= 2 PROVE SpecLow => ImplementsWide
<1>1. LenInit => Init
  BY DEF LenInit
<1>2. WrapInv /\ [NextLow]_<<vars, lenVars>> => [Next]_vars
  BY StepWide
<1> QED
  BY <1>1, <1>2, WrapInvariance, PTL DEF SpecLow, ImplementsWide, Spec

\* So the shard with counters that wrap is the bounded queue, returns every accepted
\* value once and in order, and lets no two goroutines touch one slot.value.
THEOREM QueueDespiteWrap ==
  ASSUME Size >= 2
  PROVE  SpecLow => ImplementsQueue /\ []Fifo /\ []NoDataRace
<1>1. Spec => ImplementsQueue
  BY Refinement
<1>2. Spec => []Fifo
  BY Delivery
<1>3. Spec => []NoDataRace
  BY RaceFreedom
<1>4. SpecLow => Spec
  BY WrapIsHarmless DEF ImplementsWide
<1> QED
  BY <1>1, <1>2, <1>3, <1>4, PTL

\* Nor are its refusals less justified: a refused write met a full shard or lost a
\* race, one that is accepted had room, and an empty tryRead found nothing written.
THEOREM AnswersDespiteWrap ==
  ASSUME Size >= 2
  PROVE  SpecLow => RejectionJustified /\ AcceptedOnlyWithRoom /\ EmptyJustified
<1>1. Spec => RejectionJustified
  BY Rejections
<1>2. Spec => AcceptedOnlyWithRoom
  BY Acceptance
<1>3. Spec => EmptyJustified
  BY Emptiness
<1>4. SpecLow => Spec
  BY WrapIsHarmless DEF ImplementsWide
<1> QED
  BY <1>1, <1>2, <1>3, <1>4, PTL

\* Len, whose two loads are not a snapshot, counts too many only if the consumer
\* passes the loaded writePos and wraps around in between (ring.go:220-228).
THEOREM LenWraps == ASSUME Size >= 2 PROVE SpecLow => LenOvercountsOnlyAtWrap
<1>1. ASSUME WrapInv, WrapInv', [NextLow]_<<vars, lenVars>>,
             lpc = "loadRead", lpc' = "idle", ~ReaderWrapped
      PROVE  lresult' <= lstart /\ lresult' <= Outstanding
  <2> DEFINE a == readPos \div Modulus
             b == lwrite \div Modulus
             r == readPos % Modulus
             l == lwrite % Modulus
  <2>1. lresult' = IF l > r THEN l - r ELSE 0
    BY <1>1 DEF NextLow, LenLoadWritePos, LenLoadReadPosLow, lenVars, Length, Low
  <2>2. /\ lwrite \in Nat /\ readPos \in Nat /\ writePos \in Nat /\ lstart \in Nat
        /\ lwrite <= writePos /\ lwrite - readPos <= lstart
        /\ Outstanding = writePos - readPos /\ readPos <= writePos
    BY <1>1, Counted DEF WrapInv, LenInv, ObserverOK
  <2>3. a \in Nat /\ r \in 0 .. Modulus - 1 /\ readPos = Modulus * a + r
    BY <2>2, DivMod, ModulusFacts
  <2>4. b \in Nat /\ l \in 0 .. Modulus - 1 /\ lwrite = Modulus * b + l
    BY <2>2, DivMod, ModulusFacts
  <2>5. a <= b
    BY <1>1, <2>3, <2>4 DEF ReaderWrapped
  <2> HIDE DEF a, b, r, l
  <2>6. Modulus * a \in Int /\ Modulus * b \in Int /\ Modulus * a <= Modulus * b
    <3>1. CASE a = b
      BY <3>1, <2>3, ModulusFacts
    <3>2. CASE a < b
      BY <3>2, <2>3, <2>4, Multiples, ModulusFacts
    <3> QED
      BY <3>1, <3>2, <2>3, <2>4, <2>5
  <2> QED
    BY <2>1, <2>2, <2>3, <2>4, <2>6, ModulusFacts
<1> QED
  BY <1>1, WrapInvariance, PTL DEF SpecLow, LenOvercountsOnlyAtWrap
===============================================================================
