----------------------------- MODULE ShardProofs -----------------------------
(***************************************************************************)
(* Proofs about Shard: type correctness for every Size, the inductive      *)
(* invariant Inv for every Size of at least two slots, and what follows    *)
(* from it.  A shard with one slot does not satisfy Inv (see the README).  *)
(***************************************************************************)
EXTENDS Shard, Arithmetic, TLAPS

-------------------------------------------------------------------------------
(* Positions and slots *)

LEMMA SlotRange == \A p \in Nat : Slot(p) \in Slots
  BY SizeAssumption DEF Slot, Slots

\* A position is a number of whole laps and a slot.
LEMMA LapAndSlot ==
  ASSUME NEW p \in Nat
  PROVE  p \div Size \in Nat /\ p = Size * (p \div Size) + Slot(p)
<1>1. p \div Size \in Nat
  BY SizeAssumption
<1>2. p = Size * (p \div Size) + Slot(p)
  BY SizeAssumption DEF Slot
<1> QED
  BY <1>1, <1>2

\* Two positions of the same lap window use different slots.
LEMMA SlotsApart ==
  ASSUME NEW p \in Nat, NEW q \in Nat, p < q, q < p + Size
  PROVE  Slot(p) # Slot(q)
<1>1. Size \in Nat \ {0}
  BY SizeAssumption
<1> QED
  BY <1>1, ModApart DEF Slot

\* One lap later the same slot is used again.
LEMMA NextLap ==
  ASSUME NEW p \in Nat
  PROVE  Slot(p + Size) = Slot(p)
<1>1. Size \in Nat \ {0} /\ Size * 1 = Size
  BY SizeAssumption
<1>2. (p + Size * 1) % Size = p % Size
  BY <1>1, ModShift
<1> QED
  BY <1>1, <1>2 DEF Slot

-------------------------------------------------------------------------------
(* Type correctness *)

LEMMA InitTypeOK == Init => TypeOK
<1> SUFFICES ASSUME Init PROVE TypeOK
  OBVIOUS
<1> USE DEF Init
<1>1. seq \in [Slots -> Nat]
  BY SizeAssumption DEF Slots
<1>2. value \in [Slots -> Values] /\ rval \in Values
  BY NilAssumption
<1>3. wval \in [Writers -> Values]
  BY NilAssumption
<1> QED
  BY <1>1, <1>2, <1>3 DEF TypeOK

LEMMA NextTypeOK == TypeOK /\ [Next]_vars => TypeOK'
<1> SUFFICES ASSUME TypeOK, [Next]_vars PROVE TypeOK'
  OBVIOUS
<1> USE DEF TypeOK, shared, writerVars, readerVars, history, Goto, Return
<1>1. ASSUME NEW w \in Writers, NEW v \in Values, StartWrite(w, v) PROVE TypeOK'
  BY <1>1 DEF StartWrite
<1>2. ASSUME NEW w \in Writers, LoadWritePos(w) PROVE TypeOK'
  BY <1>2 DEF LoadWritePos
<1>3. ASSUME NEW w \in Writers, FindFree(w) PROVE TypeOK'
  BY <1>3 DEF FindFree
<1>4. ASSUME NEW w \in Writers, Reject(w) PROVE TypeOK'
  BY <1>4, NilAssumption DEF Reject
<1>5. ASSUME NEW w \in Writers, Claim(w) PROVE TypeOK'
  BY <1>5 DEF Claim
<1>6. ASSUME NEW w \in Writers, LoseClaim(w) PROVE TypeOK'
  BY <1>6 DEF LoseClaim
<1>7. ASSUME NEW w \in Writers, StoreValue(w) PROVE TypeOK'
  BY <1>7 DEF StoreValue
<1>8. ASSUME NEW w \in Writers, Publish(w) PROVE TypeOK'
  <2>1. wpos[w] + 1 \in Nat
    OBVIOUS
  <2>2. seq' \in [Slots -> Nat]
    BY <1>8, <2>1 DEF Publish
  <2>3. wpos' \in [Writers -> Nat] /\ wval' \in [Writers -> Values]
    BY <1>8, NilAssumption DEF Publish
  <2> QED
    BY <1>8, <2>2, <2>3 DEF Publish
<1>9. ASSUME StartRead \/ ReadEmpty \/ FindReady PROVE TypeOK'
  BY <1>9 DEF StartRead, ReadEmpty, FindReady
<1>10. CASE ReadValue
  BY <1>10, SlotRange DEF ReadValue
<1>11. CASE ClearValue
  BY <1>11, NilAssumption DEF ClearValue
<1>12. CASE ReleaseSlot
  <2>1. readPos + Size \in Nat
    BY SizeAssumption
  <2>2. seq' \in [Slots -> Nat]
    BY <1>12, <2>1 DEF ReleaseSlot
  <2> QED
    BY <1>12, <2>2 DEF ReleaseSlot
<1>13. CASE AdvanceReadPos
  BY <1>13, NilAssumption DEF AdvanceReadPos
<1>14. CASE UNCHANGED vars
  BY <1>14 DEF vars
<1> QED
  BY <1>1, <1>2, <1>3, <1>4, <1>5, <1>6, <1>7, <1>8, <1>9, <1>10, <1>11,
     <1>12, <1>13, <1>14 DEF Next, WriterStep, ReaderStep

\* Every variable keeps its type, whatever the size of the shard and the number
\* of writers: write and tryRead never store anything but positions in the
\* counters and values in the slots.
THEOREM TypeCorrect == Spec => []TypeOK
  BY InitTypeOK, NextTypeOK, PTL DEF Spec

-------------------------------------------------------------------------------
(* The invariant *)

LEMMA SmallSlot == \A p \in Slots : Slot(p) = p
  BY SizeAssumption DEF Slot, Slots

LEMMA InitInv == Init => Inv
<1> SUFFICES ASSUME Init PROVE Inv
  OBVIOUS
<1>1. TypeOK
  BY InitTypeOK
<1>2. Released = 0 /\ Len(accepted) = 0 /\ Len(delivered) = 0
  BY DEF Init, Released
<1>3. CountersOK
  BY <1>2, SizeAssumption DEF Init, CountersOK
<1>4. SeqOK
  <2> SUFFICES ASSUME NEW p \in Released .. Released + Size - 1
               PROVE  seq[Slot(p)] = IF p < writePos /\ ~Claimed(p) THEN p + 1 ELSE p
    BY DEF SeqOK
  <2>1. p \in Slots /\ ~(p < writePos)
    BY <1>2, SizeAssumption DEF Slots, Init
  <2>2. seq[Slot(p)] = p
    BY <2>1, SmallSlot DEF Init
  <2> QED
    BY <2>1, <2>2
<1>5. ValueOK
  BY DEF Init, ValueOK
<1>6. WritersOK
  BY DEF Init, WritersOK, InFlight
<1>7. ReaderOK /\ Fifo
  BY <1>2 DEF Init, ReaderOK, Fifo
<1> QED
  BY <1>1, <1>3, <1>4, <1>5, <1>6, <1>7 DEF Inv

\* A writer's step that neither takes nor gives up a position leaves the slots,
\* the consumer and the claims of everybody alone.
LEMMA QuietWriterStep ==
  ASSUME Inv, TypeOK',
         UNCHANGED <<shared, readerVars, history>>,
         \A x \in Writers :
            /\ InFlight(x)' <=> InFlight(x)
            /\ InFlight(x) => UNCHANGED <<wpc[x], wpos[x], wval[x]>>
            /\ wpos'[x] <= writePos
            /\ (wpc'[x] = "claim" /\ wpos'[x] = writePos) => writePos < Released + Size
  PROVE  Inv'
<1> USE DEF Inv, shared, readerVars, history
<1>1. \A p \in Nat : Claimed(p)' <=> Claimed(p)
  BY DEF Claimed
<1>2. Released' = Released
  BY DEF Released
<1>3. CountersOK' /\ Fifo'
  BY <1>2 DEF CountersOK, Fifo
<1>4. Released \in Nat /\ readPos \in Nat
  BY DEF TypeOK, Released
<1>5. SeqOK'
  <2> SUFFICES ASSUME NEW p \in Released .. Released + Size - 1
               PROVE  seq[Slot(p)] = IF p < writePos /\ ~Claimed(p)' THEN p + 1 ELSE p
    BY <1>2 DEF SeqOK
  <2>1. p \in Nat
    BY <1>4
  <2> QED
    BY <1>1, <2>1 DEF SeqOK
<1>6. ValueOK'
  <2> SUFFICES ASSUME NEW p \in readPos .. writePos - 1, ~Claimed(p)',
                      p = readPos => rpc \notin {"release", "advance"}
               PROVE  value[Slot(p)] = accepted[p + 1]
    BY DEF ValueOK
  <2>1. p \in Nat
    BY <1>4
  <2> QED
    BY <1>1, <2>1 DEF ValueOK
<1>7. WritersOK'
  <2> SUFFICES ASSUME NEW w \in Writers
               PROVE  /\ wpos'[w] <= writePos
                      /\ (wpc'[w] = "claim" /\ wpos'[w] = writePos) => writePos < Released + Size
                      /\ InFlight(w)' =>
                            /\ Released <= wpos'[w]
                            /\ wpos'[w] < writePos
                            /\ accepted[wpos'[w] + 1] = wval'[w]
                            /\ \A x \in Writers \ {w} : InFlight(x)' => wpos'[x] # wpos'[w]
                      /\ wpc'[w] = "publish" => value[Slot(wpos'[w])] = wval'[w]
    BY <1>2 DEF WritersOK
  <2>1. CASE InFlight(w)
    BY <2>1 DEF WritersOK
  <2>2. CASE ~InFlight(w)
    BY <2>2 DEF InFlight
  <2> QED
    BY <2>1, <2>2
<1>8. ReaderOK'
  BY <1>1, <1>4 DEF ReaderOK
<1> QED
  BY <1>3, <1>5, <1>6, <1>7, <1>8

\* The lap window [Released, Released + Size) and the types of the counters, in
\* the form the steps use them.
LEMMA Window ==
  ASSUME Inv
  PROVE  /\ Released \in Nat /\ writePos \in Nat /\ readPos \in Nat
         /\ readPos <= Released
         /\ Released <= readPos + 1
         /\ rpc # "advance" => Released = readPos
         /\ \A w \in Writers : wpos[w] \in Nat
  BY DEF Inv, TypeOK, Released

\* The slot of a position that is next to be written is free exactly when the
\* position belongs to the lap.
LEMMA FreeMeansRoom ==
  ASSUME Inv, Size >= 2, NEW w \in Writers, wpos[w] = writePos, SlotFree(w)
  PROVE  writePos < Released + Size
<1>1. writePos \in Nat /\ Released \in Nat /\ writePos <= Released + Size
  BY Window DEF Inv, CountersOK
<1>2. SUFFICES ASSUME writePos = Released + Size PROVE FALSE
  BY <1>1, SizeAssumption
<1>3. Slot(writePos) = Slot(Released)
  BY <1>1, <1>2, NextLap
<1>4. seq[Slot(Released)] \in {Released, Released + 1}
  BY <1>1, SizeAssumption DEF Inv, SeqOK
<1> QED
  BY <1>1, <1>2, <1>3, <1>4, SizeAssumption DEF SlotFree

LEMMA StartWriteInv ==
  ASSUME Inv, TypeOK', NEW w \in Writers, NEW v \in Values, StartWrite(w, v)
  PROVE  Inv'
<1>1. \A x \in Writers :
        /\ InFlight(x)' <=> InFlight(x)
        /\ InFlight(x) => UNCHANGED <<wpc[x], wpos[x], wval[x]>>
        /\ wpos'[x] = wpos[x]
        /\ wpc'[x] = "claim" => wpc[x] = "claim"
  BY DEF StartWrite, InFlight, Inv, TypeOK
<1> QED
  BY <1>1, QuietWriterStep DEF StartWrite, Inv, WritersOK

LEMMA LoadWritePosInv ==
  ASSUME Inv, TypeOK', NEW w \in Writers, LoadWritePos(w)
  PROVE  Inv'
<1>1. \A x \in Writers :
        /\ InFlight(x)' <=> InFlight(x)
        /\ InFlight(x) => UNCHANGED <<wpc[x], wpos[x], wval[x]>>
        /\ wpos'[x] \in {wpos[x], writePos}
        /\ wpc'[x] = "claim" => wpc[x] = "claim" /\ wpos'[x] = wpos[x]
  BY DEF LoadWritePos, InFlight, Inv, TypeOK
<1>2. \A x \in Writers :
        /\ wpos'[x] <= writePos
        /\ (wpc'[x] = "claim" /\ wpos'[x] = writePos) => writePos < Released + Size
  BY <1>1, Window DEF Inv, WritersOK
<1> QED
  BY <1>1, <1>2, QuietWriterStep DEF LoadWritePos

LEMMA FindFreeInv ==
  ASSUME Inv, TypeOK', Size >= 2, NEW w \in Writers, FindFree(w)
  PROVE  Inv'
<1>1. \A x \in Writers :
        /\ InFlight(x)' <=> InFlight(x)
        /\ InFlight(x) => UNCHANGED <<wpc[x], wpos[x], wval[x]>>
        /\ wpos'[x] = wpos[x]
        /\ x # w => wpc'[x] = wpc[x]
  BY DEF FindFree, Goto, InFlight, Inv, TypeOK
<1>2. wpos[w] = writePos => writePos < Released + Size
  BY FreeMeansRoom DEF FindFree
<1> QED
  BY <1>1, <1>2, QuietWriterStep DEF FindFree, Goto, Inv, WritersOK

LEMMA RejectInv ==
  ASSUME Inv, TypeOK', NEW w \in Writers, Reject(w)
  PROVE  Inv'
<1>1. \A x \in Writers :
        /\ InFlight(x)' <=> InFlight(x)
        /\ InFlight(x) => UNCHANGED <<wpc[x], wpos[x], wval[x]>>
        /\ wpos'[x] \in {wpos[x], 0}
        /\ wpc'[x] = "claim" => wpc[x] = "claim" /\ wpos'[x] = wpos[x]
  BY DEF Reject, Return, InFlight, Inv, TypeOK
<1>2. \A x \in Writers :
        /\ wpos'[x] <= writePos
        /\ (wpc'[x] = "claim" /\ wpos'[x] = writePos) => writePos < Released + Size
  BY <1>1, Window DEF Inv, WritersOK
<1> QED
  BY <1>1, <1>2, QuietWriterStep DEF Reject

LEMMA LoseClaimInv ==
  ASSUME Inv, TypeOK', NEW w \in Writers, LoseClaim(w)
  PROVE  Inv'
<1>1. \A x \in Writers :
        /\ InFlight(x)' <=> InFlight(x)
        /\ InFlight(x) => UNCHANGED <<wpc[x], wpos[x], wval[x]>>
        /\ wpos'[x] = wpos[x]
        /\ wpc'[x] = "claim" => wpc[x] = "claim"
  BY DEF LoseClaim, Goto, InFlight, Inv, TypeOK
<1> QED
  BY <1>1, QuietWriterStep DEF LoseClaim, Inv, WritersOK

\* The compare-and-swap takes a position that is free: no other claim has it,
\* and the lap has room for it.
LEMMA ClaimInv ==
  ASSUME Inv, TypeOK', NEW w \in Writers, Claim(w)
  PROVE  Inv'
<1> USE DEF Inv
<1>1. /\ wpos[w] = writePos
      /\ writePos < Released + Size
      /\ ~InFlight(w)
      /\ writePos' = writePos + 1
      /\ accepted' = Append(accepted, wval[w])
      /\ UNCHANGED <<readPos, seq, value, rpc, rval, delivered, wpos, wval>>
      /\ Released' = Released
  BY Window DEF Claim, Goto, InFlight, WritersOK, readerVars, Released
<1>2. /\ InFlight(w)' /\ wpc'[w] = "store"
      /\ \A x \in Writers \ {w} : wpc'[x] = wpc[x] /\ (InFlight(x)' <=> InFlight(x))
  BY DEF Claim, Goto, InFlight, TypeOK
<1>3. \A p \in Nat : Claimed(p)' <=> (Claimed(p) \/ p = writePos)
  BY <1>1, <1>2 DEF Claimed
<1>4. ~Claimed(writePos)
  BY Window DEF Claimed, WritersOK
<1>5. /\ Len(accepted') = Len(accepted) + 1
      /\ accepted'[writePos + 1] = wval[w]
      /\ \A i \in 1 .. Len(accepted) : accepted'[i] = accepted[i]
  BY <1>1 DEF TypeOK, CountersOK
<1>6. CountersOK'
  BY <1>1, <1>5, Window, SizeAssumption DEF CountersOK
<1>7. SeqOK'
  <2> SUFFICES ASSUME NEW p \in Released .. Released + Size - 1
               PROVE  seq[Slot(p)] = IF p < writePos + 1 /\ ~Claimed(p)' THEN p + 1 ELSE p
    BY <1>1 DEF SeqOK
  <2>1. p \in Nat
    BY Window
  <2>2. seq[Slot(p)] = IF p < writePos /\ ~Claimed(p) THEN p + 1 ELSE p
    BY DEF SeqOK
  <2>3. CASE p = writePos
    BY <1>3, <2>1, <2>2, <2>3
  <2>4. CASE p # writePos
    BY <1>3, <2>1, <2>2, <2>4, Window
  <2> QED
    BY <2>3, <2>4
<1>8. ValueOK'
  <2> SUFFICES ASSUME NEW p \in readPos .. writePos' - 1, ~Claimed(p)',
                      p = readPos => rpc \notin {"release", "advance"}
               PROVE  value[Slot(p)] = accepted'[p + 1]
    BY <1>1 DEF ValueOK
  <2>1. p \in Nat /\ p # writePos /\ ~Claimed(p)
    BY <1>1, <1>3, Window
  <2>2. p \in readPos .. writePos - 1 /\ p + 1 \in 1 .. Len(accepted)
    BY <1>1, <2>1, Window DEF CountersOK
  <2> QED
    BY <1>5, <2>1, <2>2 DEF ValueOK
<1>9. WritersOK'
  <2> SUFFICES ASSUME NEW x \in Writers
               PROVE  /\ wpos[x] <= writePos + 1
                      /\ (wpc'[x] = "claim" /\ wpos[x] = writePos + 1) => writePos + 1 < Released + Size
                      /\ InFlight(x)' =>
                            /\ Released <= wpos[x]
                            /\ wpos[x] < writePos + 1
                            /\ accepted'[wpos[x] + 1] = wval[x]
                            /\ \A y \in Writers \ {x} : InFlight(y)' => wpos[y] # wpos[x]
                      /\ wpc'[x] = "publish" => value[Slot(wpos[x])] = wval[x]
    BY <1>1 DEF WritersOK
  <2>1. wpos[x] <= writePos + 1 /\ wpos[x] # writePos + 1
    BY Window DEF WritersOK
  <2>2. CASE x = w
    <3>1. \A y \in Writers \ {w} : InFlight(y)' => wpos[y] # wpos[w]
      BY <1>1, <1>2, <1>4 DEF Claimed
    <3>2. Released <= wpos[w] /\ wpos[w] < writePos + 1
      BY <1>1, Window DEF CountersOK
    <3> QED
      BY <1>1, <1>2, <1>5, <2>1, <2>2, <3>1, <3>2
  <2>3. CASE x # w
    <3>1. InFlight(x) => wpos[x] + 1 \in 1 .. Len(accepted)
      BY Window DEF WritersOK, CountersOK
    <3>2. InFlight(x) => accepted'[wpos[x] + 1] = wval[x]
      BY <1>5, <3>1 DEF WritersOK
    <3>3. InFlight(x) => Released <= wpos[x] /\ wpos[x] < writePos + 1 /\ wpos[x] # writePos
      BY Window DEF WritersOK
    <3>4. InFlight(x) => \A y \in Writers \ {x} : InFlight(y)' => wpos[y] # wpos[x]
      BY <1>1, <1>2, <3>3 DEF WritersOK
    <3>5. wpc'[x] = "publish" => value[Slot(wpos[x])] = wval[x]
      BY <1>2, <2>3 DEF WritersOK
    <3> QED
      BY <1>2, <2>1, <2>3, <3>2, <3>3, <3>4, <3>5
  <2> QED
    BY <2>2, <2>3
<1>10. ReaderOK'
  <2>1. rpc \in {"read", "clear", "release"} => readPos < writePos + 1 /\ ~Claimed(readPos)'
    BY <1>1, <1>3, Window DEF ReaderOK
  <2>2. rpc \in {"clear", "release", "advance"} => readPos + 1 \in 1 .. Len(accepted)
    BY Window DEF ReaderOK, CountersOK, Released
  <2> QED
    BY <1>1, <1>5, <2>1, <2>2 DEF ReaderOK
<1>11. Fifo'
  BY <1>1, <1>5 DEF Fifo, TypeOK
<1> QED
  BY <1>6, <1>7, <1>8, <1>9, <1>10, <1>11

\* Distinct positions of the lap have distinct slots.
LEMMA LapApart ==
  ASSUME Inv, NEW p \in Released .. Released + Size - 1,
         NEW q \in Released .. Released + Size - 1, p # q
  PROVE  Slot(p) # Slot(q)
<1>1. p \in Nat /\ q \in Nat
  BY Window
<1>2. CASE p < q
  BY <1>1, <1>2, Window, SlotsApart, SizeAssumption
<1>3. CASE q < p
  BY <1>1, <1>3, Window, SlotsApart, SizeAssumption
<1> QED
  BY <1>1, <1>2, <1>3

\* A claimed position lies in the lap, and so does a position with a value.
LEMMA InLap ==
  ASSUME Inv
  PROVE  /\ \A w \in Writers : InFlight(w) =>
               wpos[w] \in Released .. Released + Size - 1 /\ Claimed(wpos[w])
         /\ \A p \in readPos .. writePos - 1 :
               (p = readPos => rpc # "advance") =>
                   p \in Released .. Released + Size - 1
<1>1. Released <= writePos /\ writePos <= Released + Size
  BY DEF Inv, CountersOK
<1>2. ASSUME NEW w \in Writers, InFlight(w)
      PROVE  wpos[w] \in Released .. Released + Size - 1 /\ Claimed(wpos[w])
  BY <1>1, <1>2, Window, SizeAssumption DEF Inv, WritersOK, Claimed
<1>3. ASSUME NEW p \in readPos .. writePos - 1, p = readPos => rpc # "advance"
      PROVE  p \in Released .. Released + Size - 1
  BY <1>1, <1>3, Window, SizeAssumption
<1> QED
  BY <1>2, <1>3

\* The owner of a position stores into a slot that no published value uses.
LEMMA StoreValueInv ==
  ASSUME Inv, TypeOK', NEW w \in Writers, StoreValue(w)
  PROVE  Inv'
<1> USE DEF Inv
<1>1. /\ InFlight(w) /\ Claimed(wpos[w])
      /\ wpos[w] \in Released .. Released + Size - 1
      /\ value' = [value EXCEPT ![Slot(wpos[w])] = wval[w]]
      /\ UNCHANGED <<writePos, readPos, seq, rpc, rval, accepted, delivered, wpos, wval>>
      /\ Released' = Released
  BY InLap DEF StoreValue, Goto, InFlight, readerVars, history, Released
<1>2. /\ \A x \in Writers : InFlight(x)' <=> InFlight(x)
      /\ \A x \in Writers \ {w} : wpc'[x] = wpc[x]
      /\ wpc'[w] = "publish"
  BY DEF StoreValue, Goto, InFlight, TypeOK
<1>3. \A p \in Nat : Claimed(p)' <=> Claimed(p)
  BY <1>1, <1>2 DEF Claimed
<1>4. ASSUME NEW p \in Released .. Released + Size - 1, p # wpos[w]
      PROVE  value'[Slot(p)] = value[Slot(p)]
  <2>1. p \in Nat /\ Slot(p) \in Slots
    BY Window, SlotRange
  <2> QED
    BY <1>1, <1>4, <2>1, LapApart DEF TypeOK
<1>5. CountersOK' /\ Fifo'
  BY <1>1 DEF CountersOK, Fifo
<1>6. SeqOK'
  <2> SUFFICES ASSUME NEW p \in Released .. Released + Size - 1
               PROVE  seq[Slot(p)] = IF p < writePos /\ ~Claimed(p)' THEN p + 1 ELSE p
    BY <1>1 DEF SeqOK
  <2>1. p \in Nat
    BY Window
  <2> QED
    BY <1>3, <2>1 DEF SeqOK
<1>7. ValueOK'
  <2> SUFFICES ASSUME NEW p \in readPos .. writePos - 1, ~Claimed(p)',
                      p = readPos => rpc \notin {"release", "advance"}
               PROVE  value'[Slot(p)] = accepted[p + 1]
    BY <1>1 DEF ValueOK
  <2>1. p \in Nat
    BY Window
  <2>2. ~Claimed(p) /\ p # wpos[w]
    BY <1>1, <1>3, <2>1
  <2>3. p \in Released .. Released + Size - 1
    BY InLap
  <2> QED
    BY <1>4, <2>2, <2>3 DEF ValueOK
<1>8. WritersOK'
  <2> SUFFICES ASSUME NEW x \in Writers
               PROVE  /\ wpos[x] <= writePos
                      /\ (wpc'[x] = "claim" /\ wpos[x] = writePos) => writePos < Released + Size
                      /\ InFlight(x) =>
                            /\ Released <= wpos[x]
                            /\ wpos[x] < writePos
                            /\ accepted[wpos[x] + 1] = wval[x]
                            /\ \A y \in Writers \ {x} : InFlight(y) => wpos[y] # wpos[x]
                      /\ wpc'[x] = "publish" => value'[Slot(wpos[x])] = wval[x]
    BY <1>1, <1>2 DEF WritersOK
  <2>1. wpc'[x] = "publish" => value'[Slot(wpos[x])] = wval[x]
    <3>1. CASE x = w
      <4>1. Slot(wpos[w]) \in Slots
        BY SlotRange, Window
      <4> QED
        BY <1>1, <3>1, <4>1 DEF TypeOK
    <3>2. CASE x # w /\ wpc[x] = "publish"
      <4>1. InFlight(x) /\ wpos[x] # wpos[w]
        BY <1>1, <3>2 DEF InFlight, WritersOK
      <4>2. wpos[x] \in Released .. Released + Size - 1
        BY <4>1, InLap
      <4> QED
        BY <1>4, <3>2, <4>1, <4>2 DEF WritersOK
    <3> QED
      BY <1>2, <3>1, <3>2
  <2>2. wpc'[x] = "claim" => wpc[x] = "claim"
    BY <1>2
  <2> QED
    BY <2>1, <2>2 DEF WritersOK
<1>9. ReaderOK'
  BY <1>1, <1>3, Window DEF ReaderOK
<1> QED
  BY <1>5, <1>6, <1>7, <1>8, <1>9

\* Publishing turns the claim into a published position whose slot holds the
\* accepted value.
LEMMA PublishInv ==
  ASSUME Inv, TypeOK', NEW w \in Writers, Publish(w)
  PROVE  Inv'
<1> USE DEF Inv
<1>1. /\ InFlight(w)
      /\ wpos[w] \in Released .. Released + Size - 1
      /\ wpos[w] < writePos
      /\ value[Slot(wpos[w])] = accepted[wpos[w] + 1]
      /\ seq' = [seq EXCEPT ![Slot(wpos[w])] = wpos[w] + 1]
      /\ UNCHANGED <<writePos, readPos, value, rpc, rval, accepted, delivered>>
      /\ Released' = Released
  BY InLap DEF Publish, InFlight, WritersOK, readerVars, history, Released
<1>2. /\ \A x \in Writers \ {w} : /\ wpc'[x] = wpc[x] /\ wpos'[x] = wpos[x]
                                  /\ wval'[x] = wval[x]
                                  /\ InFlight(x)' <=> InFlight(x)
      /\ wpc'[w] = "idle" /\ ~InFlight(w)' /\ wpos'[w] = 0
  BY DEF Publish, Return, InFlight, TypeOK
<1>3. \A p \in Nat : Claimed(p)' <=> (Claimed(p) /\ p # wpos[w])
  BY <1>1, <1>2 DEF Claimed, WritersOK
<1>4. CountersOK' /\ Fifo'
  BY <1>1 DEF CountersOK, Fifo
<1>5. SeqOK'
  <2> SUFFICES ASSUME NEW p \in Released .. Released + Size - 1
               PROVE  seq'[Slot(p)] = IF p < writePos /\ ~Claimed(p)' THEN p + 1 ELSE p
    BY <1>1 DEF SeqOK
  <2>1. p \in Nat /\ Slot(p) \in Slots
    BY Window, SlotRange
  <2>2. CASE p = wpos[w]
    BY <1>1, <1>3, <2>1, <2>2 DEF TypeOK
  <2>3. CASE p # wpos[w]
    <3>1. seq'[Slot(p)] = seq[Slot(p)]
      BY <1>1, <2>1, <2>3, LapApart DEF TypeOK
    <3> QED
      BY <1>3, <2>1, <2>3, <3>1 DEF SeqOK
  <2> QED
    BY <2>2, <2>3
<1>6. ValueOK'
  <2> SUFFICES ASSUME NEW p \in readPos .. writePos - 1, ~Claimed(p)',
                      p = readPos => rpc \notin {"release", "advance"}
               PROVE  value[Slot(p)] = accepted[p + 1]
    BY <1>1 DEF ValueOK
  <2>1. p \in Nat
    BY Window
  <2>2. CASE p = wpos[w]
    BY <1>1, <2>2
  <2>3. CASE p # wpos[w]
    BY <1>3, <2>1, <2>3 DEF ValueOK
  <2> QED
    BY <2>2, <2>3
<1>7. WritersOK'
  <2> SUFFICES ASSUME NEW x \in Writers
               PROVE  /\ wpos'[x] <= writePos
                      /\ (wpc'[x] = "claim" /\ wpos'[x] = writePos) => writePos < Released + Size
                      /\ InFlight(x)' =>
                            /\ Released <= wpos'[x]
                            /\ wpos'[x] < writePos
                            /\ accepted[wpos'[x] + 1] = wval'[x]
                            /\ \A y \in Writers \ {x} : InFlight(y)' => wpos'[y] # wpos'[x]
                      /\ wpc'[x] = "publish" => value[Slot(wpos'[x])] = wval'[x]
    BY <1>1 DEF WritersOK
  <2>1. CASE x = w
    BY <1>2, <2>1, Window
  <2>2. CASE x # w
    BY <1>2, <2>2 DEF WritersOK
  <2> QED
    BY <2>1, <2>2
<1>8. ReaderOK'
  BY <1>1, <1>3, Window DEF ReaderOK
<1> QED
  BY <1>4, <1>5, <1>6, <1>7, <1>8

\* Steps of the consumer that change only its own variables.
LEMMA QuietReaderStep ==
  ASSUME Inv, TypeOK', UNCHANGED <<shared, writerVars, history>>,
         Released' = Released, ReaderOK',
         rpc' \notin {"release", "advance"}, rpc \notin {"release", "advance"}
  PROVE  Inv'
<1> USE DEF Inv, shared, writerVars, history
<1>1. \A x \in Writers : InFlight(x)' <=> InFlight(x)
  BY DEF InFlight
<1>2. \A p \in Nat : Claimed(p)' <=> Claimed(p)
  BY <1>1 DEF Claimed
<1>3. CountersOK' /\ Fifo'
  BY DEF CountersOK, Fifo
<1>4. SeqOK'
  <2> SUFFICES ASSUME NEW p \in Released .. Released + Size - 1
               PROVE  seq[Slot(p)] = IF p < writePos /\ ~Claimed(p)' THEN p + 1 ELSE p
    BY DEF SeqOK
  <2>1. p \in Nat
    BY Window
  <2> QED
    BY <1>2, <2>1 DEF SeqOK
<1>5. ValueOK'
  <2> SUFFICES ASSUME NEW p \in readPos .. writePos - 1, ~Claimed(p)'
               PROVE  value[Slot(p)] = accepted[p + 1]
    BY DEF ValueOK
  <2>1. p \in Nat
    BY Window
  <2> QED
    BY <1>2, <2>1 DEF ValueOK
<1>6. WritersOK'
  BY <1>1 DEF WritersOK
<1> QED
  BY <1>3, <1>4, <1>5, <1>6

\* The consumer enters the slot of the head only when the head is published.
LEMMA FindReadyInv ==
  ASSUME Inv, TypeOK', FindReady
  PROVE  Inv'
<1> USE DEF Inv
<1>1. /\ rpc = "check" /\ rpc' = "read"
      /\ UNCHANGED <<shared, writerVars, history>>
      /\ readPos' = readPos /\ writePos' = writePos
      /\ Released = readPos /\ Released' = Released
      /\ seq[Slot(readPos)] = readPos + 1
  BY DEF FindReady, HeadReady, shared, Released
<1>2. readPos < writePos /\ ~Claimed(readPos)
  <2>1. readPos \in Released .. Released + Size - 1
    BY <1>1, Window, SizeAssumption
  <2> QED
    BY <1>1, <2>1, Window DEF SeqOK
<1>3. \A p \in Nat : Claimed(p)' <=> Claimed(p)
  BY <1>1 DEF Claimed, InFlight, writerVars
<1>4. ReaderOK'
  BY <1>1, <1>2, <1>3, Window DEF ReaderOK
<1> QED
  BY <1>1, <1>4, QuietReaderStep

LEMMA IdleReaderInv ==
  ASSUME Inv, TypeOK', StartRead \/ ReadEmpty
  PROVE  Inv'
<1>1. /\ UNCHANGED <<shared, writerVars, history>>
      /\ Released' = Released
      /\ rpc \notin {"release", "advance"}
      /\ rpc' \in {"check", "idle"}
  BY DEF StartRead, ReadEmpty, shared, Released
<1>2. ReaderOK'
  BY <1>1 DEF ReaderOK
<1> QED
  BY <1>1, <1>2, QuietReaderStep

LEMMA ReadValueInv ==
  ASSUME Inv, TypeOK', ReadValue
  PROVE  Inv'
<1> USE DEF Inv
<1>1. /\ rpc = "read" /\ rpc' = "clear"
      /\ UNCHANGED <<shared, writerVars, history>>
      /\ readPos' = readPos /\ writePos' = writePos /\ accepted' = accepted
      /\ Released' = Released
      /\ rval' = value[Slot(readPos)]
  BY DEF ReadValue, shared, history, Released
<1>2. readPos < writePos /\ ~Claimed(readPos)
  BY <1>1 DEF ReaderOK
<1>3. rval' = accepted[readPos + 1]
  <2>1. readPos \in readPos .. writePos - 1
    BY <1>2, Window
  <2> QED
    BY <1>1, <1>2, <2>1 DEF ValueOK
<1>4. \A p \in Nat : Claimed(p)' <=> Claimed(p)
  BY <1>1 DEF Claimed, InFlight, writerVars
<1>5. ReaderOK'
  BY <1>1, <1>2, <1>3, <1>4, Window DEF ReaderOK
<1> QED
  BY <1>1, <1>5, QuietReaderStep

\* Clearing touches the head's slot only, which no writer owns.
LEMMA ClearValueInv ==
  ASSUME Inv, TypeOK', ClearValue
  PROVE  Inv'
<1> USE DEF Inv
<1>1. /\ rpc = "clear" /\ rpc' = "release"
      /\ value' = [value EXCEPT ![Slot(readPos)] = Nil]
      /\ UNCHANGED <<writePos, readPos, seq, wpc, wpos, wval, rval, accepted, delivered>>
      /\ Released = readPos /\ Released' = Released
  BY DEF ClearValue, writerVars, history, Released
<1>2. readPos < writePos /\ ~Claimed(readPos)
  BY <1>1 DEF ReaderOK
<1>3. readPos \in Released .. Released + Size - 1
  BY <1>1, Window, SizeAssumption
<1>4. \A x \in Writers : InFlight(x)' <=> InFlight(x)
  BY <1>1 DEF InFlight
<1>5. \A p \in Nat : Claimed(p)' <=> Claimed(p)
  BY <1>1, <1>4 DEF Claimed
<1>6. ASSUME NEW p \in Released .. Released + Size - 1, p # readPos
      PROVE  value'[Slot(p)] = value[Slot(p)]
  <2>1. Slot(p) # Slot(readPos)
    BY <1>3, <1>6, LapApart
  <2>2. Slot(p) \in Slots
    BY Window, SlotRange
  <2> QED
    BY <1>1, <2>1, <2>2 DEF TypeOK
<1>7. CountersOK' /\ Fifo'
  BY <1>1 DEF CountersOK, Fifo
<1>8. SeqOK'
  <2> SUFFICES ASSUME NEW p \in Released .. Released + Size - 1
               PROVE  seq[Slot(p)] = IF p < writePos /\ ~Claimed(p)' THEN p + 1 ELSE p
    BY <1>1 DEF SeqOK
  <2>1. p \in Nat
    BY Window
  <2> QED
    BY <1>5, <2>1 DEF SeqOK
<1>9. ValueOK'
  <2> SUFFICES ASSUME NEW p \in readPos .. writePos - 1, ~Claimed(p)', p # readPos
               PROVE  value'[Slot(p)] = accepted[p + 1]
    BY <1>1 DEF ValueOK
  <2>1. p \in Nat /\ ~Claimed(p)
    BY <1>5, Window
  <2>2. p \in Released .. Released + Size - 1
    BY <1>1, InLap
  <2> QED
    BY <1>6, <2>1, <2>2 DEF ValueOK
<1>10. WritersOK'
  <2> SUFFICES ASSUME NEW x \in Writers, wpc[x] = "publish"
               PROVE  value'[Slot(wpos[x])] = wval[x]
    BY <1>1, <1>4 DEF WritersOK
  <2>1. /\ wpos[x] \in Released .. Released + Size - 1
        /\ wpos[x] # readPos
    BY <1>2, InLap DEF InFlight
  <2> QED
    BY <1>6, <2>1 DEF WritersOK
<1>11. ReaderOK'
  BY <1>1, <1>2, <1>5, Window DEF ReaderOK
<1> QED
  BY <1>7, <1>8, <1>9, <1>10, <1>11

\* Releasing moves the lap by one position, which takes over the head's slot.
LEMMA ReleaseSlotInv ==
  ASSUME Inv, TypeOK', ReleaseSlot
  PROVE  Inv'
<1> USE DEF Inv
<1>1. /\ rpc = "release" /\ rpc' = "advance"
      /\ seq' = [seq EXCEPT ![Slot(readPos)] = readPos + Size]
      /\ UNCHANGED <<writePos, readPos, value, wpc, wpos, wval, rval, accepted, delivered>>
      /\ Released = readPos /\ Released' = readPos + 1
  BY DEF ReleaseSlot, writerVars, history, Released
<1>2. readPos < writePos /\ ~Claimed(readPos)
  BY <1>1 DEF ReaderOK
<1>3. readPos \in Released .. Released + Size - 1
  BY <1>1, Window, SizeAssumption
<1>4. \A x \in Writers : InFlight(x)' <=> InFlight(x)
  BY <1>1 DEF InFlight
<1>5. \A p \in Nat : Claimed(p)' <=> Claimed(p)
  BY <1>1, <1>4 DEF Claimed
<1>6. CountersOK' /\ Fifo'
  BY <1>1, <1>2, Window, SizeAssumption DEF CountersOK, Fifo
<1>7. SeqOK'
  <2> SUFFICES ASSUME NEW p \in readPos + 1 .. readPos + 1 + Size - 1
               PROVE  seq'[Slot(p)] = IF p < writePos /\ ~Claimed(p)' THEN p + 1 ELSE p
    BY <1>1 DEF SeqOK
  <2>1. p \in Nat /\ Slot(p) \in Slots
    BY Window, SlotRange
  <2>2. CASE p = readPos + Size
    <3>1. Slot(p) = Slot(readPos)
      BY <2>2, Window, NextLap
    <3>2. ~(p < writePos)
      BY <1>1, <2>2, Window, SizeAssumption DEF CountersOK
    <3> QED
      BY <1>1, <2>1, <2>2, <3>1, <3>2 DEF TypeOK
  <2>3. CASE p # readPos + Size
    <3>1. p \in Released .. Released + Size - 1 /\ p # readPos
      BY <1>1, <2>3, Window, SizeAssumption
    <3>2. seq'[Slot(p)] = seq[Slot(p)]
      BY <1>1, <1>3, <2>1, <3>1, LapApart DEF TypeOK
    <3> QED
      BY <1>5, <2>1, <3>1, <3>2 DEF SeqOK
  <2> QED
    BY <2>2, <2>3
<1>8. ValueOK'
  <2> SUFFICES ASSUME NEW p \in readPos .. writePos - 1, ~Claimed(p)', p # readPos
               PROVE  value[Slot(p)] = accepted[p + 1]
    BY <1>1 DEF ValueOK
  <2>1. p \in Nat /\ ~Claimed(p)
    BY <1>5, Window
  <2> QED
    BY <2>1 DEF ValueOK
<1>9. WritersOK'
  <2>1. ASSUME NEW x \in Writers, InFlight(x) PROVE readPos + 1 <= wpos[x]
    BY <1>1, <1>2, <2>1, Window DEF WritersOK, Claimed
  <2>2. writePos < Released + Size => writePos < readPos + 1 + Size
    BY <1>1, Window, SizeAssumption
  <2> QED
    BY <1>1, <1>4, <2>1, <2>2 DEF WritersOK
<1>10. ReaderOK'
  BY <1>1 DEF ReaderOK
<1> QED
  BY <1>6, <1>7, <1>8, <1>9, <1>10

\* The value returned is the next accepted one.
LEMMA AdvanceReadPosInv ==
  ASSUME Inv, TypeOK', AdvanceReadPos
  PROVE  Inv'
<1> USE DEF Inv
<1>1. /\ rpc = "advance" /\ rpc' = "idle"
      /\ readPos' = readPos + 1
      /\ delivered' = Append(delivered, rval)
      /\ UNCHANGED <<writePos, seq, value, wpc, wpos, wval, accepted>>
      /\ Released = readPos + 1 /\ Released' = Released
  BY DEF AdvanceReadPos, writerVars, Released
<1>2. rval = accepted[readPos + 1] /\ readPos + 1 <= writePos
  BY <1>1 DEF ReaderOK, CountersOK
<1>3. \A x \in Writers : InFlight(x)' <=> InFlight(x)
  BY <1>1 DEF InFlight
<1>4. \A p \in Nat : Claimed(p)' <=> Claimed(p)
  BY <1>1, <1>3 DEF Claimed
<1>5. /\ Len(delivered') = Len(delivered) + 1
      /\ delivered'[Len(delivered) + 1] = rval
      /\ \A i \in 1 .. Len(delivered) : delivered'[i] = delivered[i]
  BY <1>1 DEF TypeOK
<1>6. CountersOK'
  BY <1>1, <1>5 DEF CountersOK
<1>7. Fifo'
  <2>1. Len(delivered') <= Len(accepted)
    BY <1>2, <1>5 DEF CountersOK
  <2>2. ASSUME NEW i \in 1 .. Len(delivered') PROVE delivered'[i] = accepted[i]
    <3>1. CASE i = Len(delivered) + 1
      BY <1>2, <1>5, <3>1 DEF CountersOK
    <3>2. CASE i # Len(delivered) + 1
      <4>1. Len(delivered) \in Nat
        BY Window DEF CountersOK
      <4>2. i \in 1 .. Len(delivered)
        BY <1>5, <3>2, <4>1
      <4> QED
        BY <1>5, <4>2 DEF Fifo
    <3> QED
      BY <3>1, <3>2
  <2> QED
    BY <1>1, <2>1, <2>2 DEF Fifo
<1>8. SeqOK'
  <2> SUFFICES ASSUME NEW p \in Released .. Released + Size - 1
               PROVE  seq[Slot(p)] = IF p < writePos /\ ~Claimed(p)' THEN p + 1 ELSE p
    BY <1>1 DEF SeqOK
  <2>1. p \in Nat
    BY Window
  <2> QED
    BY <1>4, <2>1 DEF SeqOK
<1>9. ValueOK'
  <2> SUFFICES ASSUME NEW p \in readPos + 1 .. writePos - 1, ~Claimed(p)'
               PROVE  value[Slot(p)] = accepted[p + 1]
    BY <1>1 DEF ValueOK
  <2>1. p \in Nat /\ ~Claimed(p) /\ p # readPos /\ p \in readPos .. writePos - 1
    BY <1>4, Window
  <2> QED
    BY <2>1 DEF ValueOK
<1>10. WritersOK'
  BY <1>1, <1>3 DEF WritersOK
<1>11. ReaderOK'
  BY <1>1 DEF ReaderOK
<1> QED
  BY <1>6, <1>7, <1>8, <1>9, <1>10, <1>11

LEMMA StutterInv == ASSUME Inv, UNCHANGED vars PROVE Inv'
<1>1. /\ UNCHANGED <<writePos, readPos, seq, value, wpc, wpos, wval, rpc, rval,
                     accepted, delivered>>
      /\ Released' = Released
  BY DEF vars, Released
<1>2. \A x \in Writers : InFlight(x)' <=> InFlight(x)
  BY <1>1 DEF InFlight
<1>3. \A x \in Writers :
        /\ UNCHANGED <<wpc[x], wpos[x], wval[x]>>
        /\ wpos'[x] <= writePos
        /\ (wpc'[x] = "claim" /\ wpos'[x] = writePos) => writePos < Released + Size
  BY <1>1 DEF Inv, WritersOK
<1>4. TypeOK'
  BY NextTypeOK DEF Inv
<1> QED
  BY <1>1, <1>2, <1>3, <1>4, QuietWriterStep DEF shared, readerVars, history

LEMMA NextInv ==
  ASSUME Size >= 2
  PROVE  Inv /\ [Next]_vars => Inv'
<1> SUFFICES ASSUME Inv, [Next]_vars PROVE Inv'
  OBVIOUS
<1>1. TypeOK'
  BY NextTypeOK DEF Inv
<1>2. ASSUME NEW w \in Writers, NEW v \in Values, StartWrite(w, v) PROVE Inv'
  BY <1>1, <1>2, StartWriteInv
<1>3. ASSUME NEW w \in Writers, WriterStep(w) PROVE Inv'
  BY <1>1, <1>3, LoadWritePosInv, FindFreeInv, RejectInv, ClaimInv, LoseClaimInv,
     StoreValueInv, PublishInv DEF WriterStep
<1>4. CASE ReaderStep
  BY <1>1, <1>4, IdleReaderInv, FindReadyInv, ReadValueInv, ClearValueInv,
     ReleaseSlotInv, AdvanceReadPosInv DEF ReaderStep
<1>5. CASE UNCHANGED vars
  BY <1>5, StutterInv
<1> QED
  BY <1>2, <1>3, <1>4, <1>5 DEF Next

\* With at least two slots the inductive invariant holds: every position of the
\* current lap is free, claimed by one writer or published, and its slot's
\* sequence number and value say so (write and tryRead, ring.go:101-175).
THEOREM Invariance == ASSUME Size >= 2 PROVE Spec => []Inv
  BY InitInv, NextInv, PTL DEF Spec

\* With at least two slots, tryRead returns the accepted values, each once, in
\* the order of their positions, for any number of writers.
THEOREM Delivery == ASSUME Size >= 2 PROVE Spec => []Fifo
<1>1. Inv => Fifo
  BY DEF Inv
<1> QED
  BY <1>1, Invariance, PTL

\* With at least two slots the plain accesses to slot.value are exclusive: the
\* Go program has no data race on it.
THEOREM RaceFreedom == ASSUME Size >= 2 PROVE Spec => []NoDataRace
<1>1. Inv => NoDataRace
  <2> SUFFICES ASSUME Inv, NEW w \in Writers, wpc[w] = "store"
               PROVE  /\ \A x \in Writers \ {w} :
                             wpc[x] = "store" => Slot(wpos[x]) # Slot(wpos[w])
                      /\ rpc \in {"read", "clear"} => Slot(readPos) # Slot(wpos[w])
    BY DEF NoDataRace
  <2>1. InFlight(w) /\ wpos[w] \in Released .. Released + Size - 1 /\ Claimed(wpos[w])
    BY InLap DEF InFlight
  <2>2. ASSUME NEW x \in Writers \ {w}, wpc[x] = "store"
        PROVE  Slot(wpos[x]) # Slot(wpos[w])
    <3>1. wpos[x] # wpos[w]
      BY <2>1, <2>2 DEF Inv, WritersOK, InFlight
    <3>2. wpos[x] \in Released .. Released + Size - 1
      BY <2>2, InLap DEF InFlight
    <3> QED
      BY <2>1, <3>1, <3>2, LapApart
  <2>3. ASSUME rpc \in {"read", "clear"} PROVE Slot(readPos) # Slot(wpos[w])
    <3>1. readPos # wpos[w]
      BY <2>1, <2>3 DEF Inv, ReaderOK
    <3>2. readPos \in Released .. Released + Size - 1
      BY <2>3, Window, SizeAssumption
    <3> QED
      BY <2>1, <3>1, <3>2, LapApart
  <2> QED
    BY <2>2, <2>3
<1> QED
  BY <1>1, Invariance, PTL

\* With at least two slots writePos is never more than one lap ahead of
\* readPos, but for the one position between the consumer's last two stores.
THEOREM Overrun == ASSUME Size >= 2 PROVE Spec => []OverrunOnlyInWindow
<1>1. Inv => OverrunOnlyInWindow
  BY Window, SizeAssumption DEF Inv, CountersOK, OverrunOnlyInWindow, Released
<1> QED
  BY <1>1, Invariance, PTL

\* With at least two slots a refused write met a full shard or lost a race.
THEOREM Rejections == ASSUME Size >= 2 PROVE Spec => RejectionJustified
<1>1. ASSUME Inv, [Next]_vars
      PROVE  [\A w \in Writers : (wpc[w] = "check" /\ wpc'[w] = "idle") =>
                 \/ writePos - Released = Size
                 \/ writePos > wpos[w]]_vars
  <2> SUFFICES ASSUME Next, NEW w \in Writers, wpc[w] = "check", wpc'[w] = "idle",
                      ~(writePos > wpos[w])
               PROVE  writePos - Released = Size
    BY <1>1
  <2>1. ~SlotFree(w)
    BY <1>1 DEF Next, WriterStep, ReaderStep, StartWrite, LoadWritePos, FindFree, Reject,
       Claim, LoseClaim, StoreValue, Publish, Goto, Return, StartRead, ReadEmpty, FindReady,
       ReadValue, ClearValue, ReleaseSlot, AdvanceReadPos, writerVars, Inv, TypeOK
  <2>2. wpos[w] = writePos /\ Released <= writePos /\ writePos <= Released + Size
    BY <1>1, Window DEF Inv, WritersOK, CountersOK
  <2>3. writePos \notin Released .. Released + Size - 1
    BY <1>1, <2>1, <2>2, Window DEF Inv, SeqOK, SlotFree
  <2> QED
    BY <1>1, <2>2, <2>3, Window, SizeAssumption
<1> QED
  BY <1>1, Invariance, PTL DEF Spec, RejectionJustified

\* With at least two slots no write is accepted beyond the lap.
THEOREM Acceptance == ASSUME Size >= 2 PROVE Spec => AcceptedOnlyWithRoom
<1>1. ASSUME Inv, [Next]_vars
      PROVE  [writePos' > writePos => writePos - Released < Size]_vars
  <2> SUFFICES ASSUME Next, writePos' > writePos
               PROVE  writePos - Released < Size
    BY <1>1
  <2>1. PICK w \in Writers : Claim(w)
    BY <1>1 DEF Next, WriterStep, ReaderStep, StartWrite, LoadWritePos, FindFree, Reject,
       LoseClaim, StoreValue, Publish, StartRead, ReadEmpty, FindReady,
       ReadValue, ClearValue, ReleaseSlot, AdvanceReadPos, shared, Inv, TypeOK
  <2>2. writePos < Released + Size
    BY <1>1, <2>1 DEF Claim, Inv, WritersOK
  <2> QED
    BY <1>1, <2>2, Window, SizeAssumption
<1> QED
  BY <1>1, Invariance, PTL DEF Spec, AcceptedOnlyWithRoom

\* With at least two slots an empty answer means that the oldest undelivered
\* value, if there is one, is not published.
THEOREM Emptiness == ASSUME Size >= 2 PROVE Spec => EmptyJustified
<1>1. ASSUME Inv, [Next]_vars
      PROVE  [(rpc = "check" /\ rpc' = "idle") => Len(delivered) + 1 \notin Committed]_vars
  <2> SUFFICES ASSUME Next, rpc = "check", rpc' = "idle"
               PROVE  Len(delivered) + 1 \notin Committed
    BY <1>1
  <2>1. ~HeadReady
    BY <1>1 DEF Next, WriterStep, ReaderStep, StartWrite, LoadWritePos, FindFree, Reject,
       Claim, LoseClaim, StoreValue, Publish, StartRead, ReadEmpty, FindReady,
       ReadValue, ClearValue, ReleaseSlot, AdvanceReadPos, readerVars
  <2>2. Released = readPos /\ Len(delivered) = readPos /\ Len(accepted) = writePos
    BY <1>1 DEF Inv, CountersOK, Released
  <2>3. readPos \in Released .. Released + Size - 1
    BY <1>1, <2>2, Window, SizeAssumption
  <2>4. ~(readPos < writePos) \/ Claimed(readPos)
    BY <1>1, <2>1, <2>3, Window DEF HeadReady, Inv, SeqOK
  <2>5. readPos + 1 - 1 = readPos
    BY <1>1, Window
  <2>6. readPos + 1 \in 1 .. Len(accepted) => readPos < writePos
    BY <1>1, <2>2, Window
  <2> QED
    BY <2>2, <2>4, <2>5, <2>6 DEF Committed
<1> QED
  BY <1>1, Invariance, PTL DEF Spec, EmptyJustified

-------------------------------------------------------------------------------
(* The shard implements the bounded queue *)

LEMMA InitRefines == Init => Queue!QueueInit
<1> SUFFICES ASSUME Init PROVE Queue!QueueInit
  OBVIOUS
<1>1. accepted = <<>> /\ Taken = <<>>
  BY DEF Init, Taken
<1>2. Committed = {}
  BY <1>1 DEF Committed
<1> QED
  BY <1>1, <1>2 DEF Queue!QueueInit

\* Steps that neither claim nor publish nor release are invisible.
LEMMA SilentStep ==
  ASSUME Inv, UNCHANGED accepted, Taken' = Taken,
         \A x \in Writers : InFlight(x)' <=> InFlight(x),
         \A x \in Writers : InFlight(x) => wpos'[x] = wpos[x]
  PROVE  UNCHANGED Queue!queueVars
<1>1. \A p \in Nat : Claimed(p)' <=> Claimed(p)
  BY DEF Claimed
<1>2. Committed' = Committed
  <2>1. \A i \in 1 .. Len(accepted) : i - 1 \in Nat
    BY DEF Inv, TypeOK
  <2> QED
    BY <1>1, <2>1 DEF Committed
<1> QED
  BY <1>2 DEF Queue!queueVars

LEMMA ClaimRefines ==
  ASSUME Inv, NEW w \in Writers, Claim(w)
  PROVE  Queue!Claim(wval[w])
<1> USE DEF Inv
<1>1. /\ wpos[w] = writePos /\ writePos < Released + Size
      /\ accepted' = Append(accepted, wval[w])
      /\ UNCHANGED <<rpc, rval, delivered, wpos>>
      /\ Taken' = Taken
  BY DEF Claim, Goto, WritersOK, readerVars, Taken
<1>2. Len(Taken) = Released
  BY Window DEF CountersOK, TypeOK, Taken, Released
<1>3. Len(accepted) = writePos /\ Len(accepted') = writePos + 1
  BY <1>1 DEF CountersOK, TypeOK
<1>4. /\ InFlight(w)'
      /\ \A x \in Writers \ {w} : InFlight(x)' <=> InFlight(x)
      /\ ~InFlight(w)
  BY DEF Claim, Goto, InFlight, TypeOK
<1>5. \A p \in Nat : Claimed(p)' <=> (Claimed(p) \/ p = writePos)
  BY <1>1, <1>4 DEF Claimed
<1>6. Committed' = Committed
  <2>1. ASSUME NEW i PROVE i \in Committed' <=> i \in Committed
    <3>1. CASE i \in 1 .. writePos
      <4>1. i - 1 \in Nat /\ i - 1 # writePos /\ i \in 1 .. writePos + 1
        BY <3>1, Window
      <4> QED
        BY <1>3, <1>5, <3>1, <4>1 DEF Committed
    <3>2. CASE i = writePos + 1
      <4>1. i - 1 = writePos /\ i - 1 \in Nat /\ i \notin 1 .. writePos
        BY <3>2, Window
      <4> QED
        BY <1>3, <1>5, <4>1 DEF Committed
    <3>3. CASE i \notin 1 .. writePos /\ i # writePos + 1
      <4>1. i \notin 1 .. writePos + 1
        BY <3>3, Window
      <4> QED
        BY <1>3, <3>3, <4>1 DEF Committed
    <3> QED
      BY <3>1, <3>2, <3>3
  <2> QED
    BY <2>1
<1>7. Len(accepted) - Len(Taken) < Size
  BY <1>1, <1>2, <1>3, Window, SizeAssumption
<1> QED
  BY <1>1, <1>6, <1>7 DEF Queue!Claim

LEMMA PublishRefines ==
  ASSUME Inv, NEW w \in Writers, Publish(w)
  PROVE  Queue!Commit(wpos[w] + 1)
<1> USE DEF Inv
<1>1. /\ InFlight(w) /\ wpos[w] < writePos
      /\ UNCHANGED <<rpc, rval, accepted, delivered>>
      /\ Taken' = Taken
      /\ Len(accepted) = writePos
  BY DEF Publish, InFlight, WritersOK, CountersOK, readerVars, history, Taken
<1>2. /\ \A x \in Writers \ {w} : wpos'[x] = wpos[x] /\ (InFlight(x)' <=> InFlight(x))
      /\ ~InFlight(w)'
  BY DEF Publish, Return, InFlight, TypeOK
<1>3. \A p \in Nat : Claimed(p)' <=> (Claimed(p) /\ p # wpos[w])
  BY <1>1, <1>2 DEF Claimed, WritersOK
<1>4. wpos[w] + 1 \in 1 .. Len(accepted) /\ wpos[w] + 1 - 1 = wpos[w]
  BY <1>1, Window
<1>5. wpos[w] + 1 \notin Committed
  <2>1. SUFFICES ASSUME NEW i \in Committed PROVE i # wpos[w] + 1
    OBVIOUS
  <2>2. i \in Nat /\ ~Claimed(i - 1)
    BY DEF Committed
  <2>3. i - 1 # wpos[w]
    BY <1>1, <2>2, InLap
  <2> QED
    BY <2>2, <2>3, Window
<1>6. Committed' = Committed \cup {wpos[w] + 1}
  <2>1. ASSUME NEW i \in 1 .. Len(accepted)
        PROVE  ~Claimed(i - 1)' <=> (~Claimed(i - 1) \/ i = wpos[w] + 1)
    <3>1. i - 1 \in Nat /\ (i - 1 = wpos[w] <=> i = wpos[w] + 1)
      BY <1>1, Window
    <3> QED
      BY <1>3, <3>1
  <2> QED
    BY <1>1, <1>4, <2>1 DEF Committed
<1> QED
  BY <1>1, <1>4, <1>5, <1>6 DEF Queue!Commit

LEMMA ReleaseRefines ==
  ASSUME Inv, ReleaseSlot
  PROVE  Queue!Take
<1> USE DEF Inv
<1>1. /\ rpc = "release" /\ rpc' = "advance"
      /\ UNCHANGED <<readPos, wpc, wpos, rval, accepted, delivered>>
      /\ rval = accepted[readPos + 1]
      /\ readPos < writePos /\ ~Claimed(readPos)
      /\ Len(accepted) = writePos /\ Len(delivered) = readPos
  BY DEF ReleaseSlot, writerVars, history, ReaderOK, CountersOK
<1>2. Taken = delivered /\ Taken' = Append(delivered, accepted[readPos + 1])
  BY <1>1 DEF Taken
<1>3. readPos + 1 \in Committed
  <2>1. readPos + 1 \in 1 .. Len(accepted) /\ readPos + 1 - 1 = readPos
    BY <1>1, Window
  <2> QED
    BY <1>1, <2>1 DEF Committed
<1>4. Committed' = Committed
  BY <1>1 DEF Committed, Claimed, InFlight
<1> QED
  BY <1>1, <1>2, <1>3, <1>4 DEF Queue!Take

LEMMA StepRefines == Inv /\ [Next]_vars => [Queue!QueueNext]_(Queue!queueVars)
<1> SUFFICES ASSUME Inv, [Next]_vars PROVE [Queue!QueueNext]_(Queue!queueVars)
  OBVIOUS
<1> USE DEF Inv, TypeOK
<1>1. ASSUME NEW w \in Writers, Claim(w) PROVE Queue!QueueNext
  <2>1. wval[w] \in Values
    OBVIOUS
  <2> QED
    BY <1>1, <2>1, ClaimRefines DEF Queue!QueueNext
<1>2. ASSUME NEW w \in Writers, Publish(w) PROVE Queue!QueueNext
  <2>1. Queue!Commit(wpos[w] + 1)
    BY <1>2, PublishRefines
  <2>2. wpos[w] + 1 \in 1 .. Len(accepted)
    BY <2>1 DEF Queue!Commit
  <2> QED
    BY <2>1, <2>2 DEF Queue!QueueNext
<1>3. CASE ReleaseSlot
  BY <1>3, ReleaseRefines DEF Queue!QueueNext
<1>4. ASSUME NEW w \in Writers, NEW v \in Values, StartWrite(w, v)
      PROVE  UNCHANGED Queue!queueVars
  BY <1>4, SilentStep DEF StartWrite, readerVars, history, InFlight, Taken
<1>5. ASSUME NEW w \in Writers, LoadWritePos(w) PROVE UNCHANGED Queue!queueVars
  BY <1>5, SilentStep DEF LoadWritePos, readerVars, history, InFlight, Taken
<1>6. ASSUME NEW w \in Writers, FindFree(w) \/ LoseClaim(w) \/ StoreValue(w)
      PROVE  UNCHANGED Queue!queueVars
  BY <1>6, SilentStep DEF FindFree, LoseClaim, StoreValue, Goto, readerVars, history, InFlight, Taken
<1>7. ASSUME NEW w \in Writers, Reject(w) PROVE UNCHANGED Queue!queueVars
  BY <1>7, SilentStep DEF Reject, Return, readerVars, history, InFlight, Taken
<1>8. ASSUME StartRead \/ ReadEmpty \/ FindReady \/ ReadValue \/ ClearValue
      PROVE  UNCHANGED Queue!queueVars
  BY <1>8, SilentStep DEF StartRead, ReadEmpty, FindReady, ReadValue, ClearValue,
     writerVars, history, InFlight, Taken
<1>9. CASE AdvanceReadPos
  BY <1>9, SilentStep DEF AdvanceReadPos, writerVars, InFlight, Taken
<1>10. CASE UNCHANGED vars
  BY <1>10, SilentStep DEF vars, InFlight, Taken
<1> QED
  BY <1>1, <1>2, <1>3, <1>4, <1>5, <1>6, <1>7, <1>8, <1>9, <1>10
     DEF Next, WriterStep, ReaderStep

\* With at least two slots the slots, sequence numbers and program counters of a
\* shard implement the two-step bounded queue: the compare-and-swap reserves,
\* the store of the sequence number commits, the release takes.
THEOREM Refinement == ASSUME Size >= 2 PROVE Spec => ImplementsQueue
  BY InitRefines, StepRefines, Invariance, PTL
     DEF Spec, ImplementsQueue, Queue!QueueSpec
===============================================================================
