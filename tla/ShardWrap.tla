------------------------------ MODULE ShardWrap ------------------------------
(***************************************************************************)
(* The shard with counters of a fixed width.  Shard's positions are        *)
(* natural numbers; the code has uint64 and computes modulo 2^64.  Here    *)
(* the variables of Shard stand for the positions without the wrap, and    *)
(* the code sees of them what a counter holds: Low.  Every comparison of   *)
(* write, tryRead and Len is made on Low values, so the question is        *)
(* whether the comparisons still answer what they answer in Shard.         *)
(*                                                                         *)
(* A slot is found as Low(p) % Size.  That is Slot(p), and the actions     *)
(* that only index are Shard's own, because the modulus is a multiple of   *)
(* Size.  NewShardedRing does not enforce it: with three slots the index   *)
(* jumps at the wrap, and nothing below holds.                             *)
(***************************************************************************)
EXTENDS ShardLen

CONSTANTS
    Modulus,    \* 2^64 in the code
    MaxLag      \* assumption on the scheduler: while one goroutine is between
                \* the load of writePos and the compare-and-swap, the others
                \* claim at most this many positions

ASSUME WidthAssumption ==
    /\ Modulus \in Nat \ {0}
    /\ Modulus % Size = 0
    /\ MaxLag \in Nat \ {0}
    /\ MaxLag + Size <= Modulus

Low(p) == p % Modulus

-------------------------------------------------------------------------------
(* write *)

\* Mutant: <= for =.
SlotFreeAtMostLow(w) == Low(seq[Slot(wpos[w])]) <= Low(wpos[w])

SlotFreeLow(w) == Low(seq[Slot(wpos[w])]) = Low(wpos[w])

FindFreeLow(w) ==
    /\ wpc[w] = "check"
    /\ SlotFreeLow(w)
    /\ Goto(w, "claim")
    /\ UNCHANGED <<shared, readerVars, history>>

RejectLow(w) ==
    /\ wpc[w] = "check"
    /\ ~SlotFreeLow(w)
    /\ Return(w)
    /\ UNCHANGED <<shared, readerVars, history>>

\* What the scheduler is assumed to do.
NobodyFarBehind ==
    \A w \in Writers : wpc[w] \in {"check", "claim"} => writePos' - wpos[w] <= MaxLag

ClaimLow(w) ==
    /\ wpc[w] = "claim"
    /\ Low(writePos) = Low(wpos[w])
    /\ writePos' = writePos + 1
    /\ NobodyFarBehind
    /\ accepted' = Append(accepted, wval[w])
    /\ Goto(w, "store")
    /\ UNCHANGED <<readPos, seq, value, readerVars, delivered>>

LoseClaimLow(w) ==
    /\ wpc[w] = "claim"
    /\ Low(writePos) # Low(wpos[w])
    /\ Goto(w, "load")
    /\ UNCHANGED <<shared, readerVars, history>>

WriterStepLow(w) ==
    \/ LoadWritePos(w)
    \/ FindFreeLow(w)
    \/ RejectLow(w)
    \/ ClaimLow(w)
    \/ LoseClaimLow(w)
    \/ StoreValue(w)
    \/ Publish(w)

-------------------------------------------------------------------------------
(* tryRead *)

\* Mutant: > for =, which only the wrap tells apart.
HeadBeyondLow == Low(seq[Slot(readPos)]) > Low(readPos)

HeadReadyLow == Low(seq[Slot(readPos)]) = Low(readPos + 1)

ReadEmptyLow ==
    /\ rpc = "check"
    /\ ~HeadReadyLow
    /\ rpc' = "idle"
    /\ UNCHANGED <<shared, writerVars, rval, history>>

FindReadyLow ==
    /\ rpc = "check"
    /\ HeadReadyLow
    /\ rpc' = "read"
    /\ UNCHANGED <<shared, writerVars, rval, history>>

ReaderStepLow ==
    \/ StartRead
    \/ ReadEmptyLow
    \/ FindReadyLow
    \/ ReadValue
    \/ ClearValue
    \/ ReleaseSlot
    \/ AdvanceReadPos

-------------------------------------------------------------------------------
(* Len *)

LenLoadReadPosLow ==
    /\ lpc = "loadRead"
    /\ lresult' = Length(Low(lwrite), Low(readPos))
    /\ lpc' = "idle"
    /\ lwrite' = 0
    /\ UNCHANGED <<vars, lstart>>

NextLow ==
    \/ /\ \/ \E w \in Writers : WriterStepLow(w) \/ \E v \in Values : StartWrite(w, v)
          \/ ReaderStepLow
       /\ UNCHANGED lenVars
    \/ LenLoadWritePos
    \/ LenLoadReadPosLow

SpecLow == LenInit /\ [][NextLow]_<<vars, lenVars>>

-------------------------------------------------------------------------------
\* With counters that wrap around, the shard still does only what Shard allows,
\* of which everything in ShardProofs holds: a sequence number or a position of
\* another lap of the counter is never taken for the one that was meant
\* (ring.go:111, 118, 157).
ImplementsWide == Spec

\* Whether the consumer's counter has wrapped past the writePos that Len loaded.
ReaderWrapped == readPos \div Modulus > lwrite \div Modulus

\* At the wrap Len loses its one guarantee in one case only: it counts too many
\* (and then nearly Modulus too many) just when the consumer both overtakes the
\* writePos it loaded and wraps around before it loads readPos (ring.go:221-225).
LenOvercountsOnlyAtWrap ==
    [][(lpc = "loadRead" /\ lpc' = "idle" /\ ~ReaderWrapped) =>
          lresult' <= lstart /\ lresult' <= Outstanding]_<<vars, lenVars>>
===============================================================================
