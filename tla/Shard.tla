-------------------------------- MODULE Shard --------------------------------
(***************************************************************************)
(* One shard of the ring (type Shard of ring.go) under concurrent calls:   *)
(* any number of goroutines inside write, one consumer inside tryRead.     *)
(* Every atomic load, store and compare-and-swap, and every plain access   *)
(* to slot.value, is a step of its own, so TLC and the proofs interleave   *)
(* them freely.  sync/atomic is sequentially consistent; the plain         *)
(* accesses need NoDataRace (below) to be read the same way.               *)
(*                                                                         *)
(* Positions are natural numbers; their width is a matter of another       *)
(* module.                                                                 *)
(***************************************************************************)
EXTENDS Integers, Sequences, FiniteSets

CONSTANTS
    Writers,    \* the goroutines that call write
    Values,     \* what they write
    Nil,        \* Go's nil: the cleared slot, and also a legal value
    Size,       \* Shard.size
    MaxPos      \* bound of the model: no call starts once writePos reaches it

ASSUME SizeAssumption == Size \in Nat \ {0}
ASSUME NilAssumption == Nil \in Values
ASSUME MaxPosAssumption == MaxPos \in Nat

VARIABLES
    writePos,   \* Shard.writePos
    readPos,    \* Shard.readPos
    seq,        \* slot.seq of every slot
    value,      \* slot.value of every slot
    wpc,        \* where each writer is in write
    wpos,       \* its local pos
    wval,       \* its argument
    rpc,        \* where the consumer is in tryRead
    rval,       \* its local value
    accepted,   \* history: the values written, in the order of their positions
    delivered   \* history: the values tryRead returned, in order

shared == <<writePos, readPos, seq, value>>
writerVars == <<wpc, wpos, wval>>
readerVars == <<rpc, rval>>
history == <<accepted, delivered>>
vars == <<writePos, readPos, seq, value, wpc, wpos, wval, rpc, rval,
          accepted, delivered>>

Slots == 0 .. Size - 1
Slot(p) == p % Size

\* Each slot starts with its own index as sequence number: free for the
\* write of that position.
Init ==
    /\ writePos = 0
    /\ readPos = 0
    /\ seq = [j \in Slots |-> j]
    /\ value = [j \in Slots |-> Nil]
    /\ wpc = [w \in Writers |-> "idle"]
    /\ wpos = [w \in Writers |-> 0]
    /\ wval = [w \in Writers |-> Nil]
    /\ rpc = "idle"
    /\ rval = Nil
    /\ accepted = <<>>
    /\ delivered = <<>>

-------------------------------------------------------------------------------
(* write *)

\* The writer leaves write: its locals are gone.
Return(w) ==
    /\ wpc' = [wpc EXCEPT ![w] = "idle"]
    /\ wpos' = [wpos EXCEPT ![w] = 0]
    /\ wval' = [wval EXCEPT ![w] = Nil]

Goto(w, label) ==
    /\ wpc' = [wpc EXCEPT ![w] = label]
    /\ UNCHANGED <<wpos, wval>>

StartWrite(w, v) ==
    /\ wpc[w] = "idle"
    /\ writePos < MaxPos
    /\ wpc' = [wpc EXCEPT ![w] = "load"]
    /\ wval' = [wval EXCEPT ![w] = v]
    /\ UNCHANGED <<shared, wpos, readerVars, history>>

LoadWritePos(w) ==
    /\ wpc[w] = "load"
    /\ wpos' = [wpos EXCEPT ![w] = writePos]
    /\ wpc' = [wpc EXCEPT ![w] = "check"]
    /\ UNCHANGED <<shared, wval, readerVars, history>>

\* Mutant: <= for =, so the unread value of the lap before looks free.
SlotFreeAtMost(w) == seq[Slot(wpos[w])] <= wpos[w]

\* The slot carries the position itself: initial, or released by the consumer.
SlotFree(w) == seq[Slot(wpos[w])] = wpos[w]

FindFree(w) ==
    /\ wpc[w] = "check"
    /\ SlotFree(w)
    /\ Goto(w, "claim")
    /\ UNCHANGED <<shared, readerVars, history>>

\* write returns false.
Reject(w) ==
    /\ wpc[w] = "check"
    /\ ~SlotFree(w)
    /\ Return(w)
    /\ UNCHANGED <<shared, readerVars, history>>

\* Mutant: a plain store in place of the compare-and-swap.
ClaimUnconditionally(w) ==
    /\ wpc[w] = "claim"
    /\ writePos' = wpos[w] + 1
    /\ accepted' = Append(accepted, wval[w])
    /\ Goto(w, "store")
    /\ UNCHANGED <<readPos, seq, value, readerVars, delivered>>

\* The compare-and-swap succeeds: the position belongs to w.
Claim(w) ==
    /\ wpc[w] = "claim"
    /\ writePos = wpos[w]
    /\ writePos' = wpos[w] + 1
    /\ accepted' = Append(accepted, wval[w])
    /\ Goto(w, "store")
    /\ UNCHANGED <<readPos, seq, value, readerVars, delivered>>

\* Another writer was faster: start over.
LoseClaim(w) ==
    /\ wpc[w] = "claim"
    /\ writePos # wpos[w]
    /\ Goto(w, "load")
    /\ UNCHANGED <<shared, readerVars, history>>

StoreValue(w) ==
    /\ wpc[w] = "store"
    /\ value' = [value EXCEPT ![Slot(wpos[w])] = wval[w]]
    /\ Goto(w, "publish")
    /\ UNCHANGED <<writePos, readPos, seq, readerVars, history>>

\* Mutant: the sequence number is not advanced, and the consumer waits forever.
PublishOwnPosition(w) ==
    /\ wpc[w] = "publish"
    /\ seq' = [seq EXCEPT ![Slot(wpos[w])] = wpos[w]]
    /\ Return(w)
    /\ UNCHANGED <<writePos, readPos, value, readerVars, history>>

\* The slot becomes readable and write returns true.
Publish(w) ==
    /\ wpc[w] = "publish"
    /\ seq' = [seq EXCEPT ![Slot(wpos[w])] = wpos[w] + 1]
    /\ Return(w)
    /\ UNCHANGED <<writePos, readPos, value, readerVars, history>>

\* A step inside a call of write (StartWrite is the caller's choice).
WriterStep(w) ==
    \/ LoadWritePos(w)
    \/ FindFree(w)
    \/ Reject(w)
    \/ Claim(w)
    \/ LoseClaim(w)
    \/ StoreValue(w)
    \/ Publish(w)

-------------------------------------------------------------------------------
(* tryRead.  Only the consumer stores readPos, so the copy it loads on     *)
(* entry is readPos itself until its last step.                            *)

StartRead ==
    /\ rpc = "idle"
    /\ rpc' = "check"
    /\ UNCHANGED <<shared, writerVars, rval, history>>

\* Mutants: readiness taken from the counters, which run ahead of the stores; an
\* off-by-one that never finds the head.
HeadReadyByCounter == readPos < writePos
HeadReadyAhead == seq[Slot(readPos)] > readPos + 1

HeadReady == seq[Slot(readPos)] = readPos + 1

\* tryRead returns nil, false.
ReadEmpty ==
    /\ rpc = "check"
    /\ ~HeadReady
    /\ rpc' = "idle"
    /\ UNCHANGED <<shared, writerVars, rval, history>>

FindReady ==
    /\ rpc = "check"
    /\ HeadReady
    /\ rpc' = "read"
    /\ UNCHANGED <<shared, writerVars, rval, history>>

ReadValue ==
    /\ rpc = "read"
    /\ rval' = value[Slot(readPos)]
    /\ rpc' = "clear"
    /\ UNCHANGED <<shared, writerVars, history>>

ClearValue ==
    /\ rpc = "clear"
    /\ value' = [value EXCEPT ![Slot(readPos)] = Nil]
    /\ rpc' = "release"
    /\ UNCHANGED <<writePos, readPos, seq, writerVars, rval, history>>

\* Mutant: the slot is released for the next position, not for the next lap.
ReleaseSlotForNext ==
    /\ rpc = "release"
    /\ seq' = [seq EXCEPT ![Slot(readPos)] = readPos + 1]
    /\ rpc' = "advance"
    /\ UNCHANGED <<writePos, readPos, value, writerVars, rval, history>>

\* The slot is free for the write one lap later.
ReleaseSlot ==
    /\ rpc = "release"
    /\ seq' = [seq EXCEPT ![Slot(readPos)] = readPos + Size]
    /\ rpc' = "advance"
    /\ UNCHANGED <<writePos, readPos, value, writerVars, rval, history>>

\* tryRead returns the value and true.
AdvanceReadPos ==
    /\ rpc = "advance"
    /\ readPos' = readPos + 1
    /\ delivered' = Append(delivered, rval)
    /\ rval' = Nil
    /\ rpc' = "idle"
    /\ UNCHANGED <<writePos, seq, value, writerVars, accepted>>

ReaderStep ==
    \/ StartRead
    \/ ReadEmpty
    \/ FindReady
    \/ ReadValue
    \/ ClearValue
    \/ ReleaseSlot
    \/ AdvanceReadPos

-------------------------------------------------------------------------------
Next ==
    \/ \E w \in Writers : WriterStep(w) \/ \E v \in Values : StartWrite(w, v)
    \/ ReaderStep

Spec == Init /\ [][Next]_vars

\* The Go scheduler runs every runnable goroutine again and again (preemption
\* since Go 1.14), and the consumer calls tryRead in a loop, as every consumer
\* of the repository does.  Nothing forces a producer to start a write.
Fairness ==
    /\ \A w \in Writers : WF_vars(WriterStep(w))
    /\ WF_vars(ReaderStep)

LiveSpec == Spec /\ Fairness

-------------------------------------------------------------------------------
(* Vocabulary of the properties *)

\* w owns the slot of its position: claimed, not yet published.
InFlight(w) == wpc[w] \in {"store", "publish"}

\* Position p is reserved by a write that has not published it.
Claimed(p) == \E w \in Writers : InFlight(w) /\ wpos[w] = p

\* The positions below are free for a write of the next lap.  Ahead of readPos
\* between the consumer's last two stores.
Released == IF rpc = "advance" THEN readPos + 1 ELSE readPos

\* The values whose slot the consumer has given back.
Taken == IF rpc = "advance" THEN Append(delivered, rval) ELSE delivered

\* The places of accepted whose write has published them.
Committed == {i \in 1 .. Len(accepted) : ~Claimed(i - 1)}

-------------------------------------------------------------------------------
(* Properties *)

\* The values of all variables stay in their types.
TypeOK ==
    /\ writePos \in Nat
    /\ readPos \in Nat
    /\ seq \in [Slots -> Nat]
    /\ value \in [Slots -> Values]
    /\ wpc \in [Writers -> {"idle", "load", "check", "claim", "store", "publish"}]
    /\ wpos \in [Writers -> Nat]
    /\ wval \in [Writers -> Values]
    /\ rpc \in {"idle", "check", "read", "clear", "release", "advance"}
    /\ rval \in Values
    /\ accepted \in Seq(Values)
    /\ delivered \in Seq(Values)

\* What tryRead returns is exactly what write accepted, each value once and in
\* the order in which the writers won their positions, whatever the
\* interleaving: nothing is lost, invented, duplicated, torn or reordered.
Fifo ==
    /\ Len(delivered) <= Len(accepted)
    /\ \A i \in 1 .. Len(delivered) : delivered[i] = accepted[i]

\* The plain accesses to slot.value (ring.go:125, 162, 165) never race: while
\* one goroutine is about to store the value of a slot, no other is about to
\* store, load or clear the value of the same slot.
NoDataRace ==
    \A w \in Writers : wpc[w] = "store" =>
        /\ \A x \in Writers \ {w} :
              wpc[x] = "store" => Slot(wpos[x]) # Slot(wpos[w])
        /\ rpc \in {"read", "clear"} => Slot(readPos) # Slot(wpos[w])

\* How far writePos runs ahead of readPos: one lap (README.md:623 promises no
\* more), and one position more only while the consumer stands between giving the
\* slot back and moving readPos (ring.go:169 and 172).
OverrunOnlyInWindow ==
    writePos - readPos <= IF rpc = "advance" THEN Size + 1 ELSE Size

\* A write that is refused (ring.go:111) found the shard full, every slot held
\* by an unreleased position, or lost its position to another writer since it
\* loaded writePos: a shard with room refuses nobody who reads it alone.
RejectionJustified ==
    [][\A w \in Writers : (wpc[w] = "check" /\ wpc'[w] = "idle") =>
          \/ writePos - Released = Size
          \/ writePos > wpos[w]]_vars

\* A write is accepted only when a slot is free: the position it wins is less
\* than one lap ahead of what the consumer released.
AcceptedOnlyWithRoom ==
    [][writePos' > writePos => writePos - Released < Size]_vars

\* tryRead reports emptiness only when the oldest undelivered value is not
\* published: there is none, or its writer is still between the claim and the
\* store of the sequence number.
EmptyJustified ==
    [][(rpc = "check" /\ rpc' = "idle") => Len(delivered) + 1 \notin Committed]_vars

\* The shard implements the two-step bounded queue.
Queue == INSTANCE BoundedQueue WITH
            Capacity <- Size, log <- accepted, committed <- Committed, out <- Taken
ImplementsQueue == Queue!QueueSpec

\* The positions the bounded model can reach.
Positions == 1 .. MaxPos + Cardinality(Writers)

\* Every accepted value is delivered in the end: no interleaving of writers
\* leaves a sequence number the consumer waits for forever.
EverythingDelivered ==
    \A i \in Positions : Len(accepted) >= i ~> Len(delivered) >= i

-------------------------------------------------------------------------------
(* The inductive invariant *)

\* The consumer's and the writers' counters fit one lap.
CountersOK ==
    /\ Len(accepted) = writePos
    /\ Len(delivered) = readPos
    /\ Released <= writePos
    /\ writePos <= Released + Size

\* Every position of the current lap has a slot, and the slot's sequence number
\* says what has happened to the position: p itself while it is free or
\* claimed, p + 1 once it is published.
SeqOK ==
    \A p \in Released .. Released + Size - 1 :
        seq[Slot(p)] = IF p < writePos /\ ~Claimed(p) THEN p + 1 ELSE p

\* A published position that the consumer has not cleared holds its value.
ValueOK ==
    \A p \in readPos .. writePos - 1 :
        (~Claimed(p) /\ (p = readPos => rpc \notin {"release", "advance"}))
            => value[Slot(p)] = accepted[p + 1]

\* What a writer knows: its position is not ahead of writePos; between finding
\* the slot free and the compare-and-swap either the position is still free or
\* the swap is going to fail; a claimed position is its alone.
WritersOK ==
    \A w \in Writers :
        /\ wpos[w] <= writePos
        /\ (wpc[w] = "claim" /\ wpos[w] = writePos) => writePos < Released + Size
        /\ InFlight(w) =>
              /\ Released <= wpos[w]
              /\ wpos[w] < writePos
              /\ accepted[wpos[w] + 1] = wval[w]
              /\ \A x \in Writers \ {w} : InFlight(x) => wpos[x] # wpos[w]
        /\ wpc[w] = "publish" => value[Slot(wpos[w])] = wval[w]

\* What the consumer knows: inside the slot the head is published, and its copy
\* of the value is the accepted one.
ReaderOK ==
    /\ rpc \in {"read", "clear", "release"} =>
          readPos < writePos /\ ~Claimed(readPos)
    /\ rpc \in {"clear", "release", "advance"} => rval = accepted[readPos + 1]

Inv ==
    /\ TypeOK
    /\ CountersOK
    /\ SeqOK
    /\ ValueOK
    /\ WritersOK
    /\ ReaderOK
    /\ Fifo
===============================================================================
