----------------------------- MODULE ShardedRing -----------------------------
(***************************************************************************)
(* The ring of ring.go with the writers of strategies.go: producers that   *)
(* write to the shard of their ID, or roam over the shards when theirs     *)
(* refuses, and one consumer that scans the shards with TryRead and        *)
(* ReadBatchInto.                                                          *)
(* A shard is here what Shard is proved to implement (BoundedQueue): a     *)
(* write claims a place and commits it later, or is refused for one of the *)
(* reasons Shard's RejectionJustified allows; tryRead takes the head when  *)
(* it is committed.  A scan of several shards is not atomic: producers run *)
(* between its steps.  What RetryWriter counts (attempts, cycles, waits)   *)
(* is left open here: a refusal is followed by another attempt, by the     *)
(* next shard, or, at the end of a cycle, by the next cycle or by a return *)
(* of false.                                                               *)
(***************************************************************************)
EXTENDS Integers, Sequences, FiniteSets, FiniteSetsExt, Routes

CONSTANTS
    NumShards,    \* ShardedRing.numShards, a power of two (mask = NumShards - 1)
    ShardSize,    \* the slots of each shard
    Producers,    \* the producer IDs in use
    Strategy,     \* how each producer writes: "Write" for ShardedRing.Write, or
                  \* the strategy of its Writer
    BatchSizes,   \* the maxItems with which the consumer calls ReadBatchInto
    MaxWrites,    \* bound of the model: values accepted, per producer
    StartModulus  \* the width of readStartShard: 2^64 in the code

ASSUME RingAssumption ==
    /\ NumShards \in Nat \ {0}
    /\ ShardSize \in Nat \ {0, 1}
    /\ Producers \subseteq Nat
    /\ BatchSizes \subseteq Nat \ {0}
    /\ DOMAIN Strategy = Producers
    /\ MaxWrites \in [Producers -> Nat]
    /\ StartModulus \in Nat \ {0}
    /\ StartModulus % NumShards = 0

Shards == 0 .. NumShards - 1

VARIABLES
    log,        \* per shard: the values accepted, in the order of their claims
    committed,  \* per shard: the places of log that are published
    taken,      \* per shard: how many values the consumer has removed
    ppc,        \* where each producer is in Write
    pseen,      \* how many claims its shard had when the producer loaded writePos
    pshard,     \* the shard it is trying
    pturn,      \* how many shards of its cycle have refused
    pplace,     \* the place the producer has claimed
    pcount,     \* how many of its values have been accepted
    readStartShard,
    cpc,        \* "idle" or "scan": whether the consumer is inside a read
    start,      \* its local start
    offset,     \* its local i
    limit,      \* 1 in TryRead, maxItems in ReadBatchInto
    result,     \* the values collected by this call
    received,   \* history: all values returned by reads
    ready0,     \* history: per shard, how many values were removable or removed
                \* when the call began
    taken0,     \* history: taken when the call began
    passedOver  \* history: per shard, successive reads that left its head behind,
                \* counted up to NumShards

producerVars == <<ppc, pseen, pshard, pturn, pplace, pcount>>
callVars == <<cpc, start, offset, limit, result, ready0, taken0>>
vars == <<log, committed, taken, ppc, pseen, pshard, pturn, pplace, pcount,
          readStartShard, cpc, start, offset, limit, result, received, ready0, taken0, passedOver>>

\* Mutant: the producer goes round the shards instead of staying with its own.
selectShardByCount(p) == (p + pcount[p]) % NumShards

selectShard(p) == p % NumShards

Init ==
    /\ log = [s \in Shards |-> <<>>]
    /\ committed = [s \in Shards |-> {}]
    /\ taken = [s \in Shards |-> 0]
    /\ ppc = [p \in Producers |-> "idle"]
    /\ pseen = [p \in Producers |-> 0]
    /\ pshard = [p \in Producers |-> p % NumShards]
    /\ pturn = [p \in Producers |-> 0]
    /\ pplace = [p \in Producers |-> 0]
    /\ pcount = [p \in Producers |-> 0]
    /\ readStartShard = 0
    /\ cpc = "idle"
    /\ start = 0
    /\ offset = 0
    /\ limit = 0
    /\ result = <<>>
    /\ received = <<>>
    /\ ready0 = [s \in Shards |-> 0]
    /\ taken0 = [s \in Shards |-> 0]
    /\ passedOver = [s \in Shards |-> 0]

-------------------------------------------------------------------------------
(* Write.  The value is the producer's ID and the number of its writes. *)

Full(s) == Len(log[s]) - taken[s] = ShardSize

\* p calls write on shard s, the turn-th of its cycle, and loads writePos.
Try(p, s, turn) ==
    /\ ppc' = [ppc EXCEPT ![p] = "try"]
    /\ pshard' = [pshard EXCEPT ![p] = s]
    /\ pturn' = [pturn EXCEPT ![p] = turn]
    /\ pseen' = [pseen EXCEPT ![p] = Len(log[s])]

TryTurn(p, turn) ==
    \E s \in ShardsAt(Strategy[p], selectShard(p), NumShards, turn) : Try(p, s, turn)

Return(p) ==
    /\ ppc' = [ppc EXCEPT ![p] = "idle"]
    /\ pshard' = [pshard EXCEPT ![p] = p % NumShards]
    /\ pturn' = [pturn EXCEPT ![p] = 0]
    /\ pseen' = [pseen EXCEPT ![p] = 0]

BeginWrite(p) ==
    /\ ppc[p] = "idle"
    /\ pcount[p] < MaxWrites[p]
    /\ TryTurn(p, 0)
    /\ UNCHANGED <<log, committed, taken, pplace, pcount, readStartShard,
                   callVars, received, passedOver>>

\* Mutant: the sequence number of the slot is not looked at.
RoomAlways(s) == TRUE

HasRoom(s) == ~Full(s)

ClaimPlace(p) ==
    LET s == pshard[p] IN
    /\ ppc[p] = "try"
    /\ HasRoom(s)
    /\ log' = [log EXCEPT ![s] = Append(@, <<p, pcount[p] + 1>>)]
    /\ pplace' = [pplace EXCEPT ![p] = Len(log[s]) + 1]
    /\ pcount' = [pcount EXCEPT ![p] = @ + 1]
    /\ ppc' = [ppc EXCEPT ![p] = "store"]
    /\ UNCHANGED <<committed, taken, pseen, pshard, pturn, readStartShard,
                   callVars, received, passedOver>>

\* Mutant: the store into the slot goes to the next shard.
CommitElsewhere(p) ==
    LET s == (pshard[p] + 1) % NumShards IN
    /\ ppc[p] = "store"
    /\ committed' = [committed EXCEPT ![s] = @ \cup {pplace[p]}]
    /\ pplace' = [pplace EXCEPT ![p] = 0]
    /\ Return(p)
    /\ UNCHANGED <<log, taken, pcount, readStartShard, callVars, received,
                   passedOver>>

\* Write returns true.
CommitPlace(p) ==
    LET s == pshard[p] IN
    /\ ppc[p] = "store"
    /\ committed' = [committed EXCEPT ![s] = @ \cup {pplace[p]}]
    /\ pplace' = [pplace EXCEPT ![p] = 0]
    /\ Return(p)
    /\ UNCHANGED <<log, taken, pcount, readStartShard, callVars, received,
                   passedOver>>

\* shard.write returns false: the shard is full, or another producer has claimed
\* a place of it since this one loaded writePos.
WriteRefused(p) ==
    /\ ppc[p] = "try"
    /\ Full(pshard[p]) \/ Len(log[pshard[p]]) > pseen[p]
    /\ UNCHANGED <<log, committed, taken, pplace, pcount, readStartShard,
                   callVars, received, passedOver>>

CycleOver(p) == pturn[p] + 1 >= ShardsPerCycle(Strategy[p], NumShards)

\* An attempt left on the same shard.
RetryShard(p) ==
    /\ Strategy[p] # "Write"
    /\ WriteRefused(p)
    /\ Try(p, pshard[p], pturn[p])

\* The next shard of the cycle.
MoveOn(p) ==
    /\ ~CycleOver(p)
    /\ WriteRefused(p)
    /\ TryTurn(p, pturn[p] + 1)

\* After the wait, the next cycle.
StartOver(p) ==
    /\ Strategy[p] # "Write"
    /\ CycleOver(p)
    /\ WriteRefused(p)
    /\ TryTurn(p, 0)

\* Write returns false: it makes one attempt only, or the budget is spent.
RejectWrite(p) ==
    /\ CycleOver(p)
    /\ WriteRefused(p)
    /\ Return(p)

-------------------------------------------------------------------------------
(* TryRead and ReadBatchInto *)

\* Mutant: a claimed place is read before its value is published.
HeadReadyUncommitted(s) == taken[s] < Len(log[s])

HeadReady(s) == taken[s] + 1 \in committed[s]

\* The number of places of s that are published without a gap after them.
Frontier(s) ==
    CHOOSE n \in taken[s] .. Len(log[s]) :
        /\ \A i \in taken[s] + 1 .. n : i \in committed[s]
        /\ n + 1 \notin committed[s]

NextStart == (readStartShard + 1) % StartModulus

BeginRead(items) ==
    /\ cpc = "idle"
    /\ cpc' = "scan"
    /\ start' = readStartShard
    /\ readStartShard' = NextStart
    /\ offset' = 0
    /\ limit' = items
    /\ result' = <<>>
    /\ ready0' = [s \in Shards |-> Frontier(s)]
    /\ taken0' = taken
    /\ UNCHANGED <<log, committed, taken, producerVars, received, passedOver>>

TryRead == BeginRead(1)

ReadBatchInto(maxItems) == BeginRead(maxItems)

\* Mutant: the loop stops one shard short.
ScanningButLast == offset < NumShards - 1 /\ Len(result) < limit

\* The loop condition of both functions: a shard is left to scan and room for
\* another item (TryRead returns with its first).
Scanning == offset < NumShards /\ Len(result) < limit

\* Mutant: the scan always begins with the first shard.
ScanFromFirst == offset % NumShards

\* Mutant: the modulus is one too small, so the last shard is never read.
ScanAllButLast == (start + offset) % (NumShards - 1)

ScanShard == (start + offset) % NumShards

\* tryRead on the scanned shard returns a value; a batch stays on the shard.
TakeHead ==
    /\ cpc = "scan"
    /\ Scanning
    /\ HeadReady(ScanShard)
    /\ taken' = [taken EXCEPT ![ScanShard] = @ + 1]
    /\ result' = Append(result, log[ScanShard][taken[ScanShard] + 1])
    /\ UNCHANGED <<log, committed, producerVars, readStartShard, cpc, start,
                   offset, limit, received, ready0, taken0, passedOver>>

\* tryRead on the scanned shard returns false: go on with the next.
SkipShard ==
    /\ cpc = "scan"
    /\ Scanning
    /\ ~HeadReady(ScanShard)
    /\ offset' = offset + 1
    /\ UNCHANGED <<log, committed, taken, producerVars, readStartShard, cpc, start,
                   limit, result, received, ready0, taken0, passedOver>>

\* The caller has the values: what the function appended to its result.
ReturnRead ==
    /\ cpc = "scan"
    /\ ~Scanning
    /\ received' = received \o result
    /\ passedOver' = [s \in Shards |->
                         IF ready0[s] > taken0[s] /\ taken[s] = taken0[s]
                         THEN Min({passedOver[s] + 1, NumShards}) ELSE 0]
    /\ cpc' = "idle"
    /\ start' = 0
    /\ offset' = 0
    /\ limit' = 0
    /\ result' = <<>>
    /\ ready0' = [s \in Shards |-> 0]
    /\ taken0' = [s \in Shards |-> 0]
    /\ UNCHANGED <<log, committed, taken, producerVars, readStartShard>>

-------------------------------------------------------------------------------
ProducerStep(p) ==
    \/ ClaimPlace(p)
    \/ CommitPlace(p)
    \/ RetryShard(p)
    \/ MoveOn(p)
    \/ StartOver(p)
    \/ RejectWrite(p)

ConsumerStep == TakeHead \/ SkipShard \/ ReturnRead

Next ==
    \/ \E p \in Producers : BeginWrite(p) \/ ProducerStep(p)
    \/ TryRead
    \/ \E maxItems \in BatchSizes : ReadBatchInto(maxItems)
    \/ ConsumerStep

Spec == Init /\ [][Next]_vars

\* Producers inside Write keep running; the consumer calls TryRead in a loop.
LiveSpec ==
    /\ Spec
    /\ \A p \in Producers : WF_vars(ProducerStep(p))
    /\ WF_vars(TryRead \/ ConsumerStep)

-------------------------------------------------------------------------------
(* Properties *)

\* The values the producers can write.
AllWrites == UNION {{p} \X (1 .. MaxWrites[p]) : p \in Producers}

TypeOK ==
    /\ log \in [Shards -> Seq(AllWrites)]
    /\ committed \in [Shards -> SUBSET Nat]
    /\ taken \in [Shards -> Nat]
    /\ ppc \in [Producers -> {"idle", "try", "store"}]
    /\ pseen \in [Producers -> Nat]
    /\ pshard \in [Producers -> Shards]
    /\ pturn \in [Producers -> Nat]
    /\ pplace \in [Producers -> Nat]
    /\ pcount \in [Producers -> Nat]
    /\ readStartShard \in 0 .. StartModulus - 1
    /\ cpc \in {"idle", "scan"}
    /\ start \in 0 .. StartModulus - 1
    /\ offset \in 0 .. NumShards
    /\ limit \in Nat
    /\ result \in Seq(AllWrites)
    /\ received \in Seq(AllWrites)
    /\ ready0 \in [Shards -> Nat]
    /\ taken0 \in [Shards -> Nat]
    /\ passedOver \in [Shards -> Nat]

\* Everything the consumer has, in the order in which it removed it.
Got == received \o result

StaysHome(p) == ShardsPerCycle(Strategy[p], NumShards) = 1

\* The values of a producer that stays with its shard reach the consumer in the
\* order in which they were written, each once and without gaps, whatever the
\* rotation of the scans and whatever the others do (ring.go:88-98): the n-th
\* value the consumer has of the producer is the n-th that it wrote.
ProducerOrder ==
    \A i \in 1 .. Len(Got) : StaysHome(Got[i][1]) =>
        Got[i][2] = Cardinality({j \in 1 .. i : Got[j][1] = Got[i][1]})

InOneShard(x, y) ==
    \E s \in Shards : \E i, j \in 1 .. Len(log[s]) : log[s][i] = x /\ log[s][j] = y

\* The earlier values of its producer still missing when the i-th value was taken.
Overtaken(i) ==
    {n \in 1 .. Got[i][2] - 1 : \A j \in 1 .. i - 1 : Got[j] # <<Got[i][1], n>>}

\* The values of a roaming producer may overtake one another
\* (DESIGN-RETRY-STRATEGIES.md:514-528), but no value comes twice, only values in
\* another shard are overtaken, and never more of them than the other shards hold.
OvertakingBounded ==
    \A i \in 1 .. Len(Got) :
        /\ \A j \in 1 .. i - 1 : Got[j] # Got[i]
        /\ \A n \in Overtaken(i) : ~InOneShard(<<Got[i][1], n>>, Got[i])
        /\ Cardinality(Overtaken(i)) <= (NumShards - 1) * ShardSize

\* A read that comes back with less than it could take has missed nothing that
\* was there when it began: every value published at that moment, up to the
\* first unpublished one of its shard, is in the consumer's hands.  For TryRead
\* this makes "false" the state of the whole ring at the start of the call,
\* although the scan takes several steps (ring.go:137-147, 194-213).
ShortReadIsComplete ==
    [][(cpc = "scan" /\ cpc' = "idle" /\ Len(result) < limit) =>
          \A s \in Shards : taken[s] >= ready0[s]]_vars

\* The rotating start lets no shard wait: a shard with a value to deliver is
\* passed over by at most NumShards - 1 successive reads, however busy the other
\* shards are (ring.go:138-139, 196-197).
RotationIsFair == \A s \in Shards : passedOver[s] < NumShards

\* Each shard of the ring is a bounded queue, the one Shard implements.
Queue(s) == INSTANCE BoundedQueue WITH
               Values <- AllWrites,
               Capacity <- ShardSize,
               log <- log[s],
               committed <- committed[s],
               out <- SubSeq(log[s], 1, taken[s])
ShardsAreQueues ==
    /\ \A s \in Shards : Queue(s)!QueueInit
    /\ [][\A s \in Shards :
             Queue(s)!QueueNext \/ UNCHANGED <<log[s], committed[s], taken[s]>>]_vars

\* Every value that Write accepted is returned by a read in the end, from
\* whichever shard it is in.
EverythingReceived ==
    \A p \in Producers : \A n \in 1 .. MaxWrites[p] :
        pcount[p] >= n ~> \E i \in 1 .. Len(received) : received[i] = <<p, n>>

-------------------------------------------------------------------------------
(* The inductive invariant *)

\* Of each shard, what is taken is published, what is published is claimed, and
\* what is claimed and not taken fits the slots.
ShardsOK ==
    \A s \in Shards :
        /\ 1 .. taken[s] \subseteq committed[s]
        /\ committed[s] \subseteq 1 .. Len(log[s])
        /\ taken[s] <= Len(log[s])
        /\ Len(log[s]) <= taken[s] + ShardSize

Placed(x) == \E s \in Shards : \E i \in 1 .. Len(log[s]) : log[s][i] = x

\* Every accepted value is in one place, and the values of a producer are in
\* order within a shard.
WritesOK ==
    /\ \A s \in Shards : \A i \in 1 .. Len(log[s]) : log[s][i][2] <= pcount[log[s][i][1]]
    /\ \A p \in Producers : \A n \in 1 .. pcount[p] : Placed(<<p, n>>)
    /\ \A s, t \in Shards : \A i \in 1 .. Len(log[s]), j \in 1 .. Len(log[t]) :
          log[s][i] = log[t][j] => s = t /\ i = j
    /\ \A s \in Shards : \A i, j \in 1 .. Len(log[s]) :
          i < j /\ log[s][i][1] = log[s][j][1] => log[s][i][2] < log[s][j][2]
    /\ \A s \in Shards : \A i \in 1 .. Len(log[s]) :
          StaysHome(log[s][i][1]) => s = selectShard(log[s][i][1])

\* What a producer knows: the place it has claimed is its own and unpublished,
\* and if it stays with its shard it is there.
ProducersOK ==
    \A p \in Producers :
        /\ StaysHome(p) => pshard[p] = selectShard(p)
        /\ ppc[p] = "try" => pcount[p] < MaxWrites[p]
        /\ ppc[p] = "store" =>
              /\ pplace[p] \in 1 .. Len(log[pshard[p]])
              /\ pplace[p] \notin committed[pshard[p]]
              /\ log[pshard[p]][pplace[p]][1] = p

\* The consumer has what is taken, each value once, and the values of a shard in
\* the order of their places.
DeliveryOK ==
    /\ \A i \in 1 .. Len(Got) :
          \E s \in Shards : \E k \in 1 .. taken[s] : Got[i] = log[s][k]
    /\ \A s \in Shards : \A k \in 1 .. taken[s] : \E i \in 1 .. Len(Got) : Got[i] = log[s][k]
    /\ \A i, j \in 1 .. Len(Got) : Got[i] = Got[j] => i = j
    /\ \A s \in Shards : \A k, l \in 1 .. taken[s] : \A i, j \in 1 .. Len(Got) :
          k < l /\ Got[i] = log[s][k] /\ Got[j] = log[s][l] => i < j

\* A value overtakes no more than the other shards hold.
OvertakenFits ==
    \A i \in 1 .. Len(Got) : Cardinality(Overtaken(i)) <= (NumShards - 1) * ShardSize

\* A read in progress: what was ready when it began is still published, it has
\* left no such value behind in the shards it has passed, and a value it has
\* while it is still at its first shard came from there.
ScanOK ==
    /\ cpc = "idle" => result = <<>>
    /\ cpc = "scan" =>
          /\ readStartShard = (start + 1) % StartModulus
          /\ limit > 0
          /\ \A s \in Shards :
                /\ taken0[s] <= taken[s]
                /\ 1 .. ready0[s] \subseteq committed[s]
          /\ \A d \in 0 .. offset - 1 :
                ready0[(start + d) % NumShards] <= taken[(start + d) % NumShards]
          /\ offset = 0 /\ result # <<>> =>
                taken0[start % NumShards] < taken[start % NumShards]

\* The shard that is first in the latest read has been passed over by none, the
\* one before it by at most one, and so on round the ring.
RotationOK ==
    \A s \in Shards :
        passedOver[s] <=
            ((IF cpc = "idle" THEN readStartShard ELSE start) + (NumShards - 1 - s)) % NumShards

Inv ==
    /\ TypeOK
    /\ ShardsOK
    /\ WritesOK
    /\ ProducersOK
    /\ DeliveryOK
    /\ OvertakenFits
    /\ ScanOK
    /\ RotationOK
===============================================================================
