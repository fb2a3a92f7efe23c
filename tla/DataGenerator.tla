---------------------------- MODULE DataGenerator ----------------------------
(***************************************************************************)
(* data-generator/data-generator.go: one goroutine that calls Read in a    *)
(* loop, another that calls Stats, a context that may be cancelled at any  *)
(* moment, and time that passes while Read busy-waits.  The three ways of  *)
(* pacing are the three modes: the schedule of waitHighRate, the token     *)
(* bucket of golang.org/x/time/rate (external), and none.                  *)
(*                                                                         *)
(* The sleep of waitHighRate for intervals above one millisecond is left   *)
(* out: high-rate mode means more than 1000 packets a second, so it is     *)
(* never reached.                                                          *)
(***************************************************************************)
EXTENDS Integers, Sequences

CONSTANTS
    Modes,        \* subset of {"high", "low", "unlimited"}
    Interval,     \* time between two packets of the target rate
    Burst,        \* tokens of the limiter in low-rate mode: 2 in the code
    PayloadSize,
    BufferSizes,  \* lengths of the buffers Read is called with
    CheckEvery,   \* busy-wait rounds between two looks at the context: 1000
    MaxTime,      \* bound of the model: the clock stops there
    MaxPackets    \* bound of the model: no Read begins after that many

ASSUME GeneratorAssumption ==
    /\ Modes \subseteq {"high", "low", "unlimited"}
    /\ {Interval, Burst, PayloadSize, CheckEvery} \subseteq Nat \ {0}
    /\ BufferSizes \subseteq Nat
    /\ {MaxTime, MaxPackets} \subseteq Nat

VARIABLES
    mode,
    now,          \* time since the start
    cancelled,    \* the context is done
    tokens,       \* the limiter's bucket, a token being Interval units
    pc,           \* where Read is
    target,       \* its targetTime
    spins,        \* its checkCounter
    n,            \* the bytes it is going to return
    packetCount,
    packetsGenerated,
    bytesGenerated,
    due,          \* history: due[k] is the number of bytes in the first k packets
    atCancel,     \* history: packets counted when the context was cancelled
    spc,          \* where Stats is
    spackets,     \* what it has loaded
    sbytes

readVars == <<pc, target, spins, n, packetCount>>
counters == <<packetsGenerated, bytesGenerated, due>>
statsVars == <<spc, spackets, sbytes>>
clock == <<now, tokens>>
vars == <<mode, now, cancelled, tokens, pc, target, spins, n, packetCount,
          packetsGenerated, bytesGenerated, due, atCancel, spc, spackets, sbytes>>

Least(a, b) == IF a < b THEN a ELSE b

\* A new limiter has its burst available.
Init ==
    /\ mode \in Modes
    /\ now = 0
    /\ cancelled = FALSE
    /\ tokens = Burst * Interval
    /\ pc = "idle"
    /\ target = 0
    /\ spins = 0
    /\ n = 0
    /\ packetCount = 0
    /\ packetsGenerated = 0
    /\ bytesGenerated = 0
    /\ due = <<>>
    /\ atCancel = 0
    /\ spc = "idle"
    /\ spackets = 0
    /\ sbytes = 0

-------------------------------------------------------------------------------
(* The environment *)

Tick ==
    /\ now < MaxTime
    /\ now' = now + 1
    /\ tokens' = Least(tokens + 1, Burst * Interval)
    /\ UNCHANGED <<mode, cancelled, readVars, counters, atCancel, statsVars>>

Cancel ==
    /\ ~cancelled
    /\ cancelled' = TRUE
    /\ atCancel' = packetsGenerated
    /\ UNCHANGED <<mode, clock, readVars, counters, statsVars>>

-------------------------------------------------------------------------------
(* Read *)

\* Mutant: Read does not look at the context first.
MayReadAlways == pc = "idle"

\* Read on a cancelled context returns io.EOF at once and changes nothing.
MayRead == pc = "idle" /\ ~cancelled

\* Mutant: the packet count is left alone, so every packet is due at once.
NextPacketUncounted == packetCount

NextPacket == packetCount + 1

StartRead(len) ==
    /\ MayRead
    /\ packetsGenerated < MaxPackets
    /\ n' = Least(len, PayloadSize)
    /\ CASE mode = "high" ->
              /\ target' = packetCount * Interval
              /\ packetCount' = NextPacket
              /\ spins' = 0
              /\ pc' = "pace"
         [] mode = "low" ->
              /\ pc' = "limit"
              /\ UNCHANGED <<target, packetCount, spins>>
         [] mode = "unlimited" ->
              /\ pc' = "copy"
              /\ UNCHANGED <<target, packetCount, spins>>
    /\ UNCHANGED <<mode, clock, cancelled, counters, atCancel, statsVars>>

Continue(label) ==
    /\ pc' = label
    /\ UNCHANGED <<mode, clock, cancelled, target, n, packetCount, counters,
                   atCancel, statsVars>>

\* waitHighRate: the packet's time has come, whether or not the context is done.
PaceReached ==
    /\ pc = "pace"
    /\ now >= target
    /\ spins' = 0
    /\ Continue("copy")

PaceSpin ==
    /\ pc = "pace"
    /\ now < target
    /\ spins + 1 < CheckEvery
    /\ spins' = spins + 1
    /\ Continue("pace")

\* Mutant: the busy-wait never looks at the context.
PaceNeverCheck ==
    /\ pc = "pace"
    /\ now < target
    /\ spins + 1 >= CheckEvery
    /\ spins' = 0
    /\ Continue("pace")

\* Every so many rounds it looks at the context; Read then returns io.EOF.
PaceCheck ==
    /\ pc = "pace"
    /\ now < target
    /\ spins + 1 >= CheckEvery
    /\ spins' = 0
    /\ Continue(IF cancelled THEN "idle" ELSE "pace")

\* Mutant: the token is not taken from the bucket.
TakeNoToken ==
    /\ pc = "limit"
    /\ tokens >= Interval
    /\ pc' = "copy"
    /\ UNCHANGED <<mode, now, tokens, cancelled, target, spins, n, packetCount,
                   counters, atCancel, statsVars>>

\* Limiter.Wait: a token is there, or the context ends the wait.
TakeToken ==
    /\ pc = "limit"
    /\ tokens >= Interval
    /\ tokens' = tokens - Interval
    /\ pc' = "copy"
    /\ UNCHANGED <<mode, now, cancelled, target, spins, n, packetCount,
                   counters, atCancel, statsVars>>

LimitCancelled ==
    /\ pc = "limit"
    /\ cancelled
    /\ spins' = 0
    /\ Continue("idle")

\* The payload is copied; the two counters are updated one after the other.
CountPacket ==
    /\ pc = "copy"
    /\ packetsGenerated' = packetsGenerated + 1
    /\ due' = Append(due, bytesGenerated + n)
    /\ pc' = "count"
    /\ UNCHANGED <<mode, clock, cancelled, target, spins, n, packetCount,
                   bytesGenerated, atCancel, statsVars>>

\* Mutant: the bytes of a packet cut short by the buffer are not counted.
CountFullPackets ==
    /\ pc = "count"
    /\ bytesGenerated' = IF n = PayloadSize THEN bytesGenerated + n ELSE bytesGenerated
    /\ pc' = "idle"
    /\ n' = 0
    /\ UNCHANGED <<mode, clock, cancelled, target, spins, packetCount,
                   packetsGenerated, due, atCancel, statsVars>>

CountBytes ==
    /\ pc = "count"
    /\ bytesGenerated' = bytesGenerated + n
    /\ pc' = "idle"
    /\ n' = 0
    /\ UNCHANGED <<mode, clock, cancelled, target, spins, packetCount,
                   packetsGenerated, due, atCancel, statsVars>>

ReadStep ==
    \/ PaceReached
    \/ PaceSpin
    \/ PaceCheck
    \/ TakeToken
    \/ LimitCancelled
    \/ CountPacket
    \/ CountBytes

-------------------------------------------------------------------------------
(* Stats, in another goroutine *)

StatsPackets ==
    /\ spc = "idle"
    /\ spackets' = packetsGenerated
    /\ sbytes' = 0
    /\ spc' = "bytes"
    /\ UNCHANGED <<mode, clock, cancelled, readVars, counters, atCancel>>

StatsBytes ==
    /\ spc = "bytes"
    /\ sbytes' = bytesGenerated
    /\ spc' = "idle"
    /\ UNCHANGED <<mode, clock, cancelled, readVars, counters, atCancel, spackets>>

-------------------------------------------------------------------------------
Next ==
    \/ Tick
    \/ Cancel
    \/ \E len \in BufferSizes : StartRead(len)
    \/ ReadStep
    \/ StatsPackets
    \/ StatsBytes

Spec == Init /\ [][Next]_vars

\* The goroutine inside Read keeps running; time need not pass.
LiveSpec == Spec /\ WF_vars(ReadStep)

-------------------------------------------------------------------------------
(* Properties *)

TypeOK ==
    /\ mode \in Modes
    /\ now \in 0 .. MaxTime
    /\ cancelled \in BOOLEAN
    /\ tokens \in 0 .. Burst * Interval
    /\ pc \in {"idle", "pace", "limit", "copy", "count"}
    /\ spins \in 0 .. CheckEvery - 1
    /\ n \in 0 .. PayloadSize
    /\ {target, packetCount, packetsGenerated, bytesGenerated, atCancel,
        spackets, sbytes} \subseteq Nat
    /\ due \in Seq(Nat) /\ Len(due) = packetsGenerated
    /\ spc \in {"idle", "bytes"}

\* The generator is never ahead of its target: the schedule of waitHighRate lets
\* packet k out no earlier than k intervals after the start, whatever happened
\* before, and the bucket adds only its burst.
NeverAhead ==
    /\ mode = "high" => packetsGenerated <= now \div Interval + 1
    /\ mode = "low" => packetsGenerated <= now \div Interval + Burst

\* After the context is cancelled at most the Read in progress still delivers.
OneAfterCancel == cancelled => packetsGenerated <= atCancel + 1

\* The statistics may be torn, but by one packet at most: of the packets Stats
\* counted, only the last can be missing from its bytes.
StatsAlmostConsistent ==
    [][(spc = "bytes" /\ spc' = "idle" /\ spackets > 1) =>
          sbytes' >= due[spackets - 1]]_vars

\* Once the context is cancelled the Read in progress returns, even if its
\* packet's time never comes.
CancelEndsRead == (cancelled /\ pc # "idle") ~> pc = "idle"

-------------------------------------------------------------------------------
(* The inductive invariant *)

\* The packet in hand is counted in the schedule, and is let out only when its
\* time has come.
ScheduleOK ==
    mode = "high" =>
        /\ pc # "limit"
        /\ packetsGenerated <= packetCount
        /\ packetsGenerated > 0 => (packetsGenerated - 1) * Interval <= now
        /\ pc \in {"pace", "copy"} =>
              /\ packetsGenerated < packetCount
              /\ target = (packetCount - 1) * Interval
        /\ pc = "copy" => target <= now

\* Every packet has cost a token, and so has the one in hand.
BucketOK ==
    mode = "low" =>
        /\ pc # "pace"
        /\ packetsGenerated * Interval + tokens + (IF pc = "copy" THEN Interval ELSE 0)
               <= now + Burst * Interval

\* At most one packet was on its way when the context was cancelled.
CancelOK ==
    cancelled =>
        packetsGenerated + (IF pc \in {"pace", "limit", "copy"} THEN 1 ELSE 0) <= atCancel + 1

\* Only the last packet may be missing from the bytes, and Stats is behind.
BytesOK ==
    /\ pc = "count" => packetsGenerated > 0 /\ due[packetsGenerated] = bytesGenerated + n
    /\ \A i \in 1 .. packetsGenerated :
          (pc = "count" /\ i = packetsGenerated) \/ due[i] <= bytesGenerated
    /\ spackets <= packetsGenerated

Inv ==
    /\ TypeOK
    /\ ScheduleOK
    /\ BucketOK
    /\ CancelOK
    /\ BytesOK
===============================================================================
