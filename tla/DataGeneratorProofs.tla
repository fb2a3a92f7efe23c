------------------------ MODULE DataGeneratorProofs ------------------------
(***************************************************************************)
(* The data generator is never ahead of its rate, delivers at most one     *)
(* packet after its context is cancelled, and its statistics are torn by   *)
(* at most one packet: for every interval, burst, payload and buffer, and  *)
(* wherever the clock stops.                                               *)
(***************************************************************************)
EXTENDS DataGenerator, Arithmetic

-------------------------------------------------------------------------------
(* Constants and types *)

LEMMA Constants ==
  /\ Modes \subseteq {"high", "low", "unlimited"}
  /\ Interval \in Nat \ {0} /\ Burst \in Nat \ {0} /\ PayloadSize \in Nat \ {0}
  /\ CheckEvery \in Nat \ {0} /\ BufferSizes \subseteq Nat
  /\ MaxTime \in Nat /\ MaxPackets \in Nat
BY GeneratorAssumption

Counters ==
  /\ target \in Nat /\ packetCount \in Nat /\ packetsGenerated \in Nat
  /\ bytesGenerated \in Nat /\ atCancel \in Nat /\ spackets \in Nat /\ sbytes \in Nat

LEMMA CounterTypes ==
  {target, packetCount, packetsGenerated, bytesGenerated, atCancel,
   spackets, sbytes} \subseteq Nat <=> Counters
BY DEF Counters

LEMMA NextCounterTypes ==
  {target', packetCount', packetsGenerated', bytesGenerated', atCancel',
   spackets', sbytes'} \subseteq Nat <=> Counters'
BY DEF Counters

\* What fits into t intervals by a certain time.
LEMMA Periods ==
  ASSUME NEW a \in Nat, NEW t \in Nat, a * Interval <= t
  PROVE  a <= t \div Interval
<1> DEFINE b == t \div Interval
           r == t % Interval
<1>1. Interval \in Nat \ {0}
  BY Constants
<1>2. b \in Nat /\ r \in 0 .. Interval - 1 /\ t = Interval * b + r
  BY <1>1, DivMod
<1> HIDE DEF b, r
<1>3. Interval * a \in Nat /\ Interval * b \in Nat /\ Interval * a = a * Interval
  BY <1>1, <1>2
<1>4. ~(b < a)
  <2> SUFFICES ASSUME b < a PROVE FALSE
    OBVIOUS
  <2>1. Interval * b + Interval <= Interval * a
    BY <1>1, <1>2, Multiples
  <2> QED
    BY <2>1, <1>1, <1>2, <1>3
<1> QED
  BY <1>2, <1>4 DEF b

LEMMA PeriodsPlus ==
  ASSUME NEW a \in Nat, NEW c \in Nat, NEW t \in Nat, a * Interval <= t + c * Interval
  PROVE  a <= t \div Interval + c
<1>0. Interval \in Nat \ {0}
  BY Constants
<1>1. CASE a <= c
  <2>1. t \div Interval \in Nat
    BY <1>0, DivMod
  <2> QED
    BY <1>1, <2>1
<1>2. CASE a > c
  <2>1. a - c \in Nat /\ (a - c) * Interval <= t
    <3>1. (a - c) * Interval = a * Interval - c * Interval
      BY <1>0, SMTT(20)
    <3>2. a * Interval \in Nat /\ c * Interval \in Nat
      BY <1>0
    <3> QED
      BY <3>1, <3>2, <1>2
  <2>2. a - c <= t \div Interval
    BY <2>1, Periods
  <2>3. t \div Interval \in Nat
    BY <1>0, DivMod
  <2> QED
    BY <2>2, <2>3
<1> QED
  BY <1>1, <1>2

\* NeverAhead follows from the state of the schedule, and of the bucket.
LEMMA RateKept ==
  ASSUME TypeOK, ScheduleOK, BucketOK
  PROVE  NeverAhead
<1>1. packetsGenerated \in Nat /\ now \in Nat /\ tokens \in Nat /\ Interval \in Nat \ {0}
      /\ Burst \in Nat \ {0} /\ now \div Interval \in Nat
  <2>1. packetsGenerated \in Nat /\ now \in Nat /\ tokens \in Nat
    BY CounterTypes, Constants DEF TypeOK, Counters
  <2>2. Interval \in Nat \ {0} /\ Burst \in Nat \ {0}
    BY Constants
  <2> QED
    BY <2>1, <2>2, DivMod
<1>2. ASSUME mode = "high" PROVE packetsGenerated <= now \div Interval + 1
  <2>1. CASE packetsGenerated = 0
    BY <2>1, <1>1
  <2>2. CASE packetsGenerated > 0
    <3>1. packetsGenerated - 1 \in Nat
      BY <2>2, <1>1
    <3>2. packetsGenerated - 1 <= now \div Interval
      BY <3>1, <2>2, <1>1, <1>2, Periods DEF ScheduleOK
    <3> QED
      BY <3>2, <1>1
  <2> QED
    BY <2>1, <2>2, <1>1
<1>3. ASSUME mode = "low" PROVE packetsGenerated <= now \div Interval + Burst
  <2>1. packetsGenerated * Interval \in Nat /\ Burst * Interval \in Nat
    BY <1>1
  <2>2. packetsGenerated * Interval <= now + Burst * Interval
    BY <2>1, <1>1, <1>3 DEF BucketOK
  <2> QED
    BY <2>2, <1>1, PeriodsPlus
<1> QED
  BY <1>2, <1>3 DEF NeverAhead

-------------------------------------------------------------------------------
(* The initial state and what a step leaves alone *)

LEMMA InitInv == Init => Inv
<1> SUFFICES ASSUME Init PROVE Inv
  OBVIOUS
<1>1. Burst * Interval \in Nat
  BY Constants
<1>2. TypeOK
  <2>1. Counters
    BY DEF Init, Counters
  <2>2. due \in Seq(Nat) /\ Len(due) = packetsGenerated
    BY DEF Init
  <2>3. /\ now \in 0 .. MaxTime /\ tokens \in 0 .. Burst * Interval
        /\ spins \in 0 .. CheckEvery - 1 /\ n \in 0 .. PayloadSize
    BY <1>1, Constants DEF Init
  <2> QED
    BY <2>1, <2>2, <2>3, CounterTypes DEF Init, TypeOK
<1>3. ScheduleOK /\ BucketOK
  BY <1>1, Constants DEF Init, ScheduleOK, BucketOK
<1>4. CancelOK /\ BytesOK
  BY DEF Init, CancelOK, BytesOK
<1> QED
  BY <1>2, <1>3, <1>4 DEF Inv

LEMMA SameSchedule ==
  ASSUME ScheduleOK, UNCHANGED <<mode, pc, packetCount, packetsGenerated, target>>,
         now \in Nat, now' \in Nat, now' >= now, Counters
  PROVE  ScheduleOK'
<1> DEFINE k == (packetsGenerated - 1) * Interval
<1>1. packetsGenerated > 0 => k \in Nat
  BY Constants DEF Counters
<1>2. packetsGenerated > 0 => k' = k
  OBVIOUS
<1> QED
  BY <1>1, <1>2 DEF ScheduleOK, Counters

LEMMA SameBucket ==
  ASSUME BucketOK, UNCHANGED <<mode, pc, packetsGenerated, now, tokens>>
  PROVE  BucketOK'
BY DEF BucketOK

LEMMA SameCancel ==
  ASSUME CancelOK, UNCHANGED <<cancelled, pc, packetsGenerated, atCancel>>
  PROVE  CancelOK'
BY DEF CancelOK

LEMMA SameBytes ==
  ASSUME BytesOK, UNCHANGED <<pc, packetsGenerated, due, bytesGenerated, n, spackets>>
  PROVE  BytesOK'
BY DEF BytesOK

\* While the packet is on its way nothing is counted.
LEMMA BytesOnTheWay ==
  ASSUME BytesOK, UNCHANGED <<packetsGenerated, due, bytesGenerated, spackets>>,
         pc # "count", pc' # "count"
  PROVE  BytesOK'
BY DEF BytesOK

-------------------------------------------------------------------------------
(* One lemma for every action *)

LEMMA TickInv == ASSUME Inv, Tick PROVE Inv'
<1>1. /\ TypeOK /\ now' = now + 1 /\ now' \in 0 .. MaxTime
      /\ tokens' = Least(tokens + 1, Burst * Interval)
      /\ UNCHANGED <<mode, cancelled, readVars, counters, atCancel, statsVars>>
  BY Constants DEF Inv, Tick, TypeOK
<1>2. Counters /\ now \in Nat /\ tokens \in Nat /\ Burst * Interval \in Nat
      /\ Interval \in Nat \ {0} /\ now' \in Nat
  <2>1. Counters
    BY <1>1, CounterTypes DEF TypeOK
  <2>2. Burst * Interval \in Nat /\ Interval \in Nat \ {0}
    BY Constants
  <2> QED
    BY <1>1, <2>1, <2>2, Constants DEF TypeOK
<1>3. tokens' \in 0 .. Burst * Interval /\ tokens' <= tokens + 1
  BY <1>1, <1>2 DEF Least
<1>4. TypeOK'
  <2>1. Counters'
    BY <1>1, <1>2 DEF Counters, readVars, counters, statsVars
  <2> QED
    BY <1>1, <1>3, <2>1, NextCounterTypes DEF TypeOK, readVars, counters, statsVars
<1>5. ScheduleOK'
  BY <1>1, <1>2, SameSchedule DEF Inv, readVars, counters
<1>6. BucketOK'
  <2>1. packetsGenerated * Interval \in Nat
    BY <1>2 DEF Counters
  <2> QED
    BY <1>1, <1>2, <1>3, <2>1 DEF Inv, BucketOK, readVars, counters
<1>7. CancelOK' /\ BytesOK'
  BY <1>1, SameCancel, SameBytes DEF Inv, readVars, counters, statsVars
<1> QED
  BY <1>4, <1>5, <1>6, <1>7 DEF Inv

LEMMA CancelInv == ASSUME Inv, Cancel PROVE Inv'
<1>1. /\ TypeOK /\ cancelled' = TRUE /\ atCancel' = packetsGenerated
      /\ UNCHANGED <<mode, clock, readVars, counters, statsVars>>
  BY DEF Inv, Cancel
<1>2. Counters /\ now \in Nat /\ now' = now
  BY <1>1, CounterTypes, Constants DEF TypeOK, clock
<1>3. TypeOK'
  <2>1. Counters'
    BY <1>1, <1>2 DEF Counters, readVars, counters, statsVars
  <2> QED
    BY <1>1, <2>1, NextCounterTypes DEF TypeOK, readVars, counters, statsVars, clock
<1>4. ScheduleOK' /\ BucketOK'
  BY <1>1, <1>2, SameSchedule, SameBucket DEF Inv, readVars, counters, clock
<1>5. CancelOK'
  BY <1>1, <1>2 DEF CancelOK, Counters, readVars, counters
<1>6. BytesOK'
  BY <1>1, SameBytes DEF Inv, readVars, counters, statsVars
<1> QED
  BY <1>3, <1>4, <1>5, <1>6 DEF Inv

LEMMA StartReadInv == ASSUME Inv, NEW len \in BufferSizes, StartRead(len) PROVE Inv'
<1>1. /\ TypeOK /\ pc = "idle" /\ ~cancelled /\ n' = Least(len, PayloadSize)
      /\ UNCHANGED <<mode, clock, cancelled, counters, atCancel, statsVars>>
  BY DEF Inv, StartRead, MayRead
<1>2. Counters /\ now \in Nat /\ now' = now /\ tokens' = tokens /\ len \in Nat
      /\ mode \in {"high", "low", "unlimited"}
  BY <1>1, CounterTypes, Constants DEF TypeOK, clock
<1>3. n' \in 0 .. PayloadSize
  BY <1>1, <1>2, Constants DEF Least
<1>4. CASE mode = "high"
  <2>1. /\ target' = packetCount * Interval /\ packetCount' = packetCount + 1
        /\ spins' = 0 /\ pc' = "pace"
    BY <1>4 DEF StartRead, NextPacket
  <2>2. target' \in Nat /\ packetCount' \in Nat
    BY <1>2, <2>1, Constants DEF Counters
  <2>3. TypeOK'
    <3>1. Counters'
      BY <1>1, <1>2, <2>2 DEF Counters, counters, statsVars
    <3> QED
      BY <1>1, <1>3, <2>1, <3>1, NextCounterTypes, Constants DEF TypeOK, counters, statsVars, clock
  <2>4. ScheduleOK'
    <3>1. packetCount' - 1 = packetCount
      BY <1>2, <2>1 DEF Counters
    <3> QED
      BY <1>1, <1>2, <1>4, <2>1, <3>1 DEF Inv, ScheduleOK, Counters, counters
  <2>5. BucketOK'
    BY <1>1, <1>4 DEF BucketOK
  <2>6. CancelOK' /\ BytesOK'
    BY <1>1, <2>1, BytesOnTheWay DEF Inv, CancelOK, counters, statsVars
  <2> QED
    BY <2>3, <2>4, <2>5, <2>6 DEF Inv
<1>5. CASE mode # "high"
  <2>1. /\ UNCHANGED <<target, packetCount, spins>>
        /\ mode = "low" => pc' = "limit"
        /\ mode = "unlimited" => pc' = "copy"
    BY <1>2, <1>5 DEF StartRead
  <2>2. TypeOK'
    <3>1. Counters'
      BY <1>1, <1>2, <2>1 DEF Counters, counters, statsVars
    <3> QED
      BY <1>1, <1>2, <1>3, <1>5, <2>1, <3>1, NextCounterTypes DEF TypeOK, counters, statsVars, clock
  <2>3. ScheduleOK'
    BY <1>1, <1>5 DEF ScheduleOK
  <2>4. BucketOK'
    BY <1>1, <1>2, <2>1 DEF Inv, BucketOK, counters
  <2>5. CancelOK'
    BY <1>1 DEF CancelOK
  <2>6. BytesOK'
    BY <1>1, <1>2, <1>5, <2>1, BytesOnTheWay DEF Inv, counters, statsVars
  <2> QED
    BY <2>2, <2>3, <2>4, <2>5, <2>6 DEF Inv
<1> QED
  BY <1>4, <1>5

\* The steps of the waits that take no token.
LEMMA ContinueInv ==
  ASSUME Inv, NEW label, Continue(label), spins' \in 0 .. CheckEvery - 1,
         \/ pc = "pace" /\ label = "copy" /\ now >= target
         \/ pc = "pace" /\ label = "pace"
         \/ pc \in {"pace", "limit"} /\ label = "idle"
  PROVE  Inv'
<1>1. /\ TypeOK /\ pc' = label
      /\ UNCHANGED <<mode, clock, cancelled, target, n, packetCount, counters, atCancel, statsVars>>
  BY DEF Inv, Continue
<1>2. Counters /\ now \in Nat /\ now' = now /\ tokens' = tokens
  BY <1>1, CounterTypes, Constants DEF TypeOK, clock
<1>3. TypeOK'
  <2>1. Counters'
    BY <1>1, <1>2 DEF Counters, counters, statsVars
  <2> QED
    BY <1>1, <2>1, NextCounterTypes DEF TypeOK, counters, statsVars, clock
<1>4. ScheduleOK'
  <2>1. UNCHANGED <<mode, packetsGenerated, packetCount, target, now>>
    BY <1>1, <1>2 DEF counters
  <2> QED
    BY <2>1, <1>1, <1>2 DEF Inv, ScheduleOK, Counters
<1>5. BucketOK'
  <2>1. mode = "low" => pc = "limit" /\ label = "idle"
    BY DEF Inv, BucketOK
  <2> QED
    BY <1>1, <1>2, <2>1 DEF Inv, BucketOK, counters
<1>6. CancelOK'
  BY <1>1, <1>2 DEF Inv, CancelOK, counters, Counters
<1>7. BytesOK'
  BY <1>1, BytesOnTheWay DEF Inv, counters, statsVars
<1> QED
  BY <1>3, <1>4, <1>5, <1>6, <1>7 DEF Inv

LEMMA WaitInv == ASSUME Inv, PaceReached \/ PaceSpin \/ PaceCheck \/ LimitCancelled PROVE Inv'
<1>1. CheckEvery \in Nat \ {0} /\ spins \in Nat /\ TypeOK
  BY Constants DEF Inv, TypeOK
<1>2. CASE PaceReached
  BY <1>1, <1>2, ContinueInv DEF PaceReached
<1>3. CASE PaceSpin
  BY <1>1, <1>3, ContinueInv DEF PaceSpin
<1>4. CASE PaceCheck
  BY <1>1, <1>4, ContinueInv DEF PaceCheck
<1>5. CASE LimitCancelled
  BY <1>1, <1>5, ContinueInv DEF LimitCancelled
<1> QED
  BY <1>2, <1>3, <1>4, <1>5

LEMMA TakeTokenInv == ASSUME Inv, TakeToken PROVE Inv'
<1>1. /\ TypeOK /\ pc = "limit" /\ tokens >= Interval /\ tokens' = tokens - Interval /\ pc' = "copy"
      /\ UNCHANGED <<mode, now, cancelled, target, spins, n, packetCount, counters, atCancel, statsVars>>
  BY DEF Inv, TakeToken
<1>2. Counters /\ now \in Nat /\ tokens \in Nat /\ Burst * Interval \in Nat /\ Interval \in Nat \ {0}
  BY <1>1, CounterTypes, Constants DEF TypeOK
<1>3. TypeOK'
  <2>1. Counters'
    BY <1>1, <1>2 DEF Counters, counters, statsVars
  <2>2. tokens' \in 0 .. Burst * Interval
    BY <1>1, <1>2 DEF TypeOK
  <2> QED
    BY <1>1, <2>1, <2>2, NextCounterTypes DEF TypeOK, counters, statsVars
<1>4. ScheduleOK'
  BY <1>1 DEF Inv, ScheduleOK
<1>5. BucketOK'
  <2>1. packetsGenerated * Interval \in Nat
    BY <1>2 DEF Counters
  <2> QED
    BY <1>1, <1>2, <2>1 DEF Inv, BucketOK, counters
<1>6. CancelOK' /\ BytesOK'
  BY <1>1, BytesOnTheWay DEF Inv, CancelOK, counters, statsVars
<1> QED
  BY <1>3, <1>4, <1>5, <1>6 DEF Inv

LEMMA CountPacketInv == ASSUME Inv, CountPacket PROVE Inv'
<1>1. /\ TypeOK /\ pc = "copy" /\ packetsGenerated' = packetsGenerated + 1
      /\ due' = Append(due, bytesGenerated + n) /\ pc' = "count"
      /\ UNCHANGED <<mode, clock, cancelled, target, spins, n, packetCount,
                     bytesGenerated, atCancel, statsVars>>
  BY DEF Inv, CountPacket
<1>2. Counters /\ now \in Nat /\ tokens \in Nat /\ now' = now /\ tokens' = tokens
      /\ Interval \in Nat \ {0} /\ n \in Nat /\ due \in Seq(Nat) /\ Len(due) = packetsGenerated
      /\ Burst * Interval \in Nat
  BY <1>1, CounterTypes, Constants DEF TypeOK, clock
<1>3. /\ due' \in Seq(Nat) /\ Len(due') = packetsGenerated'
      /\ due'[packetsGenerated'] = bytesGenerated + n
      /\ \A i \in 1 .. packetsGenerated : due'[i] = due[i]
  BY <1>1, <1>2 DEF Counters
<1>4. TypeOK'
  <2>1. Counters'
    BY <1>1, <1>2 DEF Counters, statsVars
  <2> QED
    BY <1>1, <1>3, <2>1, NextCounterTypes DEF TypeOK, statsVars, clock
<1>5. ScheduleOK'
  <2>1. ASSUME mode = "high"
        PROVE  packetsGenerated < packetCount /\ target = (packetCount - 1) * Interval /\ target <= now
    BY <1>1, <2>1 DEF Inv, ScheduleOK
  <2>2. ASSUME mode = "high" PROVE (packetsGenerated' - 1) * Interval <= now
    <3>1. packetsGenerated' - 1 = packetsGenerated /\ packetsGenerated \in Nat
          /\ packetCount - 1 \in Nat /\ packetsGenerated <= packetCount - 1
      BY <1>1, <1>2, <2>1, <2>2 DEF Counters
    <3>2. packetsGenerated * Interval <= (packetCount - 1) * Interval
      <4>1. CASE packetsGenerated = packetCount - 1
        BY <4>1, <1>2, <3>1
      <4>2. CASE packetsGenerated < packetCount - 1
        <5>1. Interval * packetsGenerated + Interval <= Interval * (packetCount - 1)
          BY <4>2, <1>2, <3>1, Multiples
        <5>2. Interval * packetsGenerated \in Nat /\ Interval * (packetCount - 1) \in Nat
              /\ Interval * packetsGenerated = packetsGenerated * Interval
              /\ Interval * (packetCount - 1) = (packetCount - 1) * Interval
          BY <1>2, <3>1
        <5> QED
          BY <5>1, <5>2, <1>2
      <4> QED
        BY <4>1, <4>2, <3>1
    <3>3. packetsGenerated * Interval \in Nat /\ target \in Nat
      BY <1>2 DEF Counters
    <3> QED
      BY <3>1, <3>2, <3>3, <2>1, <2>2, <1>2
  <2> QED
    BY <1>1, <1>2, <2>1, <2>2 DEF ScheduleOK, Counters
<1>6. BucketOK'
  <2>1. (packetsGenerated + 1) * Interval = packetsGenerated * Interval + Interval
        /\ packetsGenerated * Interval \in Nat
    BY <1>2, SMTT(20) DEF Counters
  <2> QED
    BY <1>1, <1>2, <2>1 DEF Inv, BucketOK
<1>7. CancelOK'
  BY <1>1, <1>2 DEF Inv, CancelOK, Counters
<1>8. BytesOK'
  <2>1. \A i \in 1 .. packetsGenerated : due[i] <= bytesGenerated
    BY <1>1 DEF Inv, BytesOK
  <2> QED
    BY <1>1, <1>2, <1>3, <2>1 DEF Inv, BytesOK, Counters, statsVars
<1> QED
  BY <1>4, <1>5, <1>6, <1>7, <1>8 DEF Inv

LEMMA CountBytesInv == ASSUME Inv, CountBytes PROVE Inv'
<1>1. /\ TypeOK /\ pc = "count" /\ bytesGenerated' = bytesGenerated + n /\ pc' = "idle" /\ n' = 0
      /\ UNCHANGED <<mode, clock, cancelled, target, spins, packetCount,
                     packetsGenerated, due, atCancel, statsVars>>
  BY DEF Inv, CountBytes
<1>2. Counters /\ n \in Nat /\ now \in Nat /\ now' = now /\ tokens' = tokens
      /\ due \in Seq(Nat) /\ Len(due) = packetsGenerated
  BY <1>1, CounterTypes, Constants DEF TypeOK, clock
<1>3. TypeOK'
  <2>1. Counters'
    BY <1>1, <1>2 DEF Counters, statsVars
  <2> QED
    BY <1>1, <2>1, NextCounterTypes, Constants DEF TypeOK, statsVars, clock
<1>4. ScheduleOK' /\ BucketOK' /\ CancelOK'
  <2>1. ScheduleOK'
    BY <1>1, <1>2 DEF Inv, ScheduleOK
  <2>2. BucketOK'
    BY <1>1, <1>2 DEF Inv, BucketOK
  <2>3. CancelOK'
    BY <1>1, <1>2 DEF Inv, CancelOK
  <2> QED
    BY <2>1, <2>2, <2>3
<1>5. BytesOK'
  <2>1. ASSUME NEW i \in 1 .. packetsGenerated PROVE due[i] <= bytesGenerated'
    <3>1. due[i] \in Nat
      BY <1>2
    <3> QED
      BY <3>1, <1>1, <1>2 DEF Inv, BytesOK, Counters
  <2> QED
    BY <1>1, <2>1 DEF Inv, BytesOK, statsVars
<1> QED
  BY <1>3, <1>4, <1>5 DEF Inv

LEMMA StatsInv == ASSUME Inv, StatsPackets \/ StatsBytes PROVE Inv'
<1>1. /\ TypeOK /\ UNCHANGED <<mode, clock, cancelled, readVars, counters, atCancel>>
      /\ spackets' \in {spackets, packetsGenerated} /\ sbytes' \in {0, bytesGenerated}
      /\ spc' \in {"idle", "bytes"}
  BY DEF Inv, StatsPackets, StatsBytes
<1>2. Counters /\ now \in Nat /\ now' = now
  BY <1>1, CounterTypes, Constants DEF TypeOK, clock
<1>3. TypeOK'
  <2>1. Counters'
    BY <1>1, <1>2 DEF Counters, counters, readVars
  <2> QED
    BY <1>1, <2>1, NextCounterTypes DEF TypeOK, counters, readVars, clock
<1>4. ScheduleOK' /\ BucketOK' /\ CancelOK'
  BY <1>1, <1>2, SameSchedule, SameBucket, SameCancel DEF Inv, counters, readVars, clock
<1>5. BytesOK'
  BY <1>1, <1>2 DEF Inv, BytesOK, Counters, counters, readVars
<1> QED
  BY <1>3, <1>4, <1>5 DEF Inv

LEMMA SameInv == ASSUME Inv, UNCHANGED vars PROVE Inv'
<1>1. Counters /\ now \in Nat
  BY CounterTypes, Constants DEF Inv, TypeOK
<1>2. TypeOK'
  <2>1. Counters'
    BY <1>1 DEF vars, Counters
  <2> QED
    BY <2>1, NextCounterTypes DEF Inv, TypeOK, vars
<1>3. ScheduleOK' /\ BucketOK' /\ CancelOK' /\ BytesOK'
  BY <1>1, SameSchedule, SameBucket, SameCancel, SameBytes DEF Inv, vars
<1> QED
  BY <1>2, <1>3 DEF Inv

LEMMA NextInv == Inv /\ [Next]_vars => Inv'
<1> SUFFICES ASSUME Inv, [Next]_vars PROVE Inv'
  OBVIOUS
<1>1. CASE Tick
  BY <1>1, TickInv
<1>2. CASE Cancel
  BY <1>2, CancelInv
<1>3. CASE \E len \in BufferSizes : StartRead(len)
  BY <1>3, StartReadInv
<1>4. CASE PaceReached \/ PaceSpin \/ PaceCheck \/ LimitCancelled
  BY <1>4, WaitInv
<1>5. CASE TakeToken
  BY <1>5, TakeTokenInv
<1>6. CASE CountPacket
  BY <1>6, CountPacketInv
<1>7. CASE CountBytes
  BY <1>7, CountBytesInv
<1>8. CASE StatsPackets \/ StatsBytes
  BY <1>8, StatsInv
<1>9. CASE UNCHANGED vars
  BY <1>9, SameInv
<1> QED
  BY <1>1, <1>2, <1>3, <1>4, <1>5, <1>6, <1>7, <1>8, <1>9 DEF Next, ReadStep

-------------------------------------------------------------------------------
(* Theorems *)

\* The invariant behind the other theorems: what has been let out is within the
\* schedule or has cost a token, and only the packet in hand is missing from the
\* bytes (data-generator.go, Read and waitHighRate).
THEOREM Invariance == Spec => []Inv
BY InitInv, NextInv, PTL DEF Spec

\* However Read is scheduled and whatever was lost before, no packet is ahead of
\* its time, except for the limiter's burst.
THEOREM RateLimit == Spec => []NeverAhead
<1>1. Inv => NeverAhead
  BY RateKept DEF Inv
<1> QED
  BY <1>1, Invariance, PTL

\* Only a Read that had looked at the context before it was cancelled delivers.
THEOREM Cancellation == Spec => []OneAfterCancel
<1>1. Inv => OneAfterCancel
  <2> SUFFICES ASSUME Inv, cancelled PROVE packetsGenerated <= atCancel + 1
    BY DEF OneAfterCancel
  <2>1. packetsGenerated \in Nat /\ atCancel \in Nat
    BY CounterTypes DEF Inv, TypeOK, Counters
  <2>2. packetsGenerated + (IF pc \in {"pace", "limit", "copy"} THEN 1 ELSE 0) <= atCancel + 1
    BY DEF Inv, CancelOK
  <2> QED
    BY <2>1, <2>2
<1> QED
  BY <1>1, Invariance, PTL

\* Stats reads the packets before the bytes, so at most the last of them can be
\* missing from the bytes.
THEOREM Statistics == Spec => StatsAlmostConsistent
<1>1. ASSUME Inv, [Next]_vars, spc = "bytes", spc' = "idle", spackets > 1
      PROVE  sbytes' >= due[spackets - 1]
  <2>1. StatsBytes
    BY <1>1 DEF Next, Tick, Cancel, StartRead, ReadStep, PaceReached, PaceSpin, PaceCheck,
       Continue, TakeToken, LimitCancelled, CountPacket, CountBytes, StatsPackets, statsVars, vars
  <2>2. Counters /\ due \in Seq(Nat) /\ Len(due) = packetsGenerated /\ spackets <= packetsGenerated
    BY <1>1, CounterTypes DEF Inv, TypeOK, BytesOK
  <2>3. spackets - 1 \in 1 .. packetsGenerated /\ spackets - 1 # packetsGenerated
    BY <1>1, <2>2 DEF Counters
  <2>4. due[spackets - 1] <= bytesGenerated /\ due[spackets - 1] \in Nat
    BY <1>1, <2>2, <2>3 DEF Inv, BytesOK
  <2> QED
    BY <2>1, <2>2, <2>4 DEF StatsBytes, Counters
<1> QED
  BY <1>1, Invariance, PTL DEF Spec, StatsAlmostConsistent
===============================================================================
