-------------------------- MODULE RetryWriterProofs --------------------------
(***************************************************************************)
(* What a producer that retries may rely on, for any number of shards, any *)
(* configuration and any strategy: its budget, the attempts behind a       *)
(* refusal, the silence behind AutoAdaptive's sleep and the cap of the     *)
(* exponential backoff.  All follow from the inductive invariant Inv of    *)
(* RetryWriter; there is one lemma for every action.                       *)
(***************************************************************************)
EXTENDS RetryWriter, Arithmetic

-------------------------------------------------------------------------------
(* Constants, counters and routes *)

LEMMA Constants ==
  /\ NumShards \in Nat \ {0} /\ ShardSize \in Nat \ {0, 1} /\ Home \in Shards
  /\ Strategies \subseteq AllStrategies /\ RetryCounts \subseteq Nat /\ Budgets \subseteq Nat
  /\ BackoffDuration \in Nat /\ MaxBackoff \in Nat /\ Multiplier \in Nat
  /\ IdleIterations \in Nat /\ Warmup \in Nat /\ CountCap \in Nat /\ MaxCalls \in Nat
  /\ \A b \in Budgets : b < CountCap
  /\ Warmup + IdleIterations + 1 < CountCap
BY RetryAssumption DEF Shards

LEMMA CountFacts ==
  ASSUME NEW n \in Nat
  PROVE  /\ Count(n) \in Nat /\ Count(n) >= n /\ Count(n) <= n + 1
         /\ Count(n) = n + 1 \/ n >= CountCap
BY Constants DEF Count

\* Saturation keeps the order.
LEMMA CountOrder ==
  ASSUME NEW a \in Nat, NEW b \in Nat, a <= b
  PROVE  Count(a) <= Count(b)
BY Constants DEF Count

\* The types of the counters one by one, and back.
Counters ==
  /\ calls \in Nat /\ backoffCount \in Nat /\ currentBackoff \in Nat
  /\ idleIterations \in Nat /\ warmupRemaining \in Nat /\ cycles \in Nat
  /\ quiet \in Nat /\ grace \in Nat /\ slept \in Nat

LEMMA CounterTypes ==
  {calls, backoffCount, currentBackoff, idleIterations, warmupRemaining,
   cycles, quiet, grace, slept} \subseteq Nat <=> Counters
BY DEF Counters

LEMMA NextCounterTypes ==
  {calls', backoffCount', currentBackoff', idleIterations', warmupRemaining',
   cycles', quiet', grace', slept'} \subseteq Nat <=> Counters'
BY DEF Counters

LEMMA ConfigTypes ==
  ASSUME TypeOK
  PROVE  /\ Counters
         /\ MaxRetries \in Nat /\ MaxBackoffs \in Nat /\ MaxBackoffs < CountCap
         /\ strategy \in AllStrategies /\ turn \in Nat /\ retry \in Nat
BY CounterTypes, Constants DEF TypeOK

LEMMA CycleLength ==
  ASSUME NEW s \in AllStrategies
  PROVE  /\ ShardsPerCycle(s, NumShards) \in 1 .. NumShards
         /\ s \in Roaming => ShardsPerCycle(s, NumShards) = NumShards
         /\ s \notin Roaming /\ s # "RandomShard" => ShardsPerCycle(s, NumShards) = 1
         /\ s = "RandomShard" => s \notin Roaming /\ ShardsPerCycle(s, NumShards) = NumShards
BY Constants DEF ShardsPerCycle, AllStrategies, Roaming

\* A cycle begins at home.
LEMMA FirstTarget ==
  ASSUME NEW s \in AllStrategies, NEW t \in ShardsAt(s, Home, NumShards, 0)
  PROVE  t = Home /\ (Home + 0) % NumShards = Home
<1>1. (Home + 0) % NumShards = Home
  <2>1. Home + 0 = Home
    BY Constants DEF Shards
  <2> QED
    BY <2>1, ModSmall, Constants DEF Shards
<1> QED
  BY <1>1 DEF ShardsAt, Roaming

LEMMA RoamingTarget ==
  ASSUME NEW s \in Roaming, NEW n \in Nat, NEW t \in ShardsAt(s, Home, NumShards, n)
  PROVE  t = (Home + n) % NumShards /\ t \in Shards
<1>1. Home + n \in Nat /\ NumShards \in Nat \ {0}
  BY Constants DEF Shards
<1>2. (Home + n) % NumShards \in 0 .. NumShards - 1
  BY <1>1, DivMod
<1>3. ShardsAt(s, Home, NumShards, n) = {(Home + n) % NumShards}
  <2>1. s # "RandomShard"
    BY DEF Roaming
  <2> QED
    BY <2>1, SMT DEF ShardsAt
<1> QED
  BY <1>2, <1>3, Zenon DEF Shards

\* The shard next to the producer's is another one, if there is another one.
LEMMA RandomTarget ==
  ASSUME NumShards > 1, NEW n \in Nat \ {0},
         NEW t \in ShardsAt("RandomShard", Home, NumShards, n)
  PROVE  t \in Shards /\ t # Home
<1>1. PICK r \in 0 .. NumShards - 1 : t = IF r = Home THEN (r + 1) % NumShards ELSE r
  BY DEF ShardsAt, Roaming, OtherChoices
<1>2. CASE r = Home
  <2>1. r % NumShards = r
    BY ModSmall, Constants
  <2>3. r \in Nat /\ NumShards \in Nat \ {0}
    BY <1>1, Constants
  <2>2. (r + 1) % NumShards = IF r % NumShards = NumShards - 1 THEN 0 ELSE (r % NumShards) + 1
    BY <2>3, ModNext
  <2> QED
    BY <1>1, <1>2, <2>1, <2>2, Constants DEF Shards
<1> QED
  BY <1>1, <1>2 DEF Shards

-------------------------------------------------------------------------------
(* The initial state and the beginning of a cycle *)

LEMMA InitInv == Init => Inv
<1> SUFFICES ASSUME Init PROVE Inv
  OBVIOUS
<1>1. TypeOK
  <2>1. Counters
    BY Constants DEF Init, Counters
  <2>2. occupied \in [Shards -> 0 .. ShardSize]
    BY Constants DEF Init
  <2> QED
    BY <2>1, <2>2, CounterTypes, Constants DEF Init, TypeOK
<1>2. BudgetOK /\ WithinBudget /\ CycleOK /\ RefusedEverywhere
  BY Constants DEF Init, BudgetOK, WithinBudget, CycleOK, RefusedEverywhere, GaveUp
<1>3. IdleOK /\ SleepsOnlyWhenIdle
  BY Constants DEF Init, IdleOK, SleepsOnlyWhenIdle
<1>4. BackoffCapped
  BY Constants DEF Init, BackoffCapped
<1> QED
  BY <1>1, <1>2, <1>3, <1>4 DEF Inv

LEMMA BeginCycleOK ==
  ASSUME TypeOK, BeginCycle, UNCHANGED fixed
  PROVE  /\ CycleOK' /\ target' = Home
         /\ turn' \in 0 .. NumShards - 1 /\ retry' \in 0 .. MaxRetries'
         /\ refusals' \in [Shards -> Nat]
<1>1. strategy \in AllStrategies /\ strategy' = strategy /\ MaxRetries' = MaxRetries
  BY ConfigTypes DEF fixed
<1>2. target' = Home /\ (Home + 0) % NumShards = Home
  BY <1>1, FirstTarget DEF BeginCycle
<1>3. refusals' \in [Shards -> Nat] /\ refusals'[Home] = 0 /\ turn' = 0 /\ retry' = 0 /\ pc' = "try"
  BY Constants DEF BeginCycle
<1>4. 0 < ShardsPerCycle(strategy, NumShards)
  BY <1>1, CycleLength
<1>5. CycleOK'
  BY <1>1, <1>2, <1>3, <1>4 DEF CycleOK
<1> QED
  BY <1>1, <1>2, <1>3, <1>5, ConfigTypes, Constants

-------------------------------------------------------------------------------
(* One lemma for every action *)

LEMMA BeginWriteInv == ASSUME Inv, BeginWrite PROVE Inv'
<1>1. TypeOK /\ UNCHANGED fixed /\ BeginCycle
  BY DEF Inv, BeginWrite
<1>2. Counters /\ MaxBackoffs \in Nat
  BY <1>1, ConfigTypes
<1>3. TypeOK'
  <2>1. Counters'
    BY <1>2 DEF Counters, BeginWrite
  <2> QED
    BY <1>1, <2>1, NextCounterTypes, BeginCycleOK, Constants
       DEF TypeOK, BeginWrite, BeginCycle, fixed
<1>4. BudgetOK' /\ WithinBudget'
  BY <1>1, <1>2 DEF BeginWrite, fixed, BudgetOK, WithinBudget, GaveUp, Counters
<1>5. CycleOK'
  BY <1>1, BeginCycleOK
<1>6. RefusedEverywhere'
  BY DEF BeginWrite, RefusedEverywhere, GaveUp
<1>7. IdleOK' /\ SleepsOnlyWhenIdle'
  BY DEF Inv, BeginWrite, fixed, IdleOK, SleepsOnlyWhenIdle
<1>8. BackoffCapped'
  BY Constants DEF Inv, BeginWrite, BackoffCapped
<1> QED
  BY <1>3, <1>4, <1>5, <1>6, <1>7, <1>8 DEF Inv

LEMMA SucceedInv == ASSUME Inv, Succeed PROVE Inv'
<1>1. TypeOK /\ UNCHANGED fixed /\ ReturnWith("true")
  BY DEF Inv, Succeed
<1>2. Counters /\ MaxBackoffs \in Nat /\ strategy \in AllStrategies
  BY <1>1, ConfigTypes
<1>3. TypeOK'
  <2>1. Counters'
    BY <1>2, Constants DEF Counters, Succeed, WakeUp
  <2>2. occupied' \in [Shards -> 0 .. ShardSize]
    BY <1>1, Constants DEF TypeOK, Succeed, Full
  <2>3. refusals' \in [Shards -> Nat]
    BY DEF Succeed
  <2> QED
    BY <1>1, <2>1, <2>2, <2>3, NextCounterTypes, ConfigTypes, Constants
       DEF TypeOK, Succeed, ReturnWith, WakeUp, fixed
<1>4. BudgetOK' /\ WithinBudget'
  BY <1>1 DEF Inv, Succeed, ReturnWith, fixed, BudgetOK, WithinBudget, GaveUp
<1>5. CycleOK' /\ RefusedEverywhere'
  BY <1>1 DEF ReturnWith, CycleOK, RefusedEverywhere, GaveUp
<1>6. IdleOK' /\ SleepsOnlyWhenIdle'
  <2>1. CASE strategy = "AutoAdaptive"
    BY <2>1, <1>1, Constants DEF Succeed, WakeUp, fixed, IdleOK, SleepsOnlyWhenIdle
  <2>2. CASE strategy # "AutoAdaptive"
    BY <2>2, <1>1, Constants DEF Inv, Succeed, fixed, IdleOK, SleepsOnlyWhenIdle
  <2> QED
    BY <2>1, <2>2
<1>7. BackoffCapped'
  BY DEF Inv, Succeed, BackoffCapped
<1> QED
  BY <1>3, <1>4, <1>5, <1>6, <1>7 DEF Inv

LEMMA RefusedInv == ASSUME Inv, Refused PROVE Inv'
<1>1. TypeOK /\ UNCHANGED fixed /\ CycleOK /\ pc = "try" /\ ~GaveUp /\ UNCHANGED <<pc, turn, target>>
  BY DEF Inv, Refused, BudgetOK
<1>2. target \in Shards /\ refusals \in [Shards -> Nat] /\ retry \in 0 .. MaxRetries
      /\ MaxRetries \in Nat /\ turn \in Nat
  BY <1>1, ConfigTypes DEF TypeOK
<1>3. /\ refusals' \in [Shards -> Nat]
      /\ refusals'[target] = refusals[target] + 1
      /\ \A s \in Shards : s # target => refusals'[s] = refusals[s]
      /\ \A s \in Shards : refusals'[s] >= refusals[s]
  BY <1>2 DEF Refused
<1>4. TypeOK'
  <2>1. Counters'
    BY <1>1, ConfigTypes DEF Counters, Refused, state
  <2> QED
    BY <1>1, <1>2, <1>3, <2>1, NextCounterTypes DEF TypeOK, Refused, fixed, state
<1>5. BudgetOK' /\ WithinBudget'
  BY DEF Inv, Refused, fixed, state, BudgetOK, WithinBudget, GaveUp
<1>6. CycleOK'
  <2>1. turn' < ShardsPerCycle(strategy', NumShards)
    BY <1>1 DEF CycleOK, fixed
  <2>2. ASSUME strategy \in Roaming
        PROVE  /\ target = (Home + turn) % NumShards
               /\ retry' <= refusals'[target]
               /\ \A d \in 0 .. turn - 1 : refusals'[(Home + d) % NumShards] >= MaxRetries
    <3>1. ASSUME NEW d \in 0 .. turn - 1 PROVE refusals'[(Home + d) % NumShards] >= MaxRetries
      <4>1. Home + d \in Nat /\ NumShards \in Nat \ {0}
        BY <1>2, Constants DEF Shards
      <4>2. (Home + d) % NumShards \in Shards
        BY <4>1, DivMod DEF Shards
      <4>3. refusals[(Home + d) % NumShards] >= MaxRetries
        BY <2>2, <1>1 DEF CycleOK
      <4> QED
        BY <4>2, <4>3, <1>2, <1>3
    <3> QED
      BY <3>1, <2>2, <1>1, <1>2, <1>3 DEF CycleOK, Refused
  <2>3. ASSUME strategy \notin Roaming, turn = 0
        PROVE  target = Home /\ refusals'[Home] = retry'
    BY <2>3, <1>1, <1>2, <1>3 DEF CycleOK, Refused
  <2>4. ASSUME strategy \notin Roaming, turn > 0
        PROVE  target # Home /\ refusals'[Home] = MaxRetries
    BY <2>4, <1>1, <1>2, <1>3, Constants DEF CycleOK
  <2>5. strategy' = strategy /\ MaxRetries' = MaxRetries /\ pc' = "try" /\ turn' = turn /\ target' = target
    BY <1>1 DEF fixed
  <2> QED
    BY <2>1, <2>2, <2>3, <2>4, <2>5 DEF CycleOK
<1>7. RefusedEverywhere'
  BY <1>1 DEF Refused, RefusedEverywhere, GaveUp
<1>8. IdleOK' /\ SleepsOnlyWhenIdle'
  BY DEF Inv, Refused, fixed, state, IdleOK, SleepsOnlyWhenIdle
<1>9. BackoffCapped'
  BY DEF Inv, Refused, state, BackoffCapped
<1> QED
  BY <1>4, <1>5, <1>6, <1>7, <1>8, <1>9 DEF Inv

\* The next shard of the cycle: one step further for the roaming strategies,
\* away from home for RandomShard.
LEMMA NextTargetInv == ASSUME Inv, NextTarget PROVE Inv'
<1>1. /\ TypeOK /\ CycleOK /\ ~GaveUp /\ UNCHANGED fixed /\ pc = "try"
      /\ UNCHANGED <<occupied, pc, state, histories>>
      /\ turn' = turn + 1 /\ retry' = 0
  BY DEF Inv, NextTarget, BudgetOK
<1>2. /\ strategy \in AllStrategies /\ turn \in Nat /\ MaxRetries \in Nat /\ retry = MaxRetries
      /\ refusals \in [Shards -> Nat] /\ refusals' = refusals /\ lastResult' = lastResult
      /\ strategy' = strategy /\ MaxRetries' = MaxRetries /\ pc' = "try"
  BY <1>1, ConfigTypes DEF TypeOK, NextTarget, fixed, histories
<1>3. turn + 1 < ShardsPerCycle(strategy, NumShards) /\ turn + 1 < NumShards
  BY <1>2, CycleLength, Constants DEF NextTarget
<1>4. ASSUME strategy \in Roaming
      PROVE  /\ target' \in Shards /\ target' = (Home + turn') % NumShards
             /\ retry' <= refusals'[target']
             /\ \A d \in 0 .. turn' - 1 : refusals'[(Home + d) % NumShards] >= MaxRetries
  <2>1. target' = (Home + (turn + 1)) % NumShards /\ target' \in Shards
    BY <1>2, <1>4, RoamingTarget DEF NextTarget
  <2>2. /\ target = (Home + turn) % NumShards /\ retry <= refusals[target]
        /\ \A d \in 0 .. turn - 1 : refusals[(Home + d) % NumShards] >= MaxRetries
        /\ target \in Shards
    BY <1>1, <1>4 DEF CycleOK, TypeOK
  <2>3. ASSUME NEW d \in 0 .. turn PROVE refusals[(Home + d) % NumShards] >= MaxRetries
    <3>1. CASE d = turn
      BY <3>1, <2>2, <1>2
    <3>2. CASE d \in 0 .. turn - 1
      BY <3>2, <2>2
    <3> QED
      BY <3>1, <3>2, <1>2
  <2> QED
    BY <2>1, <2>3, <1>1, <1>2
<1>5. ASSUME strategy \notin Roaming
      PROVE  target' \in Shards /\ target' # Home /\ refusals[Home] = MaxRetries
  <2>1. strategy = "RandomShard" /\ NumShards > 1 /\ turn + 1 \in Nat \ {0}
    BY <1>2, <1>3, <1>5, CycleLength, Constants
  <2>2. target' \in Shards /\ target' # Home
    BY <2>1, RandomTarget DEF NextTarget
  <2>3. refusals[Home] = MaxRetries
    BY <1>1, <1>2, <1>5 DEF CycleOK
  <2> QED
    BY <2>2, <2>3
<1>6. TypeOK'
  <2>1. Counters'
    BY <1>1, ConfigTypes DEF Counters, histories, state
  <2>2. target' \in Shards /\ turn' \in 0 .. NumShards - 1 /\ retry' \in 0 .. MaxRetries
    BY <1>1, <1>2, <1>3, <1>4, <1>5, Constants
  <2> QED
    BY <1>1, <2>1, <2>2, NextCounterTypes DEF TypeOK, fixed, state, histories
<1>7. BudgetOK' /\ WithinBudget'
  BY <1>1 DEF Inv, fixed, state, histories, BudgetOK, WithinBudget, GaveUp
<1>8. CycleOK'
  BY <1>1, <1>2, <1>3, <1>4, <1>5 DEF CycleOK
<1>9. RefusedEverywhere'
  BY <1>1, <1>2 DEF RefusedEverywhere, GaveUp
<1>10. IdleOK' /\ SleepsOnlyWhenIdle' /\ BackoffCapped'
  BY <1>1 DEF Inv, fixed, state, histories, IdleOK, SleepsOnlyWhenIdle, BackoffCapped
<1> QED
  BY <1>6, <1>7, <1>8, <1>9, <1>10 DEF Inv

\* What a failed cycle has behind it.
LEMMA CycleComplete ==
  ASSUME Inv, CycleFailed
  PROVE  /\ \A s \in Promised : refusals[s] >= MaxRetries
         /\ strategy = "RandomShard" => refusals[Home] = MaxRetries
<1>1. TypeOK /\ CycleOK /\ pc = "try"
  BY DEF Inv, CycleFailed
<1>2. /\ strategy \in AllStrategies /\ turn \in Nat /\ MaxRetries \in Nat /\ retry = MaxRetries
      /\ refusals \in [Shards -> Nat] /\ target \in Shards
  BY <1>1, ConfigTypes DEF TypeOK, CycleFailed
<1>3. CASE strategy \in Roaming
  <2>1. turn = NumShards - 1
    BY <1>1, <1>2, <1>3, CycleLength, Constants DEF CycleFailed, CycleOK
  <2>2. ASSUME NEW s \in Shards PROVE refusals[s] >= MaxRetries
    <3>1. s \in Nat /\ s % NumShards = s /\ Home \in Nat /\ NumShards \in Nat \ {0}
      BY ModSmall, Constants DEF Shards
    <3>2. PICK q \in Home .. Home + NumShards - 1 : q % NumShards = s % NumShards
      BY <3>1, ModWindow
    <3>3. q - Home \in 0 .. turn /\ Home + (q - Home) = q
      BY <2>1, <3>1, <3>2
    <3>4. CASE q - Home = turn
      <4>1. target = s
        BY <1>1, <1>3, <3>1, <3>2, <3>3, <3>4 DEF CycleOK
      <4> QED
        BY <4>1, <1>1, <1>2, <1>3 DEF CycleOK
    <3>5. CASE q - Home \in 0 .. turn - 1
      <4>1. refusals[(Home + (q - Home)) % NumShards] >= MaxRetries
        BY <1>1, <1>3, <3>5 DEF CycleOK
      <4> QED
        BY <4>1, <3>1, <3>2, <3>3
    <3> QED
      BY <3>3, <3>4, <3>5, <1>2
  <2> QED
    BY <1>3, <2>2 DEF Promised, Roaming
<1>4. CASE strategy \notin Roaming
  <2>1. refusals[Home] = MaxRetries
    BY <1>1, <1>2, <1>4 DEF CycleOK
  <2> QED
    BY <1>2, <1>4, <2>1 DEF Promised
<1> QED
  BY <1>3, <1>4

LEMMA GiveUpInv == ASSUME Inv, GiveUp PROVE Inv'
<1>1. /\ TypeOK /\ BudgetOK /\ CycleFailed /\ BudgetSpent /\ UNCHANGED fixed /\ pc = "try"
      /\ ReturnWith("false") /\ refusals' = refusals
      /\ cycles' = Count(cycles) /\ backoffCount' = Count(backoffCount) /\ quiet' = Count(quiet)
  BY DEF Inv, GiveUp, CycleFailed
<1>2. Counters /\ MaxBackoffs \in Nat /\ MaxBackoffs < CountCap /\ MaxRetries \in Nat
  BY <1>1, ConfigTypes
<1>3. /\ cycles' \in Nat /\ cycles' <= cycles + 1 /\ cycles' >= cycles
      /\ cycles' = cycles + 1 \/ cycles >= CountCap
      /\ backoffCount' \in Nat /\ quiet' \in Nat /\ quiet' >= quiet
  BY <1>1, <1>2, CountFacts DEF Counters
<1>4. TypeOK'
  <2>1. Counters'
    BY <1>2, <1>3 DEF Counters, GiveUp
  <2>2. /\ pc' = "idle" /\ turn' \in 0 .. NumShards - 1 /\ target' \in Shards
        /\ retry' \in 0 .. MaxRetries /\ lastResult' = "false"
    BY <1>1, <1>2, Constants DEF ReturnWith
  <2>3. UNCHANGED <<strategy, MaxRetries, MaxBackoffs, Contended, occupied, adaptiveMode>>
    BY <1>1 DEF GiveUp, fixed
  <2> QED
    BY <1>1, <2>1, <2>2, <2>3, NextCounterTypes DEF TypeOK
<1>5. BudgetOK'
  BY <1>1 DEF ReturnWith, BudgetOK
<1>6. WithinBudget'
  <2>1. MaxBackoffs > 0 /\ backoffCount + 1 >= MaxBackoffs /\ cycles < MaxBackoffs
        /\ (strategy = "Direct" => cycles = backoffCount)
    BY <1>1 DEF BudgetOK, BudgetSpent
  <2>2. cycles' = cycles + 1
    BY <2>1, <1>2, <1>3, Constants DEF Counters
  <2> QED
    BY <2>1, <2>2, <1>1, <1>2 DEF WithinBudget, Counters, fixed
<1>7. CycleOK'
  BY <1>1 DEF ReturnWith, CycleOK
<1>8. RefusedEverywhere'
  BY <1>1, CycleComplete DEF fixed, RefusedEverywhere, Promised
<1>9. IdleOK' /\ SleepsOnlyWhenIdle'
  BY <1>2, <1>3, Constants DEF Inv, GiveUp, fixed, IdleOK, SleepsOnlyWhenIdle, Counters
<1>10. BackoffCapped'
  BY DEF Inv, GiveUp, BackoffCapped
<1> QED
  BY <1>4, <1>5, <1>6, <1>7, <1>8, <1>9, <1>10 DEF Inv

LEMMA BackOffInv == ASSUME Inv, BackOff PROVE Inv'
<1>1. /\ TypeOK /\ BudgetOK /\ IdleOK /\ CycleFailed /\ ~BudgetSpent /\ UNCHANGED fixed
      /\ ~GaveUp /\ pc = "try" /\ pc' = "wait" /\ UNCHANGED cursor
      /\ cycles' = Count(cycles) /\ backoffCount' = Count(backoffCount) /\ quiet' = Count(quiet)
  BY DEF Inv, BackOff, CycleFailed, BudgetOK
<1>2. Counters /\ MaxBackoffs \in Nat /\ MaxBackoffs < CountCap /\ MaxRetries \in Nat
  BY <1>1, ConfigTypes
<1>3. /\ cycles' \in Nat /\ cycles' <= cycles + 1
      /\ backoffCount' \in Nat /\ backoffCount' >= backoffCount
      /\ quiet' \in Nat /\ quiet' >= quiet
      /\ quiet' = quiet + 1 \/ quiet >= CountCap
  BY <1>1, <1>2, CountFacts DEF Counters
<1>4. cycles <= backoffCount => cycles' <= backoffCount'
  BY <1>1, <1>2, CountOrder DEF Counters
<1>5. TypeOK'
  <2>1. idleIterations' \in Nat /\ warmupRemaining' \in Nat /\ adaptiveMode' \in {"Yield", "Sleep"}
    BY <1>1, <1>2 DEF BackOff, CountIdle, TypeOK, Counters
  <2>2. Counters'
    BY <1>2, <1>3, <2>1 DEF Counters, BackOff
  <2>3. UNCHANGED <<strategy, MaxRetries, MaxBackoffs, Contended, occupied, turn,
                    target, retry, refusals, lastResult>>
    BY <1>1 DEF BackOff, fixed, cursor
  <2> QED
    BY <1>1, <2>1, <2>2, <2>3, NextCounterTypes DEF TypeOK
<1>6. BudgetOK'
  <2>1. ~GaveUp'
    BY <1>1 DEF GaveUp, BackOff
  <2>2. cycles' <= backoffCount' /\ (strategy' = "Direct" => cycles' = backoffCount')
    BY <1>1, <1>4 DEF BudgetOK, fixed
  <2>3. MaxBackoffs' > 0 => cycles' < MaxBackoffs'
    BY <1>1, <1>2, <1>3 DEF BudgetOK, BudgetSpent, fixed, Counters
  <2> QED
    BY <2>1, <2>2, <2>3 DEF BudgetOK
<1>7. WithinBudget'
  BY <1>1, <1>2, <1>3, <1>6 DEF WithinBudget, BudgetOK, GaveUp, fixed, Counters
<1>8. CycleOK'
  BY <1>1, <1>2 DEF CycleOK, CycleFailed, cursor, fixed, TypeOK
<1>9. RefusedEverywhere'
  BY <1>1 DEF BackOff, RefusedEverywhere, GaveUp
<1>10. IdleOK' /\ SleepsOnlyWhenIdle'
  <2>1. CASE strategy = "AutoAdaptive" /\ adaptiveMode = "Yield"
    <3>1. /\ CountIdle /\ grace' = grace /\ strategy' = strategy
          /\ idleIterations <= IdleIterations
          /\ quiet >= grace - warmupRemaining + idleIterations
          /\ warmupRemaining <= grace /\ grace <= Warmup
      BY <2>1, <1>1 DEF BackOff, IdleOK, fixed
    <3>2. CASE warmupRemaining > 0
      <4>1. warmupRemaining' = warmupRemaining - 1 /\ idleIterations' = idleIterations
            /\ adaptiveMode' = "Yield"
        BY <2>1, <3>1, <3>2 DEF CountIdle
      <4> QED
        BY <2>1, <3>1, <3>2, <4>1, <1>2, <1>3, Constants DEF IdleOK, SleepsOnlyWhenIdle, Counters
    <3>3. CASE warmupRemaining = 0
      <4>1. /\ warmupRemaining' = 0 /\ idleIterations' = idleIterations + 1
            /\ adaptiveMode' = IF idleIterations + 1 > IdleIterations THEN "Sleep" ELSE "Yield"
        BY <3>1, <3>3 DEF CountIdle
      <4> QED
        BY <2>1, <3>1, <3>3, <4>1, <1>2, <1>3, Constants DEF IdleOK, SleepsOnlyWhenIdle, Counters
    <3> QED
      BY <3>2, <3>3, <1>2 DEF Counters
  <2>2. CASE ~(strategy = "AutoAdaptive" /\ adaptiveMode = "Yield")
    BY <2>2, <1>1, <1>2, <1>3, Constants
       DEF Inv, BackOff, IdleOK, SleepsOnlyWhenIdle, fixed, Counters
  <2> QED
    BY <2>1, <2>2
<1>11. BackoffCapped'
  BY DEF Inv, BackOff, BackoffCapped
<1> QED
  BY <1>5, <1>6, <1>7, <1>8, <1>9, <1>10, <1>11 DEF Inv

LEMMA FiveQuarters ==
  ASSUME NEW c \in Nat, NEW t \in Nat, c <= t, NEW quarters \in 3 .. 5
  PROVE  (c * quarters) \div 4 \in Nat /\ 4 * ((c * quarters) \div 4) <= 5 * t
<1>1. CASE quarters = 3
  BY <1>1
<1>2. CASE quarters = 4
  BY <1>2
<1>3. CASE quarters = 5
  BY <1>3
<1> QED
  BY <1>1, <1>2, <1>3

\* A sleep is at most five quarters of the current backoff, the next backoff at
\* most MaxBackoff.
LEMMA JitterBounded ==
  ASSUME Counters, BackoffCapped, SleepWithJitter
  PROVE  slept' \in Nat /\ currentBackoff' \in Nat /\ BackoffCapped'
<1> DEFINE top == IF BackoffDuration > MaxBackoff THEN BackoffDuration ELSE MaxBackoff
<1>1. top \in Nat /\ top >= MaxBackoff /\ currentBackoff \in Nat /\ currentBackoff <= top
  BY Constants DEF Counters, BackoffCapped
<1>2. PICK quarters \in 3 .. 5 : slept' = (currentBackoff * quarters) \div 4
  BY DEF SleepWithJitter
<1>3. slept' \in Nat /\ 4 * slept' <= 5 * top
  <2> HIDE DEF top
  <2> QED
    BY <1>1, <1>2, FiveQuarters
<1>4. currentBackoff' \in Nat /\ currentBackoff' <= MaxBackoff
  <2>1. currentBackoff * Multiplier \in Nat
    BY <1>1, Constants
  <2> QED
    BY <2>1, Constants DEF SleepWithJitter, Grow, Least
<1>5. currentBackoff' <= top
  BY <1>4, Constants
<1> QED
  BY <1>3, <1>4, <1>5 DEF BackoffCapped

LEMMA EndWaitInv == ASSUME Inv, EndWait PROVE Inv'
<1>1. /\ TypeOK /\ BudgetOK /\ UNCHANGED fixed /\ BeginCycle /\ pc = "wait" /\ ~GaveUp
      /\ UNCHANGED <<occupied, calls, backoffCount, adaptiveMode, idleIterations,
                     warmupRemaining, cycles, quiet, grace, lastResult>>
  BY DEF Inv, EndWait, BudgetOK
<1>2. Counters
  BY <1>1, ConfigTypes
<1>3. slept' \in Nat /\ currentBackoff' \in Nat /\ BackoffCapped'
  <2>1. CASE strategy \in {"AdaptiveBackoff", "Hybrid"}
    BY <2>1, <1>2, JitterBounded DEF Inv, EndWait
  <2>2. CASE strategy \notin {"AdaptiveBackoff", "Hybrid"}
    BY <2>2, <1>2 DEF Inv, EndWait, Counters, BackoffCapped
  <2> QED
    BY <2>1, <2>2
<1>4. TypeOK'
  <2>1. Counters'
    BY <1>1, <1>2, <1>3 DEF Counters
  <2>2. pc' = "try" /\ target' \in Shards
    BY <1>1, BeginCycleOK, Constants DEF BeginCycle
  <2> QED
    BY <1>1, <2>1, <2>2, NextCounterTypes, BeginCycleOK DEF TypeOK, fixed
<1>5. BudgetOK' /\ WithinBudget'
  BY <1>1 DEF Inv, BeginCycle, fixed, BudgetOK, WithinBudget, GaveUp
<1>6. CycleOK'
  BY <1>1, BeginCycleOK
<1>7. RefusedEverywhere'
  BY <1>1 DEF RefusedEverywhere, GaveUp
<1>8. IdleOK' /\ SleepsOnlyWhenIdle'
  BY <1>1 DEF Inv, fixed, IdleOK, SleepsOnlyWhenIdle
<1> QED
  BY <1>3, <1>4, <1>5, <1>6, <1>7, <1>8 DEF Inv

LEMMA ResetInv == ASSUME Inv, Reset PROVE Inv'
<1>1. /\ TypeOK /\ UNCHANGED fixed /\ pc = "idle"
      /\ UNCHANGED <<occupied, pc, turn, target, retry, calls, cycles, refusals,
                     slept, lastResult>>
  BY DEF Inv, Reset, cursor
<1>2. TypeOK'
  <2>1. Counters'
    BY <1>1, ConfigTypes, Constants DEF Counters, Reset
  <2>2. adaptiveMode' = "Yield"
    BY DEF Reset
  <2> QED
    BY <1>1, <2>1, <2>2, NextCounterTypes DEF TypeOK, fixed
<1>3. BudgetOK' /\ WithinBudget' /\ CycleOK'
  BY <1>1 DEF Inv, fixed, BudgetOK, WithinBudget, CycleOK, GaveUp
<1>4. RefusedEverywhere'
  BY <1>1 DEF Inv, fixed, RefusedEverywhere, Promised, GaveUp
<1>5. IdleOK' /\ SleepsOnlyWhenIdle'
  BY <1>1, Constants DEF Reset, IdleOK, SleepsOnlyWhenIdle
<1>6. BackoffCapped'
  <2> DEFINE top == IF BackoffDuration > MaxBackoff THEN BackoffDuration ELSE MaxBackoff
  <2>1. BackoffDuration <= top /\ 4 * slept <= 5 * top
    BY Constants DEF Inv, BackoffCapped
  <2> QED
    BY <1>1, <2>1 DEF Reset, BackoffCapped
<1> QED
  BY <1>2, <1>3, <1>4, <1>5, <1>6 DEF Inv

\* What the other goroutines do to the shards touches no state of the call.
LEMMA OthersInv == ASSUME Inv, NEW s \in Shards, Drain(s) \/ Fill(s) PROVE Inv'
<1>1. TypeOK /\ UNCHANGED <<fixed, pc, cursor, state, histories>>
  BY DEF Inv, Drain, Fill
<1>2. occupied' \in [Shards -> 0 .. ShardSize]
  BY <1>1, Constants DEF TypeOK, Drain, Fill, Full
<1>3. TypeOK'
  <2>1. Counters'
    BY <1>1, ConfigTypes DEF Counters, state, histories
  <2> QED
    BY <1>1, <1>2, <2>1, NextCounterTypes DEF TypeOK, fixed, cursor, state, histories
<1>4. BudgetOK' /\ WithinBudget' /\ CycleOK'
  BY <1>1 DEF Inv, fixed, cursor, state, histories, BudgetOK, WithinBudget, CycleOK, GaveUp
<1>5. RefusedEverywhere'
  BY <1>1 DEF Inv, fixed, histories, RefusedEverywhere, Promised, GaveUp
<1>6. IdleOK' /\ SleepsOnlyWhenIdle' /\ BackoffCapped'
  BY <1>1 DEF Inv, fixed, state, histories, IdleOK, SleepsOnlyWhenIdle, BackoffCapped
<1> QED
  BY <1>3, <1>4, <1>5, <1>6 DEF Inv

LEMMA SameInv == ASSUME Inv, UNCHANGED vars PROVE Inv'
<1>1. TypeOK'
  <2>1. Counters'
    BY ConfigTypes DEF Inv, Counters, vars
  <2> QED
    BY <2>1, NextCounterTypes DEF Inv, TypeOK, vars
<1>2. BudgetOK' /\ WithinBudget' /\ CycleOK'
  BY DEF Inv, vars, BudgetOK, WithinBudget, CycleOK, GaveUp
<1>3. RefusedEverywhere'
  BY DEF Inv, vars, RefusedEverywhere, Promised, GaveUp
<1>4. IdleOK' /\ SleepsOnlyWhenIdle' /\ BackoffCapped'
  BY DEF Inv, vars, IdleOK, SleepsOnlyWhenIdle, BackoffCapped
<1> QED
  BY <1>1, <1>2, <1>3, <1>4 DEF Inv

LEMMA NextInv == Inv /\ [Next]_vars => Inv'
<1> SUFFICES ASSUME Inv, [Next]_vars PROVE Inv'
  OBVIOUS
<1>1. CASE BeginWrite
  BY <1>1, BeginWriteInv
<1>2. CASE Succeed
  BY <1>2, SucceedInv
<1>3. CASE Refused
  BY <1>3, RefusedInv
<1>4. CASE NextTarget
  BY <1>4, NextTargetInv
<1>5. CASE GiveUp
  BY <1>5, GiveUpInv
<1>6. CASE BackOff
  BY <1>6, BackOffInv
<1>7. CASE EndWait
  BY <1>7, EndWaitInv
<1>8. CASE Reset
  BY <1>8, ResetInv
<1>9. CASE \E s \in Shards : Drain(s) \/ Fill(s)
  BY <1>9, OthersInv
<1>10. CASE UNCHANGED vars
  BY <1>10, SameInv
<1> QED
  BY <1>1, <1>2, <1>3, <1>4, <1>5, <1>6, <1>7, <1>8, <1>9, <1>10 DEF Next, CallStep

-------------------------------------------------------------------------------
(* Theorems *)

\* The invariant that the others follow from: inside a call the failed cycles
\* are among the writer's and below the budget, the shards behind the cursor have
\* refused as often as they had to (strategies.go, writer.go:110-140).
THEOREM Invariance == Spec => []Inv
BY InitInv, NextInv, PTL DEF Spec

\* No call outlives its budget, whatever count an earlier call left behind, and
\* WriteWithBackoff gives up after exactly MaxBackoffs cycles.
THEOREM Budget == Spec => []WithinBudget
<1>1. Inv => WithinBudget
  BY DEF Inv
<1> QED
  BY <1>1, Invariance, PTL

\* A call returns false only after MaxRetries refusals of every shard that its
\* strategy promises to try, all in the last cycle; for the roaming strategies
\* these are all shards of the ring, wherever the producer's own one lies.
THEOREM Refusals == Spec => []RefusedEverywhere
<1>1. Inv => RefusedEverywhere
  BY DEF Inv
<1> QED
  BY <1>1, Invariance, PTL

\* AutoAdaptive does not sleep before the warmup and the idle threshold have
\* passed without a success (strategies.go, AutoAdaptive).
THEOREM Idle == Spec => []SleepsOnlyWhenIdle
<1>1. Inv => SleepsOnlyWhenIdle
  BY DEF Inv
<1> QED
  BY <1>1, Invariance, PTL

\* The exponential backoff and its jitter stay below the cap for any multiplier.
THEOREM Backoff == Spec => []BackoffCapped
<1>1. Inv => BackoffCapped
  BY DEF Inv
<1> QED
  BY <1>1, Invariance, PTL
===============================================================================
