----------------------------- MODULE RetryWriter -----------------------------
(***************************************************************************)
(* One producer that retries: Writer.Write with each of its strategies     *)
(* (strategies.go) and ShardedRing.WriteWithBackoff (writer.go).  All of   *)
(* them repeat a cycle: some shards are tried MaxRetries times each; when  *)
(* all refuse, the cycle is counted, the call gives up or waits, and the   *)
(* next cycle begins.  They differ in the shards of a cycle, in the wait,  *)
(* and in which state outlives the call.                                   *)
(*                                                                         *)
(* Other goroutines fill and drain the shards at any time.  A shard is its *)
(* number of values; by Shard's RejectionJustified an attempt is refused   *)
(* when the shard is full or another producer competes for it.             *)
(***************************************************************************)
EXTENDS Integers, Sequences, Routes

CONSTANTS
    NumShards,
    ShardSize,
    Home,             \* the shard of the producer's ID
    Strategies,       \* the strategies a run considers
    RetryCounts,      \* the values of WriteConfig.MaxRetries a run considers
    Budgets,          \* the values of WriteConfig.MaxBackoffs, 0 for no limit
    BackoffDuration,  \* durations in some unit of time
    MaxBackoff,       \* MaxBackoffDuration after the default is filled in
    Multiplier,       \* BackoffMultiplier after the default is filled in
    IdleIterations,   \* AdaptiveIdleIterations after the default is filled in
    Warmup,           \* AdaptiveWarmupIterations after the default is filled in
    MaxCalls,         \* bound of the model: calls of Write
    CountCap          \* bound of the model: where the counters saturate

\* WriteWithBackoff, then the values of RetryStrategy.
AllStrategies == {"Direct", "SleepBackoff", "NextShard", "RandomShard",
                  "AdaptiveBackoff", "SpinThenYield", "Hybrid", "AutoAdaptive"}

ASSUME RetryAssumption ==
    /\ NumShards \in Nat \ {0}
    /\ ShardSize \in Nat \ {0, 1}
    /\ Home \in 0 .. NumShards - 1
    /\ Strategies \subseteq AllStrategies
    /\ RetryCounts \cup Budgets \subseteq Nat
    /\ {BackoffDuration, MaxBackoff, Multiplier, IdleIterations, Warmup,
        MaxCalls, CountCap} \subseteq Nat
    /\ (\A b \in Budgets : b < CountCap) /\ Warmup + IdleIterations + 1 < CountCap

Shards == 0 .. NumShards - 1

VARIABLES
    strategy,         \* chosen once, by NewWriter, and so are
    MaxRetries,       \* WriteConfig.MaxRetries and
    MaxBackoffs,      \* WriteConfig.MaxBackoffs
    Contended,        \* whether other producers write to the same shards
    occupied,         \* per shard: its number of values
    pc,               \* "idle", "try" or "wait"
    turn,             \* how many shards of the cycle have been tried
    target,           \* the shard being tried
    retry,            \* attempts made on it
    calls,            \* history: calls begun
    \* writerState; WriteWithBackoff keeps backoffCount for one call only
    backoffCount,
    currentBackoff,
    adaptiveMode,
    idleIterations,
    warmupRemaining,
    \* histories the properties need
    cycles,           \* failed cycles of this call
    refusals,         \* per shard: refusals in this cycle
    quiet,            \* failed cycles since the last success, or since Reset
    grace,            \* the warmup granted then
    slept,            \* the last sleep of the call
    lastResult        \* what the last call returned, "none" before it returns

fixed == <<strategy, MaxRetries, MaxBackoffs, Contended>>
cursor == <<turn, target, retry>>
state == <<backoffCount, currentBackoff, adaptiveMode, idleIterations, warmupRemaining>>
histories == <<calls, cycles, refusals, quiet, grace, slept, lastResult>>
vars == <<strategy, MaxRetries, MaxBackoffs, Contended, occupied, pc, turn,
          target, retry, calls, backoffCount, currentBackoff, adaptiveMode,
          idleIterations, warmupRemaining, cycles, refusals, quiet, grace,
          slept, lastResult>>

Init ==
    /\ strategy \in Strategies
    /\ MaxRetries \in RetryCounts
    /\ MaxBackoffs \in Budgets
    /\ Contended \in BOOLEAN
    /\ occupied \in [Shards -> {0, ShardSize}]
    /\ pc = "idle"
    /\ turn = 0
    /\ target = Home
    /\ retry = 0
    /\ calls = 0
    /\ backoffCount = 0
    /\ currentBackoff = BackoffDuration
    /\ adaptiveMode = "Yield"
    /\ idleIterations = 0
    /\ warmupRemaining = 0
    /\ cycles = 0
    /\ refusals = [s \in Shards |-> 0]
    /\ quiet = 0
    /\ grace = 0
    /\ slept = 0
    /\ lastResult = "none"

\* A counter that nothing reads above CountCap.
Count(n) == IF n < CountCap THEN n + 1 ELSE n

Least(a, b) == IF a < b THEN a ELSE b

-------------------------------------------------------------------------------
(* Write *)

BeginCycle ==
    /\ pc' = "try"
    /\ turn' = 0
    /\ target' \in ShardsAt(strategy, Home, NumShards, 0)
    /\ retry' = 0
    /\ refusals' = [s \in Shards |-> 0]

BeginWrite ==
    /\ pc = "idle"
    /\ calls < MaxCalls
    /\ calls' = calls + 1
    /\ BeginCycle
    /\ backoffCount' = IF strategy = "Direct" THEN 0 ELSE backoffCount
    /\ cycles' = 0
    /\ slept' = 0
    /\ lastResult' = "none"
    /\ UNCHANGED <<fixed, occupied, currentBackoff, adaptiveMode,
                   idleIterations, warmupRemaining, quiet, grace>>

Full(s) == occupied[s] = ShardSize

ReturnWith(res) ==
    /\ pc' = "idle"
    /\ turn' = 0
    /\ target' = Home
    /\ retry' = 0
    /\ lastResult' = res

\* Mutant: the idle count survives a success.
WakeUpKeepingIdle ==
    /\ idleIterations' = idleIterations
    /\ warmupRemaining' = Warmup
    /\ adaptiveMode' = "Yield"

\* AutoAdaptive goes back to yielding and grants a warmup period.
WakeUp ==
    /\ idleIterations' = 0
    /\ warmupRemaining' = Warmup
    /\ adaptiveMode' = "Yield"

\* shard.write(value) returns true, and so does the call.
Succeed ==
    /\ pc = "try"
    /\ retry < MaxRetries
    /\ ~Full(target)
    /\ occupied' = [occupied EXCEPT ![target] = @ + 1]
    /\ IF strategy = "AutoAdaptive"
       THEN WakeUp
       ELSE UNCHANGED <<idleIterations, warmupRemaining, adaptiveMode>>
    /\ quiet' = 0
    /\ grace' = IF strategy = "AutoAdaptive" THEN Warmup ELSE 0
    /\ refusals' = [s \in Shards |-> 0]
    /\ ReturnWith("true")
    /\ UNCHANGED <<fixed, calls, backoffCount, currentBackoff, cycles, slept>>

\* shard.write(value) returns false.
Refused ==
    /\ pc = "try"
    /\ retry < MaxRetries
    /\ Full(target) \/ Contended
    /\ retry' = retry + 1
    /\ refusals' = [refusals EXCEPT ![target] = @ + 1]
    /\ UNCHANGED <<fixed, occupied, pc, turn, target, calls, state, cycles,
                   quiet, grace, slept, lastResult>>

NextTarget ==
    /\ pc = "try"
    /\ retry >= MaxRetries
    /\ turn + 1 < ShardsPerCycle(strategy, NumShards)
    /\ turn' = turn + 1
    /\ target' \in ShardsAt(strategy, Home, NumShards, turn + 1)
    /\ retry' = 0
    /\ UNCHANGED <<fixed, occupied, pc, state, histories>>

CycleFailed ==
    /\ pc = "try"
    /\ retry >= MaxRetries
    /\ turn + 1 >= ShardsPerCycle(strategy, NumShards)

\* Mutants: > for >=, one cycle too many; = for >=, which a count carried over
\* from an earlier call has already passed.
BudgetMetExactly == MaxBackoffs > 0 /\ backoffCount + 1 = MaxBackoffs
BudgetOverspent == MaxBackoffs > 0 /\ backoffCount + 1 > MaxBackoffs

BudgetSpent == MaxBackoffs > 0 /\ backoffCount + 1 >= MaxBackoffs

\* The call returns false.
GiveUp ==
    /\ CycleFailed
    /\ BudgetSpent
    /\ backoffCount' = Count(backoffCount)
    /\ cycles' = Count(cycles)
    /\ quiet' = Count(quiet)
    /\ ReturnWith("false")
    /\ UNCHANGED <<fixed, occupied, calls, currentBackoff, adaptiveMode,
                   idleIterations, warmupRemaining, refusals, grace, slept>>

\* AutoAdaptive in Yield mode: first the warmup runs out, then the idle cycles
\* are counted, and one above the threshold switches the mode.
CountIdle ==
    IF warmupRemaining > 0
    THEN /\ warmupRemaining' = warmupRemaining - 1
         /\ UNCHANGED <<idleIterations, adaptiveMode>>
    ELSE /\ idleIterations' = idleIterations + 1
         /\ adaptiveMode' = IF idleIterations + 1 > IdleIterations
                            THEN "Sleep" ELSE "Yield"
         /\ UNCHANGED warmupRemaining

\* Another cycle will follow, after a wait.
BackOff ==
    /\ CycleFailed
    /\ ~BudgetSpent
    /\ backoffCount' = Count(backoffCount)
    /\ cycles' = Count(cycles)
    /\ quiet' = Count(quiet)
    /\ pc' = "wait"
    /\ IF strategy = "AutoAdaptive" /\ adaptiveMode = "Yield"
       THEN CountIdle
       ELSE UNCHANGED <<idleIterations, warmupRemaining, adaptiveMode>>
    /\ UNCHANGED <<fixed, occupied, cursor, calls, currentBackoff, refusals,
                   grace, slept, lastResult>>

\* Mutant: the cap is forgotten.
GrowUncapped(d) == d * Multiplier

Grow(d) == Least(d * Multiplier, MaxBackoff)

\* The sleep with its jitter of 75 to 125 percent, and the longer next one.
SleepWithJitter ==
    /\ \E quarters \in 3 .. 5 : slept' = (currentBackoff * quarters) \div 4
    /\ currentBackoff' = Grow(currentBackoff)

\* Mutant: the retries of the cycle are not counted from zero.
EndWaitOutOfRetries ==
    /\ pc = "wait"
    /\ pc' = "try"
    /\ turn' = 0
    /\ refusals' = [s \in Shards |-> 0]
    /\ UNCHANGED <<fixed, occupied, target, retry, state, calls, cycles,
                   quiet, grace, slept, lastResult>>

\* The wait is over: sleep, yield or jittered sleep.
EndWait ==
    /\ pc = "wait"
    /\ IF strategy \in {"AdaptiveBackoff", "Hybrid"}
       THEN SleepWithJitter
       ELSE UNCHANGED <<currentBackoff, slept>>
    /\ BeginCycle
    /\ UNCHANGED <<fixed, occupied, calls, backoffCount, adaptiveMode,
                   idleIterations, warmupRemaining, cycles, quiet, grace, lastResult>>

\* Writer.Reset, between two calls.
Reset ==
    /\ pc = "idle"
    /\ strategy # "Direct"
    /\ currentBackoff' = BackoffDuration
    /\ backoffCount' = 0
    /\ adaptiveMode' = "Yield"
    /\ idleIterations' = 0
    /\ warmupRemaining' = 0
    /\ quiet' = 0
    /\ grace' = 0
    /\ UNCHANGED <<fixed, occupied, pc, cursor, calls, cycles, refusals,
                   slept, lastResult>>

-------------------------------------------------------------------------------
(* The others *)

Drain(s) ==
    /\ occupied[s] > 0
    /\ occupied' = [occupied EXCEPT ![s] = @ - 1]
    /\ UNCHANGED <<fixed, pc, cursor, state, histories>>

Fill(s) ==
    /\ Contended
    /\ ~Full(s)
    /\ occupied' = [occupied EXCEPT ![s] = @ + 1]
    /\ UNCHANGED <<fixed, pc, cursor, state, histories>>

-------------------------------------------------------------------------------
CallStep ==
    \/ Succeed
    \/ Refused
    \/ NextTarget
    \/ GiveUp
    \/ BackOff
    \/ EndWait

Next ==
    \/ BeginWrite
    \/ CallStep
    \/ Reset
    \/ \E s \in Shards : Drain(s) \/ Fill(s)

Spec == Init /\ [][Next]_vars

\* The caller's goroutine keeps running.
CallFairness == WF_vars(CallStep)

\* The consumer scans every shard again and again.
DrainFairness == \A s \in Shards : WF_vars(Drain(s))

LiveSpec == Spec /\ CallFairness

-------------------------------------------------------------------------------
(* Properties *)

TypeOK ==
    /\ strategy \in Strategies
    /\ MaxRetries \in RetryCounts
    /\ MaxBackoffs \in Budgets
    /\ Contended \in BOOLEAN
    /\ occupied \in [Shards -> 0 .. ShardSize]
    /\ pc \in {"idle", "try", "wait"}
    /\ turn \in 0 .. NumShards - 1
    /\ target \in Shards
    /\ retry \in 0 .. MaxRetries
    /\ {calls, backoffCount, currentBackoff, idleIterations, warmupRemaining,
        cycles, quiet, grace, slept} \subseteq Nat
    /\ adaptiveMode \in {"Yield", "Sleep"}
    /\ refusals \in [Shards -> Nat]
    /\ lastResult \in {"none", "true", "false"}

GaveUp == lastResult = "false"

\* A call never spends more failed cycles than MaxBackoffs allows, and
\* WriteWithBackoff, which starts its count afresh, gives up after exactly that
\* many.
WithinBudget ==
    MaxBackoffs > 0 =>
        /\ cycles <= MaxBackoffs
        /\ (strategy = "Direct" /\ GaveUp) => cycles = MaxBackoffs

\* The shards a strategy promises to have tried before it gives up.
Promised ==
    IF strategy \in Roaming THEN Shards ELSE {Home}

\* A call that gives up has been refused MaxRetries times, in its last cycle, by
\* every shard its strategy promises; RandomShard has spent its random attempts
\* on other shards than its own.
RefusedEverywhere ==
    GaveUp =>
        /\ \A s \in Promised : refusals[s] >= MaxRetries
        /\ (strategy = "RandomShard" /\ NumShards > 1) => refusals[Home] = MaxRetries

\* AutoAdaptive sleeps only after a sustained silence: since the last success
\* (or Reset) the whole warmup and then more than IdleIterations cycles have
\* failed, across as many calls as it takes.
SleepsOnlyWhenIdle ==
    adaptiveMode = "Sleep" => quiet > grace + IdleIterations

\* The exponential backoff stays within the cap, or is the initial duration,
\* and no sleep exceeds five quarters of that.
BackoffCapped ==
    LET top == IF BackoffDuration > MaxBackoff THEN BackoffDuration ELSE MaxBackoff
    IN  currentBackoff <= top /\ 4 * slept <= 5 * top

\* A call with a budget ends, even when the consumer has stopped and every
\* shard stays full, and even when it makes no attempt at all (MaxRetries 0).
CallsEnd == (pc # "idle" /\ MaxBackoffs > 0) ~> pc = "idle"

\* If the consumer keeps draining and no other producer takes the room it makes,
\* a call without a budget succeeds in the end, whatever its strategy, provided
\* its configuration asks for at least one attempt: a zero MaxRetries gets no
\* default (writer.go:60, 300), and the call would go on for ever.
CallsSucceed ==
    DrainFairness =>
        (pc # "idle" /\ MaxBackoffs = 0 /\ MaxRetries > 0 /\ ~Contended)
            ~> lastResult = "true"

-------------------------------------------------------------------------------
(* The inductive invariant *)

\* Inside a call the budget is not used up yet, or the call has not failed a
\* cycle; the call's cycles are among those the writer has counted.
BudgetOK ==
    /\ GaveUp => pc = "idle"
    /\ pc # "idle" =>
          /\ cycles <= backoffCount
          /\ strategy = "Direct" => cycles = backoffCount
          /\ MaxBackoffs > 0 => cycles < MaxBackoffs

\* Inside a cycle: the shards before the current one have refused as often as
\* they were to be tried, the current one as often as it was tried.
CycleOK ==
    /\ pc = "wait" => retry = MaxRetries
    /\ pc = "try" =>
          /\ turn < ShardsPerCycle(strategy, NumShards)
          /\ strategy \in Roaming =>
                /\ target = (Home + turn) % NumShards
                /\ retry <= refusals[target]
                /\ \A d \in 0 .. turn - 1 : refusals[(Home + d) % NumShards] >= MaxRetries
          /\ strategy \notin Roaming /\ turn = 0 => target = Home /\ refusals[Home] = retry
          /\ strategy \notin Roaming /\ turn > 0 => target # Home /\ refusals[Home] = MaxRetries

\* AutoAdaptive: every failed cycle has run down the warmup or counted as idle.
IdleOK ==
    /\ strategy # "AutoAdaptive" =>
          adaptiveMode = "Yield" /\ idleIterations = 0 /\ warmupRemaining = 0
    /\ warmupRemaining <= grace
    /\ grace <= Warmup
    /\ adaptiveMode = "Yield" =>
          /\ idleIterations <= IdleIterations
          /\ quiet >= grace - warmupRemaining + idleIterations

Inv ==
    /\ TypeOK
    /\ BudgetOK
    /\ WithinBudget
    /\ CycleOK
    /\ RefusedEverywhere
    /\ IdleOK
    /\ SleepsOnlyWhenIdle
    /\ BackoffCapped

-------------------------------------------------------------------------------
(* What the documentation says *)

\* writer.go:67: "MaxBackoffs is the maximum number of backoff cycles before
\* giving up"; README.md:261: "Give up after 1000 cycles".
GivesUpAfterMaxBackoffs == GaveUp => cycles = MaxBackoffs
===============================================================================
