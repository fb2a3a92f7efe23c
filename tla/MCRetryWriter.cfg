\* Every strategy, two shards, three calls, with a budget and without, attempts
\* or none, other producers or none; nobody has to drain the shards.
SPECIFICATION LiveSpec
CONSTANTS
    NumShards = 2
    ShardSize = 2
    Home = 1
    Strategies = {"Direct", "SleepBackoff", "NextShard", "RandomShard", "AdaptiveBackoff", "SpinThenYield", "Hybrid", "AutoAdaptive"}
    RetryCounts = {0, 2}
    Budgets = {0, 4}
    BackoffDuration = 4
    MaxBackoff = 10
    Multiplier = 2
    IdleIterations = 1
    Warmup = 1
    MaxCalls = 3
    CountCap = 6
INVARIANTS
    Inv
    WithinBudget
    RefusedEverywhere
    SleepsOnlyWhenIdle
    BackoffCapped
PROPERTIES
    CallsEnd
    CallsSucceed
\* After the last call with every shard drained nothing is left to do.
CHECK_DEADLOCK FALSE
