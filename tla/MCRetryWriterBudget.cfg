\* A writer whose budget was spent by an earlier call.
SPECIFICATION Spec
CONSTANTS
    NumShards = 2
    ShardSize = 2
    Home = 1
    Strategies = {"SleepBackoff"}
    RetryCounts = {2}
    Budgets = {2}
    BackoffDuration = 4
    MaxBackoff = 10
    Multiplier = 2
    IdleIterations = 1
    Warmup = 1
    MaxCalls = 2
    CountCap = 6
INVARIANTS
    GivesUpAfterMaxBackoffs
