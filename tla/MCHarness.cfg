SPECIFICATION LiveSpec
CONSTANTS
    Modes = {"suite", "comparison"}
    SuiteTests <- MCSuiteTests
    ComparisonTests <- MCComparisonTests
    Matrix <- MCMatrix
    StrategyMatrix <- MCStrategyMatrix
    Filter <- MCFilter
    Rates = {100}
    Drops = {1}
    ShutdownTimes = {1, 3}
    RateTolerance = 5
    MaxDropRate = 1
    MaxShutdownTime = 2
    MaxIntervals = 1
INVARIANTS PassesAreEarned EveryCombinationRun TablesAgree BestIsBest
PROPERTY LoopEnds
\* The harness stops after the last test.
CHECK_DEADLOCK FALSE
