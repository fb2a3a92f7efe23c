SPECIFICATION Spec
CONSTANTS
    NumTests = 2
    Types <- MCTypes
    MaxSessions = 2
    Seconds = {1, 2}
INVARIANTS
    ForeignOnlyIfLeftBehind
    AnalysedOnce
    LatestIsWhole
PROPERTY NothingLost
\* The suite ends.
CHECK_DEADLOCK FALSE
