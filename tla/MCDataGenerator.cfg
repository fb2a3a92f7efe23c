\* The three modes, buffers shorter and longer than the payload, and Stats.  The clock may stop, the
\* reader goes on.
SPECIFICATION LiveSpec
CONSTANTS
    Modes = {"high", "low", "unlimited"}
    Interval = 2
    Burst = 2
    PayloadSize = 2
    BufferSizes = {1, 3}
    CheckEvery = 2
    MaxTime = 5
    MaxPackets = 4
INVARIANTS
    Inv
    NeverAhead
    OneAfterCancel
PROPERTIES
    StatsAlmostConsistent
    CancelEndsRead
