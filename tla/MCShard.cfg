\* Three writers race for a shard of two slots, over three laps.
SPECIFICATION Spec
CONSTANTS
    Writers = {w1, w2, w3}
    Values = {nil, a}
    Nil = nil
    Size = 2
    MaxPos = 4
SYMMETRY Permutation
INVARIANTS
    Inv
    Fifo
    NoDataRace
    OverrunOnlyInWindow
PROPERTIES
    RejectionJustified
    AcceptedOnlyWithRoom
    EmptyJustified
    ImplementsQueue
