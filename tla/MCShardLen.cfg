\* Two writers, the consumer and an observer; an odd number of slots, more than
\* one lap; no symmetry, for liveness.
SPECIFICATION LenLiveSpec
CONSTANTS
    Writers = {w1, w2}
    Values = {nil}
    Nil = nil
    Size = 3
    MaxPos = 4
PROPERTIES
    LenNeverOvercounts
    EverythingDelivered
