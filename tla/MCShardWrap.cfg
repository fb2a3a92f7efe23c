\* Counters modulo 6 on a shard of two slots, run past two wraps.
SPECIFICATION SpecLow
CONSTANTS
    Writers = {w1, w2}
    Values = {nil}
    Nil = nil
    Size = 2
    MaxPos = 13
    Modulus = 6
    MaxLag = 4
PROPERTIES
    ImplementsWide
    LenOvercountsOnlyAtWrap
