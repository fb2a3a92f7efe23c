SPECIFICATION Spec
CONSTANTS
    Writers = {w1, w2}
    Values = {nil, a}
    Nil = nil
    Size = 1
    MaxPos = 4
PROPERTIES
    AcceptedOnlyWithRoom
