SPECIFICATION Spec
CONSTANTS
    Keys = {k}
    Values = {v, w}
    NoVal = NoVal
    MaxOps = 1
    MaxTxs = 2
    MaxBlocks = 1
SYMMETRY ValueSymmetry
INVARIANT SeesSerialState
CHECK_DEADLOCK FALSE
