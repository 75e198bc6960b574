SPECIFICATION Spec
CONSTANTS
    Keys = {}
    Values = {v}
    NoVal = NoVal
    Hashes = {a, b, c, d}
    NoHash = NoHash
    TxIds = {}
    Lengths <- MCLengths
    HeaderLength = 1
    MaxFileLength = 5
    SaveDuringRollback = TRUE
    MaxHeight = 4
    MaxFaults = 0
SYMMETRY HashSymmetry
INVARIANT RollsBackLastBlock
CHECK_DEADLOCK FALSE
