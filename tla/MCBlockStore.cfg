SPECIFICATION Spec
CONSTANTS
    Keys = {}
    Values = {v}
    NoVal = NoVal
    Hashes = {a, b, c, d}
    NoHash = NoHash
    TxIds = {}
    Lengths <- MCLengths
    HeaderLength = 1
    MaxFileLength = 5
    SaveDuringRollback = FALSE
    MaxHeight = 4
    MaxFaults = 2
SYMMETRY HashSymmetry
INVARIANTS TypeOK BlocksIntact  RollsBackLastBlock StoreInv
CHECK_DEADLOCK FALSE
