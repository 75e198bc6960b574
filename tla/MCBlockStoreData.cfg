SPECIFICATION Spec
CONSTANTS
    Keys = {k}
    Values = {v, w}
    NoVal = NoVal
    Hashes = {a, b, c}
    NoHash = NoHash
    TxIds = {t, u}
    Lengths = {2}
    HeaderLength = 1
    MaxFileLength = 5
    SaveDuringRollback = FALSE
    MaxHeight = 3
    MaxFaults = 1
SYMMETRY HashSymmetry
INVARIANTS ChainInfoIsTip 
PROPERTY ImplementsLedger
CHECK_DEADLOCK FALSE
