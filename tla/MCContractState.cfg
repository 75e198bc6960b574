SPECIFICATION Spec
CONSTANTS
    Keys = {k}
    Values = {v, w}
    NoVal = NoVal
    MaxOps = 3
    MaxTxs = 2
    MaxBlocks = 1
SYMMETRY ValueSymmetry
INVARIANTS TypeOK SeesSerialUnlessLeaked SavesUnlessRecreated
PROPERTY RollbackRestoresWrittenOnce
CHECK_DEADLOCK FALSE
