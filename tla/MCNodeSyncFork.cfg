SPECIFICATION Spec
CONSTANTS
    me = me
    p1 = p1
    p2 = p2
    Nodes = {me, p1, p2}
    Me = me
    Maker <- MCMaker
    Starts <- OnlyForked
    MaxHeight = 3
    MaxMail = 1
    MaxFaults = 0
PROPERTY CatchesUp
CHECK_DEADLOCK FALSE
