SPECIFICATION Spec
CONSTANTS
    me = me
    p1 = p1
    p2 = p2
    Nodes = {me, p1, p2}
    Me = me
    Maker <- MCMaker
    Starts <- MCStarts
    MaxHeight = 3
    MaxMail = 1
    MaxFaults = 1
INVARIANTS TypeOK  NoFittingBlockForgotten
PROPERTIES RollsBackForksOnly 
CHECK_DEADLOCK FALSE
