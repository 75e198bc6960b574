SPECIFICATION Spec
CONSTANTS
    n1 = n1
    n2 = n2
    n3 = n3
    n4 = n4
    Nodes = {n1, n2, n3, n4}
    NoNode = NoNode
    Candidators <- MCCandidators
    Mode = 2
    ResendTimes = 0
    MaxBlocks = 2
    Schedules <- ForkSchedules
SYMMETRY Symmetry4
INVARIANT Agreement
CHECK_DEADLOCK FALSE
