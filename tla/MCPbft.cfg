SPECIFICATION Spec
CONSTANTS
    n1 = n1
    n2 = n2
    n3 = n3
    n4 = n4
    q1 = q1
    q2 = q2
    q3 = q3
    Order <- MCOrder
    Requesters = {q1, q2, q3}
    MaxBlocks = 2
    Schedules <- MCSchedules
SYMMETRY Exchangeable
INVARIANTS TypeOK AgreementUnlessTimedOut PublishedHasCertificate ForksAreDoubleCommits 
CHECK_DEADLOCK FALSE
