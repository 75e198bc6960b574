SPECIFICATION Spec
CONSTANTS
    Auths = {a, b}
    Lists = {l0, l1, s}
    Short = {s}
    FirstList = l0
    NoList = NoList
    Readers = {r1, r2}
    Schedules <- MCSchedules
SYMMETRY Exchangeable
INVARIANTS TypeOK CachedIsSavedUnlessRaced CheckedIsSavedUnlessRaced GrantsWereCommitted VotesAreSavedUnlessStrayed
CHECK_DEADLOCK FALSE
