SPECIFICATION Spec
CONSTANTS
    Txs = {t1, t2, t3}
    Adders = {a1, a2}
    CacheMaxSize = 1
    MaxOfBlock = 2
    MaxAdds = 3
    MaxBlocks = 1
    MaxRollbacks = 1
    MaxPackages = 2
    MaxRestarts = 1
SYMMETRY Exchangeable
INVARIANTS TypeOK CountInStep OverrunBounded NothingStranded PoolIsSaved PackedOnce PackedInOrderUnlessLoaded
PROPERTY RestartKeepsPoolUnlessGap
CHECK_DEADLOCK FALSE
