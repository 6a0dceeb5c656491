SPECIFICATION FairSpec
CONSTANTS
    Workers = {w1, w2}
    Master = Master
    Txs = {{c1, c2, c3, c4}, {c5}}
    Failing = {c1, c5}
    nBatchSize = 2
    nullopt = nullopt
    MaxSessions = 2
INVARIANTS
    TypeOK
    CompleteIsRight
    CountersCount
    NoLostWakeup
PROPERTIES
    CompleteReturns
    WorkersExit
