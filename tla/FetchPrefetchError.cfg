CONSTANTS
    g1 = g1
    g2 = g2
    g3 = g3
    b1 = b1
    b2 = b2
    Worker = {w1, w2}
    Get <- MCGet
    Block <- MCBlock
    BlockOf <- MCBlockOf
    NoJob = NoJob
    Preflighted = {b1}
    MaxPreflights = 1
    MayFail = {b1}
    Concurrent = {}
    QuietCaller = TRUE
    MaxPrefetchMemory = 1
    MaxFlushes = 0
SPECIFICATION Spec
CHECK_DEADLOCK FALSE
PROPERTY GetsAnswered
