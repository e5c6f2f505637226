CONSTANTS
    g1 = g1
    g2 = g2
    g3 = g3
    b1 = b1
    b2 = b2
    Worker = {w1, w2}
    Get <- MCGet
    Block <- MCBlock
    BlockOf <- MCBlockOf
    NoJob = NoJob
    Preflighted = {b1}
    MaxPreflights = 2
    MayFail = {b2}
    Concurrent = {b2}
    QuietCaller = TRUE
    MaxPrefetchMemory = 1
    MaxFlushes = 1
SPECIFICATION Spec
CHECK_DEADLOCK FALSE
INVARIANTS WaitersHaveReader NoPanic NoGetForgotten
PROPERTY GetsAnswered
