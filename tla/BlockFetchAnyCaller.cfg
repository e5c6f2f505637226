CONSTANTS
    g1 = g1
    g2 = g2
    g3 = g3
    b1 = b1
    b2 = b2
    Worker = {w1, w2}
    Get <- MCGet
    Block <- MCBlock
    BlockOf <- MCBlockOf
    NoJob = NoJob
    Preflighted = {b1, b2}
    MaxPreflights = 1
    MayFail = {b2}
    Concurrent = {b1, b2}
    QuietCaller = FALSE
    MaxPrefetchMemory = 1
    MaxFlushes = 1
SPECIFICATION Spec
CHECK_DEADLOCK FALSE
INVARIANTS TypeOK AnsweredAtMostOnce MemoryAccounted MemoryBounded NothingHeldAfterClose
