CONSTANTS
    p1 = p1
    b1 = b1
    b2 = b2
    Worker = {w1, w2}
    Block = {b1, b2}
    Put = {p1, p2}
    Hash <- MCHash
    Ask = {a1}
    Preflights = {a1}
    FlushCall = {f1}
    Access = {"ReadWrite", "ReadOnly"}
    Old = {}
    Stale = {b1}
    Foreign = {b2}
    LocalIndex = {b2}
    IndexCapacity = 1
    Faults = {"exists", "index", "memory"}
    NoIndex = NoIndex
    NoPut = NoPut
SPECIFICATION Safety
SYMMETRY Symmetry
CHECK_DEADLOCK FALSE
INVARIANTS TypeOK PutsTracked CloseSavesPuts IndexedBlocksStored NoSendOnClosedChannel FlushSavesReceived
PROPERTIES ReadOnlyNeverWrites KeepsPromise
