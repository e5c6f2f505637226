CONSTANTS
    p1 = p1
    b1 = b1
    b2 = b2
    Worker = {w1, w2}
    Block = {b1}
    Put = {p1}
    Hash <- MCHash
    Ask = {}
    Preflights = {}
    FlushCall = {f1}
    Access = {"ReadWrite"}
    Old = {}
    Stale = {}
    Foreign = {}
    LocalIndex = NoIndex
    IndexCapacity = 1
    Faults = {"write"}
    NoIndex = NoIndex
    NoPut = NoPut
SPECIFICATION Safety
CHECK_DEADLOCK FALSE
INVARIANT PutsStored
