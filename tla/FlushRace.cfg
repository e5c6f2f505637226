CONSTANTS
    p1 = p1
    b1 = b1
    b2 = b2
    Worker = {w1, w2}
    Block = {b1}
    Put = {p1}
    Hash <- MCHash
    Ask = {a1}
    Preflights = {}
    FlushCall = {f1}
    Access = {"ReadWrite"}
    Old = {}
    Stale = {}
    Foreign = {}
    LocalIndex = NoIndex
    IndexCapacity = 1
    Faults = {}
    NoIndex = NoIndex
    NoPut = NoPut
SPECIFICATION FSpec
CHECK_DEADLOCK FALSE
PROPERTY FlushedContentExists
