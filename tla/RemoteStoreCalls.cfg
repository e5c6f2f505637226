CONSTANTS
    p1 = p1
    b1 = b1
    b2 = b2
    Worker = {w1, w2}
    Block = {b1}
    Put = {p1}
    Hash <- MCHash
    Ask = {a1}
    Preflights = {}
    FlushCall = {f1, f2}
    Access = {"Init"}
    Old = {}
    Stale = {}
    Foreign = {}
    LocalIndex = NoIndex
    IndexCapacity = 1
    Faults = {"client", "write"}
    NoIndex = NoIndex
    NoPut = NoPut
SPECIFICATION Spec
CHECK_DEADLOCK FALSE
INVARIANTS PutsTracked FlushesGoOn
PROPERTY CallsReturn
