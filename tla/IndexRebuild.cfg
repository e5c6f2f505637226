SPECIFICATION Spec
CONSTANTS
    b1 = b1
    b2 = b2
    n1 = n1
    n2 = n2
    n3 = n3
    Block <- MCBlock
    Name <- MCName
    PathOf <- MCPathOf
    WorkerCount = 2
    Faults = {"list", "client", "exists", "read", "memory"}
    Absent = Absent
    Empty = Empty
    Junk = Junk
    Nothing = Nothing
INVARIANTS TypeOK IndexIsStored NothingSkipped OneReaderPerClient
PROPERTIES BuildEnds RebuildIsSnapshot
CHECK_DEADLOCK FALSE
