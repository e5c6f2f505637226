CONSTANTS
    Client = {p1, p2}
    Block = {b1, b2}
    MaxGeneration = 3
SPECIFICATION Spec
INVARIANTS TypeOK AckedKept SavedViewIsStored
PROPERTIES StoreNeverShrinks UpdateIsAtomic
