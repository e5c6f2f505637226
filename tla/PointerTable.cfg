CONSTANTS
    o1 = o1
    o2 = o2
    o3 = o3
    o4 = o4
    Object <- Objects
    Size = 2
    Width = 4
    Forgettable = {o1}
    Free = Free
    Nothing = Nothing
SPECIFICATION Spec
INVARIANTS TypeOK RestoresOwn
PROPERTIES FailsOnlyWhenFull SavesReturn
CHECK_DEADLOCK FALSE
