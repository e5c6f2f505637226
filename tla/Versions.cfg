SPECIFICATION Spec
CONSTANTS
    a = a
    b = b
    c = c
    v = v
    w = w
    first = first
    second = second
    Process = {first, second}
    Tasks <- AllTasks
    Path = {v, w}
    Chunk = {a, b, c}
    Content <- VersionContent
    MaxChunks = 2
    MinUsage = 60
    Old <- OldBlocks
    MaxLost = 1
    NoIndex = NoIndex
INVARIANTS TypeOK PublishedIsStored UploadedIsListed PromisedIsDelivered LocalIndexIsComplete
CHECK_DEADLOCK FALSE
