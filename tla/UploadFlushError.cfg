SPECIFICATION Spec
CONSTANTS
    a = a
    b = b
    c = c
    v = v
    w = w
    first = first
    second = second
    Process = {first, second}
    Tasks <- FlushTasks
    Path = {v, w}
    Chunk = {a, b, c}
    Content <- VersionContent
    MaxChunks = 2
    MinUsage = 60
    Old <- OldBlocks
    MaxLost = 0
    NoIndex = NoIndex
INVARIANTS UploadCompletes
CHECK_DEADLOCK FALSE
