\* Every byte of a stream, cut into every sequence of chunks.
SPECIFICATION FairSpec
CONSTANTS
    MaxBytes = 5
    WriteShapes <- Writes
    ReadShapes <- Reads
INVARIANTS
    QueueContiguous
    WritesAccounted
    ReadMakesProgress
PROPERTIES
    IsByteStream
    WriteEnds
    ReadEnds
CHECK_DEADLOCK FALSE
