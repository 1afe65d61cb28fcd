\* A slot that closes the socket, or reads its end, in the middle of a write.
SPECIFICATION Spec
CONSTANTS
    MaxRearm = 0
    MaxDepth = 4
INVARIANTS
    WriteHandlerSet
CHECK_DEADLOCK FALSE
