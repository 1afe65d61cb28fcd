\* A send fails inside a write.
SPECIFICATION Spec
CONSTANTS
    s1 = s1
    s2 = s2
    Sockets <- OneSocket
    ClientOps <- AllOps
    MaxRx = 0
    MaxRearm = 1
    SendMayFail = TRUE
    Careful = FALSE
INVARIANTS
    WriteHandlerSet
CHECK_DEADLOCK FALSE
