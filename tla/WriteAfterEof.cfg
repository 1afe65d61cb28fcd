\* A write is started after a read has reported the end of the stream.
SPECIFICATION Spec
CONSTANTS
    s1 = s1
    s2 = s2
    Sockets <- OneSocket
    ClientOps <- AllOps
    MaxRx = 0
    MaxRearm = 1
    SendMayFail = FALSE
    Careful = FALSE
INVARIANTS
    ClosedSocketIdle
CHECK_DEADLOCK FALSE
