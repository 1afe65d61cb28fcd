\* An accepting socket is closed, a connection arrives.
SPECIFICATION Spec
CONSTANTS
    s1 = s1
    s2 = s2
    Sockets <- OneSocket
    ClientOps <- ServerSide
    MaxRx = 0
    MaxRearm = 0
    SendMayFail = FALSE
    Careful = FALSE
INVARIANTS
    AcceptHandlerSet
CHECK_DEADLOCK FALSE
