\* Liveness for one socket of a careful client, slots included.
SPECIFICATION FairSpec
CONSTANTS
    s1 = s1
    s2 = s2
    Sockets <- OneSocket
    ClientOps <- StreamSide
    MaxRx = 0
    MaxRearm = 1
    SendMayFail = FALSE
    Careful = TRUE
PROPERTIES
    CloseCompletes
    AbandonedOpsComplete
    MultiplexerFreed
CHECK_DEADLOCK FALSE
