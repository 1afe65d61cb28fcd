\* A write has to wait for on_writable.
SPECIFICATION Spec
CONSTANTS
    s1 = s1
    s2 = s2
    Sockets <- OneSocket
    ClientOps <- AllOps
    MaxRx = 0
    MaxRearm = 1
    SendMayFail = FALSE
    Careful = FALSE
INVARIANTS
    IdleWhenNoOps
CHECK_DEADLOCK FALSE
