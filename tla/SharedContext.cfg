\* Two sockets of a careful client on one context, failing sends.
SPECIFICATION Spec
CONSTANTS
    s1 = s1
    s2 = s2
    Sockets <- TwoSockets
    ClientOps <- AcceptSend
    MaxRx = 1
    MaxRearm = 1
    SendMayFail = TRUE
    Careful = TRUE
SYMMETRY SocketSymmetry
INVARIANTS
    ClosedKeepsNothing
    CarefulClientSafe
CHECK_DEADLOCK FALSE
