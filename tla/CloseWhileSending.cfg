\* A udp_multiplexer is closed while a send is in flight.
SPECIFICATION Spec
CONSTANTS
    u1 = u1
    u2 = u2
    Ctx = Ctx
    Users <- TwoUsers
INVARIANTS
    RecvHandlerSet
CHECK_DEADLOCK FALSE
