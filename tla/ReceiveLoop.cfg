\* Two udp_multiplexers and the context share one receive loop.
SPECIFICATION FairSpec
CONSTANTS
    u1 = u1
    u2 = u2
    Ctx = Ctx
    Users <- TwoUsers
INVARIANTS
    OneReceive
    ReceivingForSomebody
    WaitersLinked
    TickerArmed
    NothingAfterDestroy
PROPERTIES
    ContractKept
    ReceiveAnswered
    StateFreed
CHECK_DEADLOCK FALSE
