\* One socket, every operation, failing sends, a careless client.
SPECIFICATION Spec
CONSTANTS
    s1 = s1
    s2 = s2
    Sockets <- OneSocket
    ClientOps <- AllOps
    MaxRx = 2
    MaxRearm = 2
    SendMayFail = TRUE
    Careful = FALSE
INVARIANTS
    CompletionOnce
    OpCountExact
    ReceivingWhileOps
    EofAfterData
    AssertedStates
    CloseTracked
PROPERTIES
    ContractKept
CHECK_DEADLOCK FALSE
