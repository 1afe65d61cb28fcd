\* One socket, whose client is called in the middle of its own calls.
SPECIFICATION Spec
CONSTANTS
    MaxRearm = 1
    MaxDepth = 6
INVARIANTS
    AccountedInCalls
    CloseWindow
    CarefulSlotsSafe
CHECK_DEADLOCK FALSE
