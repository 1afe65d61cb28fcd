\* Slots that connect, drop, move and call while they are called.
SPECIFICATION Spec
CONSTANTS
    Signals = {g1, g2}
    Connections = {c1, c2, c3, c4}
    Slots = {x1, x2, x3}
    Nil = nil
    MaxDepth = 3
    AssignOver = FALSE
    Asserts = TRUE
INVARIANTS
    ListsSound
PROPERTIES
    EverySlotCalled
