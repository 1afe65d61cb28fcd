\* A linked connection is assigned over.
SPECIFICATION Spec
CONSTANTS
    Signals = {g1}
    Connections = {c1, c2}
    Slots = {x1, x2, x3}
    Nil = nil
    MaxDepth = 2
    AssignOver = TRUE
    Asserts = TRUE
INVARIANTS
    NoEmptySlot
