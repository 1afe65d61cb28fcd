\* Assignments across io_contexts.
SPECIFICATION Spec
CONSTANTS
    Socks = {f1, f2}
    Umuxes = {u1}
    Impls = {i1, i2}
    States = {s1}
    Muxes = {m1, m2}
    Services = {c1, c2}
    Endpoints = {e1}
    AnyPort = any
    Nil = nil
    Asserts = FALSE
    OwnPorts = TRUE
    AssignOver = FALSE
    CrossAssign = TRUE
SYMMETRY Symmetry
INVARIANTS
    RegistryEmptied
CHECK_DEADLOCK FALSE
