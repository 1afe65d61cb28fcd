\* Objects of two io_contexts, moved, copied, closed and destroyed in any order.
SPECIFICATION Spec
CONSTANTS
    Socks = {f1, f2}
    Umuxes = {u1, u2}
    Impls = {i1, i2}
    States = {s1, s2}
    Muxes = {m1, m2}
    Services = {c1, c2}
    Endpoints = {e1, e2}
    AnyPort = any
    Nil = nil
    Asserts = FALSE
    OwnPorts = TRUE
    AssignOver = FALSE
    CrossAssign = TRUE
SYMMETRY Symmetry
INVARIANTS
    OwnerValid
    RegistryLive
    Shareable
    HeldByClient
CHECK_DEADLOCK FALSE
